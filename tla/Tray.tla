-------------------------------- MODULE Tray --------------------------------
(***************************************************************************)
(* The popover under the menu-bar icon:                                    *)
(* apps/desktop/src-tauri/src/tray.rs and the focus handler of lib.rs.     *)
(*                                                                         *)
(* Clicks, focus losses, the pre-warm and the show after a cold build all  *)
(* run on the main thread, in the order in which they were queued.  A      *)
(* press on the icon takes the focus from the popover, which hides it      *)
(* before the click arrives: a click shortly after a hide is ignored.      *)
(***************************************************************************)
EXTENDS Naturals, Sequences

CONSTANTS
    Suppress,       \* REOPEN_SUPPRESS_MS, in ticks
    MaxNow,         \* bound: the clock
    MaxUserActs     \* bound: what the user does

VARIABLES
    now,
    popover,        \* "none", "hidden" or "shown"
    focused,        \* the popover has the focus
    lastHidden,     \* last_hidden_at, or Never
    hidAt,          \* when the popover last went away (history)
    prewarm,        \* "sleeping" or "done"
    queue,          \* the main thread's queue
    pressed,        \* the button is down on the icon
    acts,           \* what the user did so far
    wish,           \* what the clicks so far ask for: open or not (history)
    odd,            \* a click came too soon after an unrelated hide or too late
                    \* after its own, a build failed, or the main window was
                    \* opened between a cold build and its show (history)
    duplicate       \* a second popover was built (history)

trayVars == <<now, popover, focused, lastHidden, hidAt, prewarm, queue, pressed,
              acts, wish, odd, duplicate>>

Never == MaxNow + Suppress + 1

Event == [kind : {"blur", "prewarm", "show", "main"}]
    \cup [kind : {"click"}, open : BOOLEAN]

TrayTypeOK ==
    /\ now \in 0..MaxNow
    /\ popover \in {"none", "hidden", "shown"}
    /\ {lastHidden, hidAt} \subseteq 0..MaxNow \cup {Never}
    /\ prewarm \in {"sleeping", "done"}
    /\ queue \in Seq(Event)
    /\ acts \in 0..MaxUserActs
    /\ {focused, pressed, wish, odd, duplicate} \subseteq BOOLEAN
    /\ focused => popover = "shown"

TrayInit ==
    /\ now = 0
    /\ popover = "none" /\ focused = FALSE
    /\ lastHidden = Never /\ hidAt = Never
    /\ prewarm = "sleeping" /\ queue = <<>>
    /\ pressed = FALSE /\ acts = 0
    /\ wish = FALSE /\ odd = FALSE /\ duplicate = FALSE

Since(t) == IF t = Never THEN Never ELSE now - t

-----------------------------------------------------------------------------
(* The user and the system.                                                *)

\* The focus leaves the popover; it is told through the queue.
LoseFocus ==
    /\ focused' = FALSE
    /\ queue' = IF focused THEN Append(queue, [kind |-> "blur"]) ELSE queue

Act == acts < MaxUserActs /\ acts' = acts + 1

Press ==
    /\ Act /\ ~pressed
    /\ pressed' = TRUE
    /\ LoseFocus
    /\ UNCHANGED <<now, popover, lastHidden, hidAt, prewarm, wish, odd, duplicate>>

Release ==
    /\ pressed
    /\ pressed' = FALSE
    /\ queue' = Append(queue, [kind |-> "click", open |-> wish])
    /\ wish' = ~wish
    /\ UNCHANGED <<now, popover, focused, lastHidden, hidAt, prewarm, acts, odd, duplicate>>

ClickElsewhere ==
    /\ Act /\ ~pressed /\ focused
    /\ LoseFocus
    /\ wish' = FALSE
    /\ UNCHANGED <<now, popover, lastHidden, hidAt, prewarm, pressed, odd, duplicate>>

\* The Dock icon, the menu, or a button of the popover.
OpenMain ==
    /\ Act /\ ~pressed
    /\ queue' = Append(queue, [kind |-> "main"])
    /\ wish' = FALSE
    /\ UNCHANGED <<now, popover, focused, lastHidden, hidAt, prewarm, pressed, odd, duplicate>>

\* The thread that waits PREWARM_DELAY_MS.
PrewarmWakes ==
    /\ prewarm = "sleeping"
    /\ prewarm' = "done"
    /\ queue' = IF popover = "none" THEN Append(queue, [kind |-> "prewarm"]) ELSE queue
    /\ UNCHANGED <<now, popover, focused, lastHidden, hidAt, pressed, acts, wish, odd, duplicate>>

Tick ==
    /\ now < MaxNow
    /\ now' = now + 1
    /\ UNCHANGED <<popover, focused, lastHidden, hidAt, prewarm, queue, pressed,
                   acts, wish, odd, duplicate>>

-----------------------------------------------------------------------------
(* The main thread.                                                        *)

IsNext(kind) == queue # <<>> /\ Head(queue).kind = kind

\* stamp_hidden
Stamp == now

Hidden == IF popover = "none" THEN "none" ELSE "hidden"

\* Focused(false)
Blur ==
    /\ IsNext("blur")
    /\ queue' = Tail(queue)
    /\ popover' = Hidden
    /\ focused' = FALSE
    /\ lastHidden' = Stamp
    /\ hidAt' = now
    /\ UNCHANGED <<now, prewarm, pressed, acts, wish, odd, duplicate>>

\* show_main_window takes the focus, so a popover in front is stamped too.  A
\* cold build's show that is still queued opens it again.
ShowMain ==
    /\ IsNext("main")
    /\ queue' = Tail(queue)
    /\ popover' = Hidden
    /\ focused' = FALSE
    /\ IF focused
       THEN lastHidden' = Stamp /\ hidAt' = now
       ELSE UNCHANGED <<lastHidden, hidAt>>
    /\ odd' = (odd \/ \E i \in DOMAIN queue : queue[i].kind = "show")
    /\ UNCHANGED <<now, prewarm, pressed, acts, wish, duplicate>>

\* build_popover: a window that is not shown, or an error and none.
Built == {"hidden", "none"}

\* Faulty variant: the pre-warm trusts the check its thread made.
PrewarmUnchecked ==
    /\ IsNext("prewarm")
    /\ queue' = Tail(queue)
    /\ popover' \in IF popover = "none" THEN Built ELSE {popover}
    /\ duplicate' = (duplicate \/ popover # "none")
    /\ UNCHANGED <<now, focused, lastHidden, hidAt, prewarm, pressed, acts, wish, odd>>

\* Looks again, because a click may have built the window since.
Prewarm ==
    /\ IsNext("prewarm")
    /\ queue' = Tail(queue)
    /\ popover' \in IF popover = "none" THEN Built ELSE {popover}
    /\ UNCHANGED <<now, focused, lastHidden, hidAt, prewarm, pressed, acts, wish, odd, duplicate>>

\* The queued show() and set_focus() of the cold build.
ShowBuilt ==
    /\ IsNext("show")
    /\ queue' = Tail(queue)
    /\ popover' = "shown" /\ focused' = TRUE
    /\ UNCHANGED <<now, lastHidden, hidAt, prewarm, pressed, acts, wish, odd, duplicate>>

Recently == Since(lastHidden) < Suppress

\* The click asks to close a popover whose hide it caused, or to open one that
\* has been away for a while.
AsExpected(click) == (Since(hidAt) < Suppress) = click.open

\* handle_left_click
LeftClick ==
    /\ IsNext("click")
    /\ \/ /\ Recently
          /\ queue' = Tail(queue)
          /\ UNCHANGED <<popover, focused, lastHidden, hidAt>>
       \/ /\ ~Recently /\ popover = "shown"
          /\ queue' = Tail(queue)
          /\ popover' = "hidden" /\ focused' = FALSE
          /\ lastHidden' = Stamp /\ hidAt' = now
       \/ /\ ~Recently /\ popover = "hidden"
          /\ queue' = Tail(queue)
          /\ popover' = "shown" /\ focused' = TRUE
          /\ UNCHANGED <<lastHidden, hidAt>>
       \/ /\ ~Recently /\ popover = "none"
          /\ popover' \in Built
          /\ queue' = IF popover' = "none" THEN Tail(queue)
                      ELSE Append(Tail(queue), [kind |-> "show"])
          /\ UNCHANGED <<focused, lastHidden, hidAt>>
    /\ odd' = (odd \/ ~AsExpected(Head(queue)) \/ popover' = "none")
    /\ UNCHANGED <<now, prewarm, pressed, acts, wish, duplicate>>

TrayNext ==
    \/ Press \/ Release \/ ClickElsewhere \/ OpenMain \/ PrewarmWakes \/ Tick
    \/ Blur \/ ShowMain \/ Prewarm \/ ShowBuilt \/ LeftClick

TraySpec == TrayInit /\ [][TrayNext]_trayVars

-----------------------------------------------------------------------------
(* Properties.                                                             *)

\* "Click the tray icon to dismiss the popover": when the main thread has
\* caught up the popover is open or closed as the clicks asked, although every
\* press on the icon hides it before its click is seen.  Excepted are clicks
\* within the suppression time of another hide, presses held longer, a build
\* that fails and one that the main window overtakes.
ClickToggles ==
    queue = <<>> /\ ~pressed /\ ~odd => (popover = "shown") = wish

\* The pre-warm and a click never both build the window.
BuiltOnce == ~duplicate
=============================================================================
