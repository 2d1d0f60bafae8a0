---------------------------- MODULE PickerProofs ----------------------------
(***************************************************************************)
(* Theorems about Picker, for any set of asks, any number of clicks, and   *)
(* with asks arriving at any distance from each other.                     *)
(***************************************************************************)
EXTENDS Picker, TLAPS

\* Every variable keeps its type: the Init half.
LEMMA TypeInit == Init => TypeOK
BY PickerAssumption DEF Init, TypeOK, Opt

\* Every variable keeps its type: each step of the asks' threads, of the
\* windows' users and of the main thread.
LEMMA TypeStep == TypeOK /\ [Next]_vars => TypeOK'
<1> USE PickerAssumption DEF Opt, Running, Returned, threadVars, slotVars,
        chanVars, windowVars, renderVars, flightVars
<1> SUFFICES ASSUME TypeOK, [Next]_vars PROVE TypeOK'
    OBVIOUS
<1>1. CASE UNCHANGED vars
    BY <1>1 DEF TypeOK, vars
<1>2. ASSUME NEW a \in Asks, PreviewCheck(a) PROVE TypeOK'
    BY <1>2 DEF TypeOK, PreviewCheck, Goto
<1>3. ASSUME NEW a \in Asks, ThreadStep(a) PROVE TypeOK'
    <2>1. CASE Drop(a)
        BY <2>1 DEF TypeOK, Drop
    <2>2. CASE Claim(a)
        BY <2>2 DEF TypeOK, Claim
    <2>3. CASE CloseLeftover(a)
        BY <2>3 DEF TypeOK, CloseLeftover, Goto, CloseByLabel
    <2>4. CASE Build(a)
        BY <2>4 DEF TypeOK, Build, Goto
    <2>5. CASE BuildFails(a)
        BY <2>5 DEF TypeOK, BuildFails, Goto
    <2>6. CASE Receive(a)
        BY <2>6 DEF TypeOK, Receive, Goto
    <2>7. CASE Timeout(a)
        BY <2>7 DEF TypeOK, Timeout, Goto
    <2>8. CASE CloseWindow(a)
        BY <2>8 DEF TypeOK, CloseWindow, Goto, CloseByLabel
    <2>9. CASE ClearSession(a)
        BY <2>9 DEF TypeOK, ClearSession, Goto
    <2>10. CASE ClearPending(a)
        BY <2>10 DEF TypeOK, ClearPending, Goto
    <2> QED
        BY <1>3, <2>1, <2>2, <2>3, <2>4, <2>5, <2>6, <2>7, <2>8, <2>9, <2>10
        DEF ThreadStep
<1>4. ASSUME NEW w \in Asks, UserStep(w) PROVE TypeOK'
    <2>1. CASE Load(w)
        BY <2>1 DEF TypeOK, Load
    <2>2. CASE Click(w)
        BY <2>2 DEF TypeOK, Click
    <2>3. CASE UserCancels(w)
        BY <2>3 DEF TypeOK, UserCancels
    <2>4. CASE UserCloses(w)
        BY <2>4 DEF TypeOK, UserCloses, Resolve
    <2> QED
        BY <1>4, <2>1, <2>2, <2>3, <2>4 DEF UserStep
<1>5. ASSUME NEW w \in Asks, MainStep(w) PROVE TypeOK'
    <2>1. CASE ResolvePick(w)
        BY <2>1 DEF TypeOK, ResolvePick, Resolve
    <2>2. CASE ResolveCancel(w)
        BY <2>2 DEF TypeOK, ResolveCancel, Resolve
    <2>3. CASE MainClose(w)
        BY <2>3 DEF TypeOK, MainClose, Resolve
    <2>4. CASE MainDestroyed(w)
        BY <2>4 DEF TypeOK, MainDestroyed
    <2> QED
        BY <1>5, <2>1, <2>2, <2>3, <2>4 DEF MainStep
<1> QED
    BY <1>1, <1>2, <1>3, <1>4, <1>5 DEF Next

\* The state of the picker is always well typed.
THEOREM TypeCorrect == Spec => []TypeOK
BY TypeInit, TypeStep, PTL DEF Spec

-----------------------------------------------------------------------------
(* The slot.  TypeOK and SlotInv together are inductive; the two extra     *)
(* parts of SlotInv say that a sender is unused until the step that takes  *)
(* it out of the slot.                                                     *)

\* Steps that leave the threads' places, the slot and the channels alone
\* cannot disturb SlotInv.
LEMMA SlotFrame ==
    SlotInv /\ UNCHANGED <<pc, pending, sender>> => SlotInv'
BY DEF SlotInv, SlotHolderIsLive, SlotSenderUnsent, FreshUnsent

\* picker_resolve empties the slot and uses only the sender it took out.
LEMMA SlotResolve ==
    ASSUME TypeOK, SlotInv, NEW picked \in Opt, Resolve(picked), pc' = pc
    PROVE  SlotInv'
<1>1. pending' = NoAsk
    BY DEF Resolve
<1>2. FreshUnsent'
    <2> SUFFICES ASSUME NEW b \in Asks, pc[b] \in {"idle", "checked"}
                 PROVE  sender'[b] = "unsent"
        BY DEF FreshUnsent
    <2>1. sender[b] = "unsent" /\ b # pending
        BY PickerAssumption
        DEF SlotInv, FreshUnsent, SlotHolderIsLive, Running
    <2> QED
        BY <2>1, PickerAssumption DEF Resolve, TypeOK, Opt, chanVars
<1> QED
    BY <1>1, <1>2 DEF SlotInv, SlotHolderIsLive, SlotSenderUnsent

\* An ask's thread that moves from a place inside show_picker to another, or
\* leaves it, and touches neither the slot nor a channel.
LEMMA SlotMove ==
    ASSUME TypeOK, SlotInv, NEW a \in Asks, NEW to,
           pc' = [pc EXCEPT ![a] = to], UNCHANGED <<pending, sender>>,
           \/ pc[a] \in Running /\ to \in Running \cup {"failed"}
           \/ pc[a] \in {"idle", "checked"} /\ to \in {"checked", "refused", "dropped"}
    PROVE  SlotInv'
BY PickerAssumption
DEF TypeOK, Opt, SlotInv, SlotHolderIsLive, SlotSenderUnsent, FreshUnsent,
    Running

\* Claiming the empty slot puts the claimer's unused sender there.
LEMMA SlotClaim ==
    ASSUME TypeOK, SlotInv, NEW a \in Asks, Claim(a)
    PROVE  SlotInv'
<1>1. /\ pending' = a /\ pc' = [pc EXCEPT ![a] = "claimed"]
      /\ sender' = sender /\ pc[a] \in {"idle", "checked"}
    BY DEF Claim, ClaimFrom, chanVars
<1> QED
    BY <1>1, PickerAssumption
    DEF TypeOK, Opt, SlotInv, SlotHolderIsLive, SlotSenderUnsent,
        FreshUnsent, Running

\* The last step of a cleanup leaves the slot empty.
LEMMA SlotClear ==
    ASSUME TypeOK, SlotInv, NEW a \in Asks, ClearPending(a)
    PROVE  SlotInv'
<1>1. /\ pending' = NoAsk
      /\ pc[a] = "clearPending" /\ pc' = [pc EXCEPT ![a] = "done"]
    BY DEF ClearPending, Goto
<1>2. FreshUnsent'
    <2> SUFFICES ASSUME NEW b \in Asks, pc'[b] \in {"idle", "checked"}
                 PROVE  sender'[b] = "unsent"
        BY DEF FreshUnsent
    <2>1. pc[b] \in {"idle", "checked"}
        BY <1>1 DEF TypeOK
    <2>2. sender[b] = "unsent" /\ b # pending
        BY <2>1, PickerAssumption
        DEF SlotInv, FreshUnsent, SlotHolderIsLive, Running
    <2> QED
        BY <2>2, PickerAssumption DEF ClearPending, TypeOK, Opt
<1> QED
    BY <1>1, <1>2 DEF SlotInv, SlotHolderIsLive, SlotSenderUnsent

\* No step of the picker disturbs SlotInv.
LEMMA SlotStep == TypeOK /\ SlotInv /\ [Next]_vars => SlotInv'
<1> SUFFICES ASSUME TypeOK, SlotInv, [Next]_vars PROVE SlotInv'
    OBVIOUS
<1> USE DEF slotVars, chanVars, threadVars, windowVars
<1>1. CASE UNCHANGED vars
    BY <1>1, SlotFrame DEF vars
<1>2. ASSUME NEW a \in Asks, PreviewCheck(a) PROVE SlotInv'
    BY <1>2, SlotMove DEF PreviewCheck, Goto
<1>3. ASSUME NEW a \in Asks, ThreadStep(a) PROVE SlotInv'
    <2>1. CASE Drop(a)
        BY <2>1, SlotMove DEF Drop, ClaimFrom
    <2>2. CASE Claim(a)
        BY <2>2, SlotClaim
    <2>3. CASE CloseLeftover(a)
        BY <2>3, SlotMove DEF CloseLeftover, Goto, Running
    <2>4. CASE Build(a)
        BY <2>4, SlotMove DEF Build, Goto, Running
    <2>5. CASE BuildFails(a)
        BY <2>5, SlotMove DEF BuildFails, Goto, Running
    <2>6. CASE Receive(a)
        BY <2>6, SlotMove DEF Receive, Goto, Running
    <2>7. CASE Timeout(a)
        BY <2>7, SlotMove DEF Timeout, Goto, Running
    <2>8. CASE CloseWindow(a)
        BY <2>8, SlotMove DEF CloseWindow, Goto, Running
    <2>9. CASE ClearSession(a)
        BY <2>9, SlotMove DEF ClearSession, Goto, Running
    <2>10. CASE ClearPending(a)
        BY <2>10, SlotClear
    <2> QED
        BY <1>3, <2>1, <2>2, <2>3, <2>4, <2>5, <2>6, <2>7, <2>8, <2>9, <2>10
        DEF ThreadStep
<1>4. ASSUME NEW w \in Asks, UserStep(w) PROVE SlotInv'
    <2>1. CASE Load(w) \/ Click(w) \/ UserCancels(w)
        BY <2>1, SlotFrame DEF Load, Click, UserCancels
    <2>2. CASE UserCloses(w)
        BY <2>2, SlotResolve DEF UserCloses, Opt
    <2> QED
        BY <1>4, <2>1, <2>2 DEF UserStep
<1>5. ASSUME NEW w \in Asks, MainStep(w) PROVE SlotInv'
    <2>1. CASE ResolvePick(w)
        BY <2>1, SlotResolve DEF ResolvePick, TypeOK
    <2>2. CASE ResolveCancel(w)
        BY <2>2, SlotResolve DEF ResolveCancel, Opt
    <2>3. CASE MainClose(w)
        <3>1. pc' = pc
            BY <2>3 DEF MainClose
        <3>2. CASE win[w] \in {"open", "dying"}
            BY <2>3, <3>1, <3>2, SlotResolve DEF MainClose, Opt
        <3>3. CASE win[w] \notin {"open", "dying"}
            BY <2>3, <3>1, <3>3, SlotFrame DEF MainClose
        <3> QED
            BY <3>2, <3>3
    <2>4. CASE MainDestroyed(w)
        BY <2>4, SlotFrame DEF MainDestroyed
    <2> QED
        BY <1>5, <2>1, <2>2, <2>3, <2>4 DEF MainStep
<1> QED
    BY <1>1, <1>2, <1>3, <1>4, <1>5 DEF Next

\* At any distance between asks, the slot holds at most the unused sender of
\* an ask that has not come back from its cleanup: show_picker's tail never
\* leaves its own sender behind, and no channel is used before it is taken.
THEOREM SlotCorrect == Spec => []SlotInv
<1>1. Init => SlotInv
    BY DEF Init, SlotInv, SlotHolderIsLive, SlotSenderUnsent, FreshUnsent
<1> QED
    BY <1>1, SlotStep, TypeCorrect, PTL DEF Spec

\* A channel that carried its message is never written again: picker_resolve
\* takes the sender out of the slot, so a second click, a late cancel or
\* another ask's teardown cannot replace the answer of an ask.
THEOREM AnswerIsFinal == Spec => AnsweredOnce
<1> DEFINE A == \A a \in Asks : sender[a] = "sent" =>
                    sender'[a] = "sent" /\ answer'[a] = answer[a]
<1>1. TypeOK /\ SlotInv /\ [Next]_vars => [A]_vars
    <2> SUFFICES ASSUME TypeOK, SlotInv, [Next]_vars,
                        NEW a \in Asks, sender[a] = "sent"
                 PROVE  sender'[a] = "sent" /\ answer'[a] = answer[a]
        OBVIOUS
    <2>1. a # pending
        BY PickerAssumption DEF SlotInv, SlotSenderUnsent
    <2>2. ASSUME NEW picked, Resolve(picked)
          PROVE  sender'[a] = "sent" /\ answer'[a] = answer[a]
        BY <2>1, <2>2 DEF Resolve, chanVars, TypeOK, Opt
    <2>3. CASE UNCHANGED chanVars
        BY <2>3 DEF chanVars
    <2>4. ASSUME NEW b \in Asks, ClearPending(b)
          PROVE  sender'[a] = "sent" /\ answer'[a] = answer[a]
        BY <2>1, <2>4 DEF ClearPending, TypeOK, Opt
    <2>5. CASE \E b \in Asks : PreviewCheck(b) \/ ThreadStep(b)
        BY <2>3, <2>4, <2>5
        DEF PreviewCheck, ThreadStep, Drop, Claim, CloseLeftover, Build,
            BuildFails, Receive, Timeout, CloseWindow, ClearSession, chanVars
    <2>6. CASE \E w \in Asks : UserStep(w) \/ MainStep(w)
        BY <2>2, <2>3, <2>6
        DEF UserStep, MainStep, Load, Click, UserCancels, UserCloses,
            ResolvePick, ResolveCancel, MainClose, MainDestroyed, chanVars
    <2>7. CASE UNCHANGED vars
        BY <2>3, <2>7 DEF vars, chanVars
    <2> QED
        BY <2>5, <2>6, <2>7 DEF Next
<1> QED
    BY <1>1, TypeCorrect, SlotCorrect, PTL DEF Spec, AnsweredOnce
-----------------------------------------------------------------------------
(* Asks that keep their distance.                                          *)

\* What the theorems below assume of the environment: an ask comes while
\* another holds the slot or when nothing is left of the last one, and a build
\* fails only over a window that is still there.
Spaced == BackToBack = FALSE /\ BuildMayFail = FALSE

InFlight(w) == closing[w] > 0 \/ picks[w] > 0 \/ cancels[w] > 0

\* One thread is inside show_picker, and what is left of windows, queued
\* closes and renderer messages meanwhile is its own.
OneRuns == \A a, b \in Asks : pc[a] \in Running /\ pc[b] \in Running => a = b
OwnTraffic ==
    \A a, w \in Asks : pc[a] \in Running /\ (label = w \/ InFlight(w)) => w = a
LabelIsWindow == \A w \in Asks : win[w] \in {"open", "dying"} <=> label = w
Unbuilt ==
    \A w \in Asks : win[w] = "none" =>
        ~InFlight(w) /\ view[w] = "loading"
NotYetBuilt ==
    \A a \in Asks : pc[a] \in {"idle", "checked", "claimed", "building"} => win[a] = "none"
NobodyFails == \A a \in Asks : pc[a] # "failed"
\* No close of its window is queued while an ask waits.
WaitsOpen == \A a \in Asks : pc[a] = "waiting" => closing[a] = 0

\* Slot and session belong to the thread that runs, and every pick, shown or
\* sent or returned, to the ask it is made for.
SessionIsOwn ==
    session # NoAsk =>
        pc[session] \in {"claimed", "building", "waiting", "closing", "clearSession"}
PicksAreOwn ==
    \A a \in Asks : {shown[a], answer[a], got[a]} \subseteq {a, NoAsk}

Solo ==
    /\ OneRuns /\ OwnTraffic /\ LabelIsWindow /\ Unbuilt /\ NotYetBuilt
    /\ NobodyFails /\ WaitsOpen
    /\ PendingMeansLiveAsk /\ SessionIsOwn /\ PicksAreOwn /\ ShowsOwnSession

\* No ask has begun and there is no window.
LEMMA SoloInit == Init => Solo
BY PickerAssumption
DEF Init, Solo, OneRuns, OwnTraffic, LabelIsWindow, Unbuilt, NotYetBuilt,
    NobodyFails, WaitsOpen, PendingMeansLiveAsk, SessionIsOwn, PicksAreOwn,
    ShowsOwnSession, InFlight, Running

\* Every step of the spaced asks keeps Solo.
LEMMA SoloStep ==
    ASSUME Spaced, TypeOK, Solo, [Next]_vars PROVE Solo'
<1> USE PickerAssumption DEF Running, Opt, InFlight, Solo,
        threadVars, slotVars, chanVars, windowVars, renderVars, flightVars
<1> DEFINE Threads == OneRuns' /\ NobodyFails' /\ WaitsOpen' /\ NotYetBuilt'
           Windows == OwnTraffic' /\ LabelIsWindow' /\ Unbuilt'
           Own == /\ PendingMeansLiveAsk' /\ SessionIsOwn'
                  /\ PicksAreOwn' /\ ShowsOwnSession'
<1> USE DEF OneRuns, OwnTraffic, LabelIsWindow, Unbuilt, NotYetBuilt,
    NobodyFails, WaitsOpen, PendingMeansLiveAsk, SessionIsOwn, PicksAreOwn,
    ShowsOwnSession, TypeOK
<1>1. CASE UNCHANGED vars
    BY <1>1 DEF vars
<1>2. ASSUME NEW a \in Asks, PreviewCheck(a) PROVE Solo'
    <2>1. Threads
        BY <1>2 DEF PreviewCheck, Goto
    <2>2. Windows
        BY <1>2 DEF PreviewCheck, Goto
    <2>3. Own
        BY <1>2 DEF PreviewCheck, Goto
    <2> QED
        BY <2>1, <2>2, <2>3
<1>3. ASSUME NEW a \in Asks, Drop(a) PROVE Solo'
    <2>1. Threads
        BY <1>3 DEF Drop, ClaimFrom
    <2>2. Windows
        BY <1>3 DEF Drop, ClaimFrom
    <2>3. Own
        BY <1>3 DEF Drop, ClaimFrom
    <2> QED
        BY <2>1, <2>2, <2>3
<1>4. ASSUME NEW a \in Asks, Claim(a) PROVE Solo'
    <2>1. Threads
        BY <1>4 DEF Claim, ClaimFrom, MayClaim, Quiet, Spaced
    <2>2. Windows
        BY <1>4 DEF Claim, ClaimFrom, MayClaim, Quiet, Spaced
    <2>3. Own
        BY <1>4 DEF Claim, ClaimFrom, MayClaim, Quiet, Spaced
    <2> QED
        BY <2>1, <2>2, <2>3
<1>5. ASSUME NEW a \in Asks, CloseLeftover(a) PROVE Solo'
    <2>1. Threads
        BY <1>5 DEF CloseLeftover, Goto, CloseByLabel
    <2>2. Windows
        BY <1>5 DEF CloseLeftover, Goto, CloseByLabel
    <2>3. Own
        BY <1>5 DEF CloseLeftover, Goto, CloseByLabel
    <2> QED
        BY <2>1, <2>2, <2>3
<1>6. ASSUME NEW a \in Asks, Build(a) PROVE Solo'
    <2>1. Threads
        BY <1>6 DEF Build, Goto
    <2>2. Windows
        BY <1>6 DEF Build, Goto
    <2>3. Own
        BY <1>6 DEF Build, Goto
    <2> QED
        BY <2>1, <2>2, <2>3
<1>7. ASSUME NEW a \in Asks, BuildFails(a) PROVE Solo'
    <2>1. Threads
        BY <1>7 DEF BuildFails, Goto, Spaced
    <2>2. Windows
        BY <1>7 DEF BuildFails, Goto, Spaced
    <2>3. Own
        BY <1>7 DEF BuildFails, Goto, Spaced
    <2> QED
        BY <2>1, <2>2, <2>3
<1>8. ASSUME NEW a \in Asks, Receive(a) PROVE Solo'
    <2>1. Threads
        BY <1>8 DEF Receive, Goto
    <2>2. Windows
        BY <1>8 DEF Receive, Goto
    <2>3. Own
        BY <1>8 DEF Receive, Goto
    <2> QED
        BY <2>1, <2>2, <2>3
<1>9. ASSUME NEW a \in Asks, Timeout(a) PROVE Solo'
    <2>1. Threads
        BY <1>9 DEF Timeout, Goto
    <2>2. Windows
        BY <1>9 DEF Timeout, Goto
    <2>3. Own
        BY <1>9 DEF Timeout, Goto
    <2> QED
        BY <2>1, <2>2, <2>3
<1>10. ASSUME NEW a \in Asks, CloseWindow(a) PROVE Solo'
    <2>1. Threads
        BY <1>10 DEF CloseWindow, Goto, CloseByLabel
    <2>2. Windows
        BY <1>10 DEF CloseWindow, Goto, CloseByLabel
    <2>3. Own
        BY <1>10 DEF CloseWindow, Goto, CloseByLabel
    <2> QED
        BY <2>1, <2>2, <2>3
<1>11. ASSUME NEW a \in Asks, ClearSession(a) PROVE Solo'
    <2>1. Threads
        BY <1>11 DEF ClearSession, Goto
    <2>2. Windows
        BY <1>11 DEF ClearSession, Goto
    <2>3. Own
        BY <1>11 DEF ClearSession, Goto
    <2> QED
        BY <2>1, <2>2, <2>3
<1>12. ASSUME NEW a \in Asks, ClearPending(a) PROVE Solo'
    <2>1. Threads
        BY <1>12 DEF ClearPending, Goto
    <2>2. Windows
        BY <1>12 DEF ClearPending, Goto
    <2>3. Own
        BY <1>12 DEF ClearPending, Goto
    <2> QED
        BY <2>1, <2>2, <2>3
<1>13. ASSUME NEW a \in Asks, Load(a) PROVE Solo'
    <2>1. Threads
        BY <1>13 DEF Load
    <2>2. Windows
        BY <1>13 DEF Load
    <2>3. Own
        BY <1>13 DEF Load
    <2> QED
        BY <2>1, <2>2, <2>3
<1>14. ASSUME NEW a \in Asks, Click(a) PROVE Solo'
    <2>1. Threads
        BY <1>14 DEF Click, Interactive
    <2>2. Windows
        BY <1>14 DEF Click, Interactive
    <2>3. Own
        BY <1>14 DEF Click, Interactive
    <2> QED
        BY <2>1, <2>2, <2>3
<1>15. ASSUME NEW a \in Asks, UserCancels(a) PROVE Solo'
    <2>1. Threads
        BY <1>15 DEF UserCancels, Interactive
    <2>2. Windows
        BY <1>15 DEF UserCancels, Interactive
    <2>3. Own
        BY <1>15 DEF UserCancels, Interactive
    <2> QED
        BY <2>1, <2>2, <2>3
<1>16. ASSUME NEW a \in Asks, UserCloses(a) PROVE Solo'
    <2>1. Threads
        BY <1>16 DEF UserCloses, Resolve
    <2>2. Windows
        BY <1>16 DEF UserCloses, Resolve
    <2>3. Own
        BY <1>16 DEF UserCloses, Resolve
    <2> QED
        BY <2>1, <2>2, <2>3
<1>17. ASSUME NEW a \in Asks, ResolvePick(a) PROVE Solo'
    <2>1. Threads
        BY <1>17 DEF ResolvePick, Resolve
    <2>2. Windows
        BY <1>17 DEF ResolvePick, Resolve
    <2>3. Own
        BY <1>17 DEF ResolvePick, Resolve
    <2> QED
        BY <2>1, <2>2, <2>3
<1>18. ASSUME NEW a \in Asks, ResolveCancel(a) PROVE Solo'
    <2>1. Threads
        BY <1>18 DEF ResolveCancel, Resolve
    <2>2. Windows
        BY <1>18 DEF ResolveCancel, Resolve
    <2>3. Own
        BY <1>18 DEF ResolveCancel, Resolve
    <2> QED
        BY <2>1, <2>2, <2>3
<1>19. ASSUME NEW a \in Asks, MainClose(a) PROVE Solo'
    <2>1. Threads
        BY <1>19 DEF MainClose, Resolve
    <2>2. Windows
        BY <1>19 DEF MainClose, Resolve
    <2>3. Own
        BY <1>19 DEF MainClose, Resolve
    <2> QED
        BY <2>1, <2>2, <2>3
<1>20. ASSUME NEW a \in Asks, MainDestroyed(a) PROVE Solo'
    <2>1. Threads
        BY <1>20 DEF MainDestroyed
    <2>2. Windows
        BY <1>20 DEF MainDestroyed
    <2>3. Own
        BY <1>20 DEF MainDestroyed
    <2> QED
        BY <2>1, <2>2, <2>3
<1> QED
    BY <1>1, <1>2, <1>3, <1>4, <1>5, <1>6, <1>7, <1>8, <1>9, <1>10, <1>11, <1>12, <1>13, <1>14, <1>15, <1>16, <1>17, <1>18, <1>19, <1>20
    DEF Next, ThreadStep, UserStep, MainStep

\* With asks that keep their distance, Solo always holds.
LEMMA SoloAlways == ASSUME Spaced PROVE Spec => []Solo
<1>1. TypeOK /\ Solo /\ [Next]_vars => Solo'
    BY SoloStep
<1> QED
    BY <1>1, SoloInit, TypeCorrect, PTL DEF Spec

\* show_picker, asks at a distance: the session is the caller's own from its
\* claim to its cleanup.  What it returns was picked for it, its page never
\* shows another ask's choices, and the sender in the slot has a thread.
THEOREM SessionIsTheCallers == ASSUME Spaced PROVE Spec => []OwnSession
<1>1. Solo => OwnSession
    BY PickerAssumption
    DEF Solo, PicksAreOwn, OwnSession, OwnPick
<1> QED
    BY <1>1, SoloAlways, PTL

\* No late close, cancel or cleanup of another ask takes the sender of an ask
\* that waits: its own page or its own window's user does, or nobody.
THEOREM WaitingIsUndisturbed == ASSUME Spaced PROVE Spec => NoPhantomCancel
<1> DEFINE Ended(a) == pc[a] = "waiting" /\ sender[a] = "unsent" /\ sender'[a] # "unsent"
           ByItsUser(a) == \/ picks'[a] < picks[a]
                           \/ cancels'[a] < cancels[a]
                           \/ win'[a] # win[a] /\ closing' = closing
<1>1. ASSUME TypeOK, Solo, [Next]_vars, NEW a \in Asks, Ended(a)
      PROVE  ByItsUser(a)
    <2> USE PickerAssumption DEF TypeOK, Opt
    <2>1. ASSUME NEW picked, NEW w \in Asks, Resolve(picked),
                 label = w \/ InFlight(w)
          PROVE  w = a
        <3>1. pending = a
            BY <1>1, <2>1 DEF Resolve, chanVars
        <3> QED
            BY <1>1, <2>1, <3>1 DEF Solo, OwnTraffic, Running
    <2>2. ~UNCHANGED chanVars
        BY <1>1 DEF chanVars
    <2>3. ASSUME NEW b \in Asks, PreviewCheck(b) \/ ThreadStep(b)
          PROVE  FALSE
        <3>1. ClearPending(b)
            BY <2>2, <2>3
            DEF PreviewCheck, ThreadStep, Drop, Claim, CloseLeftover, Build,
                BuildFails, Receive, Timeout, CloseWindow, ClearSession
        <3> QED
            BY <1>1, <3>1 DEF ClearPending, Goto, Solo, OneRuns, Running
    <2>4. ASSUME NEW w \in Asks, UserStep(w)
          PROVE  ByItsUser(a)
        <3>1. UserCloses(w)
            BY <2>2, <2>4 DEF UserStep, Load, Click, UserCancels
        <3>2. w = a
            BY <1>1, <2>1, <3>1 DEF UserCloses, Solo, LabelIsWindow
        <3> QED
            BY <1>1, <3>1, <3>2 DEF UserCloses
    <2>5. ASSUME NEW w \in Asks, MainStep(w)
          PROVE  ByItsUser(a)
        <3>1. CASE ResolvePick(w)
            <4>1. w = a
                BY <2>1, <3>1 DEF ResolvePick, InFlight
            <4> QED
                BY <1>1, <3>1, <4>1 DEF ResolvePick
        <3>2. CASE ResolveCancel(w)
            <4>1. w = a
                BY <2>1, <3>2 DEF ResolveCancel, InFlight
            <4> QED
                BY <1>1, <3>2, <4>1 DEF ResolveCancel
        <3>3. CASE MainClose(w)
            <4>1. w = a
                BY <2>1, <2>2, <3>3 DEF MainClose, InFlight, chanVars
            <4> QED
                BY <1>1, <3>3, <4>1 DEF MainClose, Solo, WaitsOpen
        <3> QED
            BY <2>2, <2>5, <3>1, <3>2, <3>3 DEF MainStep, MainDestroyed
    <2> QED
        BY <1>1, <2>2, <2>3, <2>4, <2>5 DEF Next, vars
<1>2. TypeOK /\ Solo /\ [Next]_vars =>
        [\A a \in Asks : Ended(a) => ByItsUser(a)]_vars
    BY <1>1
<1> QED
    BY <1>2, SoloAlways, TypeCorrect, PTL DEF Spec, NoPhantomCancel

-----------------------------------------------------------------------------
(* The contract.                                                           *)

\* What the contract sees of the asks.
Stages == [a \in Asks |-> StageOf(a)]
Picked == [a \in Asks |-> IF pc[a] = "done" THEN got[a] ELSE NoAsk]

\* A step that neither moves a thread from one stage to another nor touches the
\* pick of one that is done is no step of the contract.
LEMMA SameStages ==
    ASSUME TypeOK, UNCHANGED threadVars
    PROVE  UNCHANGED <<Stages, Picked>>
BY DEF threadVars, Stages, Picked, StageOf

\* A thread that goes on inside show_picker.
LEMMA StaysOpen ==
    ASSUME TypeOK, NEW a \in Asks, NEW to \in Running,
           pc[a] \in Running, pc' = [pc EXCEPT ![a] = to],
           \A b \in Asks \ {a} : got'[b] = got[b]
    PROVE  UNCHANGED <<Stages, Picked>>
<1>1. \A b \in Asks : StageOf(b)' = StageOf(b)
    BY DEF StageOf, TypeOK, Running
<1>2. \A b \in Asks : (IF pc'[b] = "done" THEN got'[b] ELSE NoAsk)
                        = IF pc[b] = "done" THEN got[b] ELSE NoAsk
    BY DEF TypeOK, Running
<1> QED
    BY <1>1, <1>2 DEF Stages, Picked

\* One thread moves from a stage to another: what the contract sees of it.
LEMMA OneMoves ==
    ASSUME TypeOK, NEW a \in Asks, NEW to, got' = got,
           pc' = [pc EXCEPT ![a] = to]
    PROVE  /\ Stages' = [Stages EXCEPT ![a] = StageOf(a)']
           /\ Picked' = [Picked EXCEPT ![a] = IF to = "done" THEN got[a] ELSE NoAsk]
<1>1. \A b \in Asks \ {a} : StageOf(b)' = StageOf(b)
    BY DEF StageOf, TypeOK
<1> QED
    BY <1>1 DEF Stages, Picked, TypeOK

\* The picker does for its callers what AskContract says: a step of it is a
\* step of the contract or none at all.
LEMMA StepKeepsContract ==
    ASSUME Spaced, TypeOK, Solo, [Next]_vars
    PROVE  [Contract!Next]_<<Stages, Picked>>
<1> USE DEF Contract!Next, Contract!Open, Contract!Drop, Contract!Finish,
            Contract!SomeOpen, Stages, Picked
<1>1. (pending # NoAsk) => \E b \in Asks : StageOf(b) = "open"
    BY DEF Solo, PendingMeansLiveAsk, TypeOK, Opt, StageOf, Running
<1>2. CASE UNCHANGED vars
    BY <1>2, SameStages DEF vars
<1>3. ASSUME NEW a \in Asks, PreviewCheck(a)
      PROVE  [Contract!Next]_<<Stages, Picked>>
    <2>1. CASE pending # NoAsk
        <3>1. pc[a] = "idle" /\ pc' = [pc EXCEPT ![a] = "refused"] /\ got' = got
            BY <1>3, <2>1 DEF PreviewCheck, Goto
        <3>2. StageOf(a) = "new" /\ StageOf(a)' = "dropped"
            BY <3>1 DEF StageOf, TypeOK, Running
        <3>3. /\ Stages' = [Stages EXCEPT ![a] = "dropped"]
              /\ Picked' = [Picked EXCEPT ![a] = NoAsk]
            <4>1. /\ Stages' = [Stages EXCEPT ![a] = StageOf(a)']
                  /\ Picked' = [Picked EXCEPT ![a] = IF "refused" = "done" THEN got[a] ELSE NoAsk]
                BY <3>1, OneMoves
            <4> QED
                BY <3>2, <4>1
        <3>4. Picked' = Picked
            BY <3>1, <3>3 DEF TypeOK
        <3> QED
            BY <1>1, <2>1, <3>2, <3>3, <3>4
    <2>2. CASE pending = NoAsk
        <3>1. pc[a] = "idle" /\ pc' = [pc EXCEPT ![a] = "checked"] /\ got' = got
            BY <1>3, <2>2 DEF PreviewCheck, Goto
        <3>2. \A b \in Asks : StageOf(b)' = StageOf(b) /\ (pc'[b] = "done" <=> pc[b] = "done")
            BY <3>1 DEF StageOf, TypeOK, Running
        <3> QED
            BY <3>1, <3>2
    <2> QED
        BY <2>1, <2>2
<1>4. ASSUME NEW a \in Asks, ThreadStep(a)
      PROVE  [Contract!Next]_<<Stages, Picked>>
    <2>1. CASE Drop(a)
        <3>1. /\ pc[a] \in {"idle", "checked"} /\ pc' = [pc EXCEPT ![a] = "dropped"] /\ got' = got
              /\ pending # NoAsk
            BY <2>1 DEF Drop, ClaimFrom
        <3>2. StageOf(a) = "new" /\ StageOf(a)' = "dropped"
            BY <3>1 DEF StageOf, TypeOK, Running
        <3>3. /\ Stages' = [Stages EXCEPT ![a] = "dropped"]
              /\ Picked' = [Picked EXCEPT ![a] = NoAsk]
            <4>1. /\ Stages' = [Stages EXCEPT ![a] = StageOf(a)']
                  /\ Picked' = [Picked EXCEPT ![a] = IF "dropped" = "done" THEN got[a] ELSE NoAsk]
                BY <3>1, OneMoves
            <4> QED
                BY <3>2, <4>1
        <3>4. Picked' = Picked
            BY <3>1, <3>3 DEF TypeOK
        <3> QED
            BY <1>1, <3>1, <3>2, <3>3, <3>4
    <2>2. CASE Claim(a)
        <3>1. \A b \in Asks : StageOf(b) # "open"
            BY <2>2 DEF Spaced, Claim, MayClaim, Quiet, StageOf
        <3> QED
            <4>1. pc[a] \in {"idle", "checked"} /\ pc' = [pc EXCEPT ![a] = "claimed"] /\ got' = got
                BY <2>2 DEF Claim, ClaimFrom
            <4>2. StageOf(a) = "new" /\ StageOf(a)' = "open"
                BY <4>1 DEF StageOf, TypeOK, Running
            <4>3. /\ Stages' = [Stages EXCEPT ![a] = "open"]
                  /\ Picked' = [Picked EXCEPT ![a] = NoAsk]
                <5>1. /\ Stages' = [Stages EXCEPT ![a] = StageOf(a)']
                      /\ Picked' = [Picked EXCEPT ![a] = IF "claimed" = "done" THEN got[a] ELSE NoAsk]
                    BY <4>1, OneMoves
                <5> QED
                    BY <4>2, <5>1
            <4>4. Picked' = Picked
                BY <4>1, <4>3 DEF TypeOK
            <4> QED
                BY <3>1, <4>2, <4>3, <4>4
    <2>3. CASE BuildFails(a)
        BY <2>3, PickerAssumption
        DEF BuildFails, Goto, Spaced, Solo, OwnTraffic, LabelIsWindow, NotYetBuilt, Running, TypeOK, Opt
    <2>4. CASE ClearPending(a)
        <3>1. got[a] \in {a, NoAsk}
            BY DEF Solo, PicksAreOwn
        <3>2. /\ pc[a] = "clearPending" /\ pc' = [pc EXCEPT ![a] = "done"] /\ got' = got
            BY <2>4 DEF ClearPending, Goto
        <3>3. StageOf(a) = "open" /\ StageOf(a)' = "done"
            BY <3>2 DEF StageOf, TypeOK, Running
        <3>4. /\ Stages' = [Stages EXCEPT ![a] = "done"]
              /\ Picked' = [Picked EXCEPT ![a] = got[a]]
            BY <3>2, <3>3, OneMoves
        <3> QED
            BY <3>1, <3>3, <3>4
    <2>5. CASE CloseLeftover(a) \/ Build(a) \/ Receive(a) \/ Timeout(a)
               \/ CloseWindow(a) \/ ClearSession(a)
        <3>1. \E to \in Running : pc' = [pc EXCEPT ![a] = to]
            BY <2>5 DEF CloseLeftover, Build, Receive, Timeout, CloseWindow, ClearSession,
                        Goto, Running
        <3>2. pc[a] \in Running /\ \A b \in Asks \ {a} : got'[b] = got[b]
            BY <2>5 DEF CloseLeftover, Build, Receive, Timeout, CloseWindow, ClearSession,
                        Goto, Running, TypeOK
        <3> QED
            BY <3>1, <3>2, StaysOpen
    <2> QED
        BY <1>4, <2>1, <2>2, <2>3, <2>4, <2>5 DEF ThreadStep
<1>5. ASSUME NEW w \in Asks, UserStep(w) \/ MainStep(w)
      PROVE  [Contract!Next]_<<Stages, Picked>>
    <2>1. UNCHANGED threadVars
        BY <1>5 DEF UserStep, MainStep, Load, Click, UserCancels, UserCloses,
                    ResolvePick, ResolveCancel, MainClose, MainDestroyed
    <2> QED
        BY <2>1, SameStages
<1> QED
    BY <1>2, <1>3, <1>4, <1>5 DEF Next

\* The slot protocol implements the safe part of AskContract, for asks at a
\* distance: one ask is open at a time, the others are dropped, and an open one
\* ends with its own pick or with nothing.
THEOREM ContractIsKept == ASSUME Spaced PROVE Spec => Contract!Safe
<1>1. Init => Contract!Init
    BY DEF Init, Contract!Init, StageOf
<1>2. TypeOK /\ Solo /\ [Next]_vars => [Contract!Next]_<<Stages, Picked>>
    BY StepKeepsContract
<1>3. TypeOK /\ Solo /\ [Next]_vars => [Contract!Next]_(Contract!cvars)
    BY <1>2 DEF Contract!cvars, Stages, Picked
<1> QED
    BY <1>1, <1>3, SoloAlways, TypeCorrect, PTL DEF Spec, Contract!Safe
=============================================================================
