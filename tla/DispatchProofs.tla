--------------------------- MODULE DispatchProofs ---------------------------
(***************************************************************************)
(* Theorems about Dispatch, for any documents, browsers, URLs and number   *)
(* of changes.                                                             *)
(***************************************************************************)
EXTENDS Dispatch, TLAPS, WellFoundedInduction, SequenceTheorems

\* A set of positions that is not empty has a first one, and it is in the set.
LEMMA FirstIsMember ==
    ASSUME NEW S \in SUBSET Nat, S # {}
    PROVE  First(S) \in S
<1> DEFINE R == OpToRel(<, Nat)
<1>1. PICK x \in S : \A y \in S : ~(<<y, x>> \in R)
    <2> HIDE DEF R
    <2>1. IsWellFoundedOn(R, Nat)
        BY NatLessThanWellFounded DEF R
    <2> QED
        BY <2>1, WFMin
<1>2. R = {ss \in Nat \X Nat : ss[1] < ss[2]}
    BY DEF OpToRel
<1>3. \A y \in S : x <= y
    <2> SUFFICES ASSUME NEW y \in S PROVE x <= y
        OBVIOUS
    <2> HIDE DEF R
    <2>1. x \in Nat /\ y \in Nat /\ <<y, x>> \notin R
        BY <1>1
    <2> QED
        BY <1>2, <2>1
<1> QED
    BY <1>3 DEF First

\* What a document decides is an action.
LEMMA EvaluateType ==
    ASSUME NEW d, IsDoc(d), NEW c, NEW shortcut
    PROVE  Evaluate(d, c, shortcut) \in Actions
<1> DEFINE hits  == {i \in 1..Len(d.rules) : Matches(d, d.rules[i], c)}
           taken == {i \in hits : ~(shortcut /\ d.rules[i].then.kind = "ask")}
<1>1. Len(d.rules) \in Nat /\ \A i \in 1..Len(d.rules) : d.rules[i].then \in Actions
    <2>1. d.rules \in Seq(Rules)
        BY DEF IsDoc
    <2>2. \A r \in Rules : r.then \in Actions
        BY DEF Rules
    <2> QED
        BY <2>1, <2>2
<1>2. DefaultDecision(d) \in Actions
    BY DEF IsDoc, DefaultDecision, Open, Ask, Actions, Targets
<1>3. \A S \in SUBSET (1..Len(d.rules)) : S # {} => First(S) \in 1..Len(d.rules)
    <2> SUFFICES ASSUME NEW S \in SUBSET (1..Len(d.rules)), S # {}
                 PROVE  First(S) \in S
        OBVIOUS
    <2>1. S \in SUBSET Nat
        BY <1>1
    <2> QED
        BY <2>1, FirstIsMember
<1>4. hits \in SUBSET (1..Len(d.rules)) /\ taken \in SUBSET (1..Len(d.rules))
    OBVIOUS
<1>5. Evaluate(d, c, shortcut) =
        IF ~d.smart \/ hits = {} THEN DefaultDecision(d)
        ELSE IF taken = {} THEN d.rules[First(hits)].then
        ELSE d.rules[First(taken)].then
    BY DEF Evaluate
<1> HIDE DEF hits, taken
<1> QED
    BY <1>1, <1>2, <1>3, <1>4, <1>5

-----------------------------------------------------------------------------
(* Types.  A launch takes the head of left, so that left is not empty then *)
(* belongs to the induction.                                               *)

LeftInv == \A o \in Contexts : pc[o] = "launching" => left[o] # <<>>

\* The initial states are well typed.
LEMMA TypeInit == Init => TypeOK /\ LeftInv
<1> SUFFICES ASSUME Init PROVE TypeOK /\ LeftInv
    OBVIOUS
<1>1. Ask \in Actions
    BY DEF Ask, Actions, Targets
<1> QED
    BY <1>1, DispatchAssumption
    DEF Init, TypeOK, LeftInv, Targets, Final, Picker!Init

\* Typing is kept by a decision, which stores an action.
LEMMA DecideTypes ==
    ASSUME TypeOK, LeftInv, NEW o \in Contexts, Decide(o)
    PROVE  TypeOK' /\ LeftInv'
<1>1. IsDoc(doc)
    BY DispatchAssumption DEF TypeOK
<1>2. \A shortcut \in BOOLEAN : Evaluate(doc, o, shortcut) \in Actions
    BY <1>1, EvaluateType
<1> QED
    BY <1>2 DEF Decide, Goto, TypeOK, LeftInv, envVars, tryVars, askVars

\* Typing is kept by a plan, which leaves something to try if it launches.
LEMMA PlanTypes ==
    ASSUME TypeOK, LeftInv, NEW o \in Contexts, Plan(o)
    PROVE  TypeOK' /\ LeftInv'
<1>1. decision[o].target \in Targets /\ default[o] \in Targets
    BY DEF TypeOK, Actions
<1>2. \A p, f \in Targets : /\ WithFallback(p, f) \in Seq(Targets) \ {<<>>}
                            /\ <<p>> \in Seq(Targets) \ {<<>>}
    BY DEF WithFallback
<1>3. PICK inv \in SUBSET Inventory : seen' = [seen EXCEPT ![o] = inv]
    BY DEF Plan, TypeOK
<1>4. UNCHANGED <<envVars, decision, default, tried, askVars>>
    BY DEF Plan, Try, tryVars
<1>5. CASE /\ Goto(o, "planning", "asking")
           /\ UNCHANGED tryVars
    BY <1>3, <1>4, <1>5 DEF Goto, TypeOK, LeftInv, envVars, tryVars, askVars
<1>6. CASE \E bs \in Seq(Targets) \ {<<>>}, f \in {"failed", "asking"} :
                Goto(o, "planning", "launching") /\ Try(o, bs, f)
    BY <1>3, <1>4, <1>6 DEF Goto, Try, TypeOK, LeftInv, envVars, askVars
<1> QED
    BY <1>1, <1>2, <1>5, <1>6 DEF Plan

\* Typing is kept by a launch: a failure goes on only with what is left.
LEMMA LaunchTypes ==
    ASSUME TypeOK, LeftInv, NEW o \in Contexts,
           LaunchSucceeds(o) \/ LaunchFails(o)
    PROVE  TypeOK' /\ LeftInv'
<1>1. left[o] \in Seq(Targets) /\ left[o] # <<>>
    BY DEF TypeOK, LeftInv, LaunchSucceeds, LaunchFails, Goto
<1>2. /\ Head(left[o]) \in Targets
      /\ Tail(left[o]) \in Seq(Targets)
      /\ Len(left[o]) # 1 => Tail(left[o]) # <<>>
      /\ <<>> \in Seq(Targets)
    <2>1. /\ Head(left[o]) \in Targets
          /\ Tail(left[o]) \in Seq(Targets)
          /\ Len(Tail(left[o])) = Len(left[o]) - 1
        BY <1>1, HeadTailProperties
    <2>2. Len(left[o]) \in Nat
        BY <1>1
    <2>3. <<>> \in Seq(Targets) /\ Len(<<>>) = 0
        BY EmptySeq
    <2>4. Len(left[o]) # 1 => Len(Tail(left[o])) # 0
        BY <2>1, <2>2
    <2> QED
        BY <2>1, <2>3, <2>4
<1>3. \A ok \in BOOLEAN :
        [browser |-> Head(left[o]), ok |-> ok, asked |-> stage[o] # "new"]
            \in Attempts
    BY <1>2 DEF Attempts
<1>4. \A a \in Attempts : Append(tried[o], a) \in Seq(Attempts)
    BY DEF TypeOK
<1>5. CASE LaunchSucceeds(o)
    BY <1>2, <1>3, <1>4, <1>5
    DEF LaunchSucceeds, Goto, TypeOK, LeftInv, Final, envVars, planVars, askVars
<1>6. CASE LaunchFails(o)
    BY <1>2, <1>3, <1>4, <1>6
    DEF LaunchFails, Goto, TypeOK, LeftInv, Final, envVars, planVars, askVars
<1> QED
    BY <1>5, <1>6

\* Typing is kept by a pick, which launches from what was offered.
LEMMA PickTypes ==
    ASSUME TypeOK, LeftInv, NEW o \in Contexts, UserPicks(o)
    PROVE  TypeOK' /\ LeftInv'
<1>1. default[o] \in Targets /\ offered[o] \subseteq Targets
    BY DEF TypeOK, Targets
<1>2. \A p, f \in Targets : WithFallback(p, f) \in Seq(Targets) \ {<<>>}
    BY DEF WithFallback
<1>3. PICK bs \in Seq(Targets) \ {<<>>} : Try(o, bs, "lost")
    BY <1>1, <1>2 DEF UserPicks
<1> QED
    BY <1>3
    DEF UserPicks, Picker!Finish, Try, Goto, TypeOK, LeftInv, envVars, planVars

\* Typing is kept by every step.
LEMMA TypeStep == TypeOK /\ LeftInv /\ [Next]_vars => TypeOK' /\ LeftInv'
<1> SUFFICES ASSUME TypeOK, LeftInv, [Next]_vars PROVE TypeOK' /\ LeftInv'
    OBVIOUS
<1> USE DEF envVars, planVars, tryVars, askVars
<1>1. CASE UNCHANGED vars
    BY <1>1 DEF vars, TypeOK, LeftInv
<1>2. CASE Change
    BY <1>2, DispatchAssumption DEF Change, TypeOK, LeftInv
<1>3. ASSUME NEW o \in Contexts, ThreadStep(o) PROVE TypeOK' /\ LeftInv'
    <2>1. CASE Execute(o)
        BY <2>1, DispatchAssumption
        DEF Execute, Goto, TypeOK, LeftInv, Final, IsDoc
    <2>2. CASE Offer(o)
        BY <2>2 DEF Offer, Choices, Goto, TypeOK, LeftInv, Inventory
    <2>3. CASE OfferNothing(o)
        BY <2>3 DEF OfferNothing, Goto, TypeOK, LeftInv, Final
    <2>4. CASE PickerOpens(o)
        BY <2>4 DEF PickerOpens, Picker!Open, Goto, TypeOK, LeftInv
    <2>5. CASE PickerBusy(o)
        BY <2>5 DEF PickerBusy, Picker!Drop, Goto, TypeOK, LeftInv, Final
    <2>6. CASE NoPick(o)
        BY <2>6 DEF NoPick, Picker!Finish, Goto, TypeOK, LeftInv, Final
    <2> QED
        BY <1>3, <2>1, <2>2, <2>3, <2>4, <2>5, <2>6, PlanTypes, LaunchTypes
        DEF ThreadStep
<1> QED
    BY <1>1, <1>2, <1>3, DecideTypes, PickTypes DEF Next

\* The dispatcher's variables keep their types.
THEOREM DispatchTypeCorrect == Spec => []TypeOK
<1>1. Spec => [](TypeOK /\ LeftInv)
    BY TypeInit, TypeStep, PTL DEF Spec
<1> QED
    BY <1>1, PTL

-----------------------------------------------------------------------------
(* A step belongs to one URL.                                              *)

OpenStep(o) == Decide(o) \/ ThreadStep(o) \/ UserPicks(o)

Same(o) ==
    /\ pc'[o] = pc[o] /\ stage'[o] = stage[o]
    /\ decision'[o] = decision[o] /\ default'[o] = default[o]
    /\ seen'[o] = seen[o] /\ offered'[o] = offered[o]
    /\ left'[o] = left[o] /\ onFail'[o] = onFail[o] /\ tried'[o] = tried[o]

\* A step of one URL leaves the others as they are.
LEMMA OthersRest ==
    ASSUME TypeOK, NEW o \in Contexts, OpenStep(o),
           NEW p \in Contexts, p # o
    PROVE  Same(p)
<1> USE DEF Same, Goto, TypeOK, envVars, planVars, tryVars, askVars
<1>1. CASE Decide(o)
    BY <1>1 DEF Decide
<1>2. CASE Execute(o)
    BY <1>2 DEF Execute
<1>3. CASE Plan(o)
    <2>1. pc'[p] = pc[p] /\ seen'[p] = seen[p]
        BY <1>3 DEF Plan
    <2>2. left'[p] = left[p] /\ onFail'[p] = onFail[p] /\ tried'[p] = tried[p]
        BY <1>3 DEF Plan, Try
    <2> QED
        BY <1>3, <2>1, <2>2 DEF Plan
<1>4. CASE LaunchSucceeds(o)
    BY <1>4 DEF LaunchSucceeds
<1>5. CASE LaunchFails(o)
    BY <1>5 DEF LaunchFails
<1>6. CASE Offer(o)
    BY <1>6 DEF Offer
<1>7. CASE OfferNothing(o)
    BY <1>7 DEF OfferNothing
<1>8. CASE PickerOpens(o)
    BY <1>8 DEF PickerOpens, Picker!Open
<1>9. CASE PickerBusy(o)
    BY <1>9 DEF PickerBusy, Picker!Drop
<1>10. CASE NoPick(o)
    BY <1>10 DEF NoPick, Picker!Finish
<1>11. CASE UserPicks(o)
    BY <1>11 DEF UserPicks, Picker!Finish, Try
<1> QED
    BY <1>1, <1>2, <1>3, <1>4, <1>5, <1>6, <1>7, <1>8, <1>9, <1>10, <1>11
    DEF OpenStep, ThreadStep

\* A launch moves the head of left to the end of tried.
LEMMA LaunchMoves ==
    ASSUME TypeOK, LeftInv, NEW o \in Contexts, NEW ok \in BOOLEAN,
           IF ok THEN LaunchSucceeds(o) ELSE LaunchFails(o)
    PROVE  /\ Len(left[o]) \in Nat \ {0}
           /\ Len(tried[o]) \in Nat /\ Len(tried'[o]) = Len(tried[o]) + 1
           /\ \A i \in 1..Len(tried[o]) : tried'[o][i] = tried[o][i]
           /\ LET last == tried'[o][Len(tried[o]) + 1]
              IN  /\ last.browser = left[o][1]
                  /\ last.ok <=> ok
                  /\ last.asked <=> stage[o] # "new"
           /\ ~ok =>
                /\ Len(left'[o]) = Len(left[o]) - 1
                /\ \A i \in 1..Len(left'[o]) : left'[o][i] = left[o][i + 1]
<1> DEFINE attempt ==
        [browser |-> left[o][1], ok |-> ok, asked |-> stage[o] # "new"]
<1>1. left[o] \in Seq(Targets) /\ left[o] # <<>> /\ tried[o] \in Seq(Attempts)
    BY DEF TypeOK, LeftInv, LaunchSucceeds, LaunchFails, Goto
<1>2. /\ Len(left[o]) \in Nat \ {0}
      /\ Head(left[o]) = left[o][1]
      /\ Len(Tail(left[o])) = Len(left[o]) - 1
      /\ \A i \in 1..Len(Tail(left[o])) : Tail(left[o])[i] = left[o][i + 1]
    BY <1>1, EmptySeq, HeadTailProperties
<1>3. tried'[o] = Append(tried[o], attempt)
    <2>1. CASE ok = TRUE
        BY <1>2, <2>1 DEF LaunchSucceeds, TypeOK
    <2>2. CASE ok = FALSE
        <3>1. LaunchFails(o)
            BY <2>2
        <3>2. tried' = [tried EXCEPT ![o] = Append(tried[o],
                    [browser |-> Head(left[o]), ok |-> FALSE,
                     asked |-> stage[o] # "new"])]
            BY <3>1 DEF LaunchFails
        <3> QED
            BY <1>2, <2>2, <3>2 DEF TypeOK
    <2> QED
        BY <2>1, <2>2
<1>4. ~ok => left'[o] = Tail(left[o])
    BY DEF LaunchFails, TypeOK
<1> HIDE DEF attempt
<1>5. /\ Len(tried[o]) \in Nat /\ Len(tried'[o]) = Len(tried[o]) + 1
      /\ \A i \in 1..Len(tried[o]) : tried'[o][i] = tried[o][i]
      /\ tried'[o][Len(tried[o]) + 1] = attempt
    BY <1>1, <1>3
<1>6. /\ attempt.browser = left[o][1]
      /\ attempt.ok <=> ok
      /\ attempt.asked <=> stage[o] # "new"
    BY Zenon DEF attempt
<1> QED
    BY <1>2, <1>4, <1>5, <1>6

-----------------------------------------------------------------------------
(* One launch at most.  A success ends the dispatch, so until then every   *)
(* attempt failed; a URL that is blocked never leaves the first states.    *)

Untouched(o) ==
    pc[o] \in {"idle", "decided", "skipped"} =>
        tried[o] = <<>> /\ stage[o] = "new"
Closed(o) ==
    decision[o].kind \in {"block", "keep-source"} =>
        pc[o] \in {"idle", "decided", "skipped"}
Unopened(o) ==
    pc[o] # "launched" => \A i \in 1..Len(tried[o]) : ~tried[o][i].ok
Once(o) == \A i \in 1..(Len(tried[o]) - 1) : ~tried[o][i].ok

OnceInv(o) == Untouched(o) /\ Closed(o) /\ Unopened(o) /\ Once(o)

\* No URL has been touched initially.
LEMMA OnceInit == Init => \A o \in Contexts : OnceInv(o)
BY DEF Init, Picker!Init, OnceInv, Untouched, Closed, Unopened, Once, Ask

\* A step keeps OnceInv for its own URL.
LEMMA OnceOwn ==
    ASSUME TypeOK, LeftInv, NEW o \in Contexts, OnceInv(o), OpenStep(o)
    PROVE  OnceInv(o)'
<1> USE DEF OnceInv, Untouched, Closed, Unopened, Once
<1>1. CASE Decide(o)
    BY <1>1 DEF Decide, Goto, TypeOK, tryVars, askVars
<1>2. CASE Execute(o)
    <2>1. /\ pc[o] = "decided"
          /\ decision[o].kind \in {"block", "keep-source"} => pc'[o] = "skipped"
          /\ pc'[o] # "launched"
        BY <1>2, Zenon DEF Execute, Goto, TypeOK
    <2>2. UNCHANGED <<decision, tried, stage>>
        BY <1>2 DEF Execute, tryVars, askVars
    <2> QED
        BY <2>1, <2>2
<1>3. ASSUME NEW ok \in BOOLEAN,
             IF ok THEN LaunchSucceeds(o) ELSE LaunchFails(o)
      PROVE  OnceInv(o)'
    <2>1. /\ pc[o] = "launching"
          /\ ok => pc'[o] = "launched"
          /\ pc'[o] \notin {"idle", "decided", "skipped"}
          /\ UNCHANGED decision
        BY <1>3
        DEF LaunchSucceeds, LaunchFails, Goto, TypeOK, Final, planVars
    <2>2. \A i \in 1..Len(tried[o]) : ~tried'[o][i].ok
        BY <1>3, <2>1, LaunchMoves
    <2>3. Len(tried[o]) \in Nat /\ Len(tried'[o]) = Len(tried[o]) + 1
        BY <1>3, LaunchMoves
    <2>4. tried'[o][Len(tried[o]) + 1].ok <=> ok
        BY <1>3, LaunchMoves
    <2> QED
        BY <2>1, <2>2, <2>3, <2>4
<1>4. CASE \/ Plan(o) \/ Offer(o) \/ OfferNothing(o) \/ PickerOpens(o)
           \/ PickerBusy(o) \/ NoPick(o) \/ UserPicks(o)
    <2>1. /\ pc[o] \in {"planning", "asking", "picker", "shown"}
          /\ pc'[o] \in {"launching", "asking", "picker", "shown", "dismissed"}
          /\ UNCHANGED <<decision, tried>>
        BY <1>4
        DEF Plan, Offer, OfferNothing, PickerOpens, PickerBusy, NoPick,
            UserPicks, Try, Goto, TypeOK, planVars, tryVars
    <2> QED
        BY <2>1
<1> QED
    BY <1>1, <1>2, <1>3, <1>4 DEF OpenStep, ThreadStep

\* Every step keeps OnceInv for every URL.
LEMMA OnceStep ==
    ASSUME TypeOK, LeftInv, \A o \in Contexts : OnceInv(o), [Next]_vars
    PROVE  \A o \in Contexts : OnceInv(o)'
<1> SUFFICES ASSUME NEW p \in Contexts PROVE OnceInv(p)'
    OBVIOUS
<1>1. CASE Same(p)
    BY <1>1 DEF Same, OnceInv, Untouched, Closed, Unopened, Once
<1>2. CASE UNCHANGED vars \/ Change
    <2>1. Same(p)
        BY <1>2 DEF Change, vars, Same, planVars, tryVars, askVars
    <2> QED
        BY <1>1, <2>1
<1>3. ASSUME NEW o \in Contexts, OpenStep(o) PROVE OnceInv(p)'
    BY <1>1, <1>3, OthersRest, OnceOwn
<1> QED
    BY <1>2, <1>3 DEF Next, OpenStep

\* OnceInv holds throughout.
LEMMA OnceHolds == Spec => [](TypeOK /\ LeftInv /\ \A o \in Contexts : OnceInv(o))
<1>1. TypeOK /\ LeftInv /\ (\A o \in Contexts : OnceInv(o)) /\ [Next]_vars
        => (\A o \in Contexts : OnceInv(o))'
    BY OnceStep
<1> QED
    BY <1>1, OnceInit, TypeInit, TypeStep, PTL DEF Spec

\* However the configuration and the browsers change meanwhile, and whatever
\* fallback and picker do, no URL is opened a second time.
THEOREM OpensAtMostOnce == Spec => []OpensOnce
<1>1. (\A o \in Contexts : OnceInv(o)) => OpensOnce
    BY DEF OnceInv, Once, OpensOnce
<1> QED
    BY <1>1, OnceHolds, PTL

\* A URL once decided to be blocked or left to its source is neither launched
\* nor asked about.
THEOREM BlockedIsNeverOpened == Spec => []BlockedStaysClosed
<1>1. (\A o \in Contexts : OnceInv(o)) => BlockedStaysClosed
    BY DEF OnceInv, Untouched, Closed, BlockedStaysClosed
<1> QED
    BY <1>1, OnceHolds, PTL

-----------------------------------------------------------------------------
(* What is tried, and in which order.  Before the picker shows, the        *)
(* attempts and the browsers still to try come from the plan, afterwards   *)
(* from the pick.                                                          *)

Tried(o, b) == \E i \in 1..Len(tried[o]) : tried[o][i].browser = b
ToTry(o, b) == \E i \in 1..Len(left[o]) : left[o][i] = b

\* How far an open is and what its ask is at.
PhaseInv(o) ==
    /\ pc[o] \in {"idle", "decided", "planning"} => tried[o] = <<>>
    /\ pc[o] \in {"idle", "decided", "planning", "asking", "picker"}
        => stage[o] = "new"
    /\ stage[o] = "new" \/ pc[o] = "shown"
        => \A i \in 1..Len(tried[o]) : ~tried[o][i].asked
    /\ pc[o] = "launching" /\ stage[o] # "new" => onFail[o] = "lost"
    /\ stage[o] = "open" => pc[o] = "shown"
    /\ pc[o] \in {"picker", "shown"} => offered[o] # {}

Sources(o, asked) ==
    {default[o]} \cup IF asked THEN offered[o] ELSE {decision[o].target}

ExplainedInv(o) ==
    /\ \A i \in 1..Len(tried[o]) :
            tried[o][i].browser \in Sources(o, tried[o][i].asked)
    /\ pc[o] = "launching" =>
            \A i \in 1..Len(left[o]) :
                left[o][i] \in Sources(o, stage[o] # "new")

\* No browser twice: among the attempts of a round, and, at a launch, among
\* the browsers left and between them and the attempts of its round.
Distinct(t, l, at, ask) ==
    /\ \A i, j \in 1..Len(t) :
            i # j /\ t[i].asked = t[j].asked => t[i].browser # t[j].browser
    /\ at = "launching" =>
            /\ \A i, j \in 1..Len(l) : i # j => l[i] # l[j]
            /\ \A i \in 1..Len(t), j \in 1..Len(l) :
                    (t[i].asked <=> ask # "new") => t[i].browser # l[j]
DistinctInv(o) == Distinct(tried[o], left[o], pc[o], stage[o])

Planned(o) == {decision[o].target, default[o]} \cap seen[o]
LastInv(o) ==
    decision[o].kind = "open" =>
        /\ pc[o] \in {"asking", "picker", "shown", "failed"} =>
                \A b \in Planned(o) : Tried(o, b)
        /\ pc[o] = "launching" /\ stage[o] = "new" =>
                \A b \in Planned(o) : Tried(o, b) \/ ToTry(o, b)

TryInv(o) == PhaseInv(o) /\ ExplainedInv(o) /\ DistinctInv(o) /\ LastInv(o)

\* Initially nothing was tried.
LEMMA TryInit == Init => \A o \in Contexts : TryInv(o)
BY DEF Init, Picker!Init, TryInv, PhaseInv, ExplainedInv, DistinctInv,
    Distinct, LastInv

\* What no step of the ask changes.
Keeps(o) ==
    /\ decision'[o] = decision[o] /\ default'[o] = default[o]
    /\ seen'[o] = seen[o] /\ tried'[o] = tried[o]

\* An ask goes from asking to picker to shown, or is dismissed.
LEMMA AskEffect ==
    ASSUME TypeOK, NEW o \in Contexts,
           \/ Offer(o) \/ OfferNothing(o) \/ PickerOpens(o) \/ PickerBusy(o)
           \/ NoPick(o)
    PROVE  /\ Keeps(o)
           /\ \/ /\ pc[o] = "asking" /\ pc'[o] = "picker"
                 /\ offered'[o] # {} /\ stage'[o] = stage[o]
              \/ /\ pc[o] = "picker" /\ pc'[o] = "shown"
                 /\ offered'[o] = offered[o] /\ stage'[o] = "open"
              \/ /\ pc'[o] = "dismissed"
                 /\ offered'[o] = offered[o]
                 /\ stage'[o] \in {stage[o], "dropped", "done"}
                 /\ pc[o] = "shown" => stage'[o] = "done"
<1> USE DEF Keeps, Goto, TypeOK, planVars, tryVars, askVars
<1>1. CASE Offer(o)
    BY <1>1 DEF Offer, Choices
<1>2. CASE OfferNothing(o)
    BY <1>2 DEF OfferNothing
<1>3. CASE PickerOpens(o)
    BY <1>3 DEF PickerOpens, Picker!Open
<1>4. CASE PickerBusy(o)
    BY <1>4 DEF PickerBusy, Picker!Drop
<1>5. CASE NoPick(o)
    BY <1>5 DEF NoPick, Picker!Finish
<1> QED
    BY <1>1, <1>2, <1>3, <1>4, <1>5

\* execute sends an action that opens, and no other, to the planner.
LEMMA ExecuteEffect ==
    ASSUME TypeOK, NEW o \in Contexts, Execute(o)
    PROVE  /\ pc[o] = "decided"
           /\ pc'[o] \in {"planning", "asking", "skipped"}
           /\ decision[o].kind = "open" => pc'[o] = "planning"
           /\ UNCHANGED <<decision, seen, left, onFail, tried, offered, stage>>
<1>1. pc[o] = "decided" /\ UNCHANGED <<decision, seen, tryVars, askVars>>
    BY DEF Execute, Goto
<1>2. pc'[o] = CASE decision[o].kind = "open" -> "planning"
                 [] decision[o].kind = "ask"  -> "asking"
                 [] OTHER                     -> "skipped"
    BY Zenon DEF Execute, Goto, TypeOK
<1>3. /\ pc'[o] \in {"planning", "asking", "skipped"}
      /\ decision[o].kind = "open" => pc'[o] = "planning"
    BY <1>2, Zenon
<1> QED
    BY <1>1, <1>3 DEF tryVars, askVars

\* The plan lists distinct browsers, its rule's target and the default, and
\* every one of the two that it saw.
LEMMA PlanEffect ==
    ASSUME TypeOK, NEW o \in Contexts, Plan(o)
    PROVE  /\ pc[o] = "planning"
           /\ UNCHANGED <<decision, default, tried, offered, stage>>
           /\ \/ pc'[o] = "asking" /\ Planned(o)' = {}
              \/ /\ pc'[o] = "launching"
                 /\ \A i \in 1..Len(left'[o]) :
                        left'[o][i] \in {decision[o].target, default[o]}
                 /\ \A i, j \in 1..Len(left'[o]) :
                        i # j => left'[o][i] # left'[o][j]
                 /\ \A b \in Planned(o)' : ToTry(o, b)'
<1>1. pc[o] = "planning" /\ UNCHANGED <<decision, default, tried, offered, stage>>
    BY DEF Plan, Try, Goto, tryVars, askVars
<1>2. PICK inv \in SUBSET Inventory :
        /\ seen'[o] = inv
        /\ \/ pc'[o] = "asking" /\ {decision[o].target, default[o]} \cap inv = {}
           \/ /\ pc'[o] = "launching"
              /\ default[o] \in inv \cup {decision[o].target}
              /\ left'[o] = WithFallback(decision[o].target, default[o])
           \/ /\ pc'[o] = "launching"
              /\ default[o] \notin inv
              /\ left'[o] = <<decision[o].target>>
           \/ /\ pc'[o] = "launching"
              /\ decision[o].target \notin inv
              /\ left'[o] = <<default[o]>>
    BY DEF Plan, Try, Goto, TypeOK
<1>3. Planned(o)' = {decision[o].target, default[o]} \cap inv
    BY <1>1, <1>2 DEF Planned
<1> QED
    BY <1>1, <1>2, <1>3 DEF WithFallback, ToTry

\* A pick leaves distinct browsers to try, the picked one and the default.
LEMMA PickEffect ==
    ASSUME TypeOK, NEW o \in Contexts, UserPicks(o)
    PROVE  /\ Keeps(o) /\ offered'[o] = offered[o]
           /\ pc[o] = "shown" /\ pc'[o] = "launching"
           /\ stage'[o] = "done" /\ onFail'[o] = "lost"
           /\ \A i \in 1..Len(left'[o]) :
                left'[o][i] \in {default[o]} \cup offered[o]
           /\ \A i, j \in 1..Len(left'[o]) : i # j => left'[o][i] # left'[o][j]
<1>1. /\ Keeps(o) /\ offered'[o] = offered[o]
      /\ pc[o] = "shown" /\ pc'[o] = "launching"
      /\ stage'[o] = "done" /\ onFail'[o] = "lost"
    BY DEF UserPicks, Picker!Finish, Try, Goto, Keeps, TypeOK, planVars
<1>2. PICK b \in offered[o] : left'[o] = WithFallback(b, default[o])
    BY DEF UserPicks, Try, TypeOK
<1> QED
    BY <1>1, <1>2 DEF WithFallback

\* A success ends the dispatch; a failure ends it with the last browser.
LEMMA LaunchEffect ==
    ASSUME TypeOK, NEW o \in Contexts, NEW ok \in BOOLEAN,
           IF ok THEN LaunchSucceeds(o) ELSE LaunchFails(o)
    PROVE  /\ pc[o] = "launching"
           /\ UNCHANGED <<decision, default, seen, offered, stage, onFail>>
           /\ ok => pc'[o] = "launched"
           /\ ~ok => pc'[o] = IF Len(left[o]) = 1 THEN onFail[o] ELSE "launching"
           /\ onFail[o] \in {"failed", "asking", "lost"}
BY DEF LaunchSucceeds, LaunchFails, Goto, TypeOK, planVars, askVars

\* A decision keeps TryInv: nothing was tried yet.
LEMMA DecideOwn ==
    ASSUME TypeOK, NEW o \in Contexts, TryInv(o), Decide(o)
    PROVE  TryInv(o)'
<1>1. /\ pc[o] = "idle" /\ pc'[o] = "decided"
      /\ UNCHANGED <<default, seen, left, onFail, tried, offered, stage>>
    BY DEF Decide, Goto, TypeOK, tryVars, askVars
<1> QED
    BY <1>1
    DEF TryInv, PhaseInv, ExplainedInv, DistinctInv, Distinct, LastInv, Sources

\* execute keeps TryInv: nothing was tried before it read the default.
LEMMA ExecuteOwn ==
    ASSUME TypeOK, NEW o \in Contexts, TryInv(o), Execute(o)
    PROVE  TryInv(o)'
BY ExecuteEffect
DEF TryInv, PhaseInv, ExplainedInv, DistinctInv, Distinct, LastInv, Sources

\* The plan keeps TryInv.
LEMMA PlanOwn ==
    ASSUME TypeOK, NEW o \in Contexts, TryInv(o), Plan(o)
    PROVE  TryInv(o)'
<1>1. PhaseInv(o)'
    BY PlanEffect DEF TryInv, PhaseInv
<1>2. ExplainedInv(o)'
    BY PlanEffect DEF TryInv, PhaseInv, ExplainedInv, Sources
<1>3. DistinctInv(o)'
    BY PlanEffect DEF TryInv, PhaseInv, DistinctInv, Distinct
<1>4. LastInv(o)'
    BY PlanEffect DEF TryInv, PhaseInv, LastInv
<1> QED
    BY <1>1, <1>2, <1>3, <1>4 DEF TryInv

\* Showing the picker, and its end without a pick, keep TryInv.
LEMMA AskOwn ==
    ASSUME TypeOK, NEW o \in Contexts, TryInv(o),
           \/ Offer(o) \/ OfferNothing(o) \/ PickerOpens(o) \/ PickerBusy(o)
           \/ NoPick(o)
    PROVE  TryInv(o)'
<1>1. PhaseInv(o)'
    BY AskEffect DEF TryInv, PhaseInv, Keeps
<1>2. ExplainedInv(o)'
    BY AskEffect DEF TryInv, PhaseInv, ExplainedInv, Sources, Keeps
<1>3. DistinctInv(o)'
    BY AskEffect DEF TryInv, DistinctInv, Distinct, Keeps
<1>4. LastInv(o)'
    BY AskEffect DEF TryInv, LastInv, Planned, Tried, Keeps
<1> QED
    BY <1>1, <1>2, <1>3, <1>4 DEF TryInv

\* A pick keeps TryInv: it opens a second round of attempts.
LEMMA PickOwn ==
    ASSUME TypeOK, NEW o \in Contexts, TryInv(o), UserPicks(o)
    PROVE  TryInv(o)'
<1>1. PhaseInv(o)'
    BY PickEffect DEF TryInv, PhaseInv, Keeps
<1>2. ExplainedInv(o)'
    <2>1. /\ stage'[o] # "new" /\ Keeps(o) /\ offered'[o] = offered[o]
          /\ \A i \in 1..Len(left'[o]) : left'[o][i] \in {default[o]} \cup offered[o]
        BY PickEffect
    <2>2. \A i \in 1..Len(left'[o]) :
            left'[o][i] \in Sources(o, stage[o] # "new")'
        BY <2>1 DEF Sources, Keeps
    <2>3. \A i \in 1..Len(tried'[o]) :
            (tried[o][i].browser \in Sources(o, tried[o][i].asked))'
        BY <2>1 DEF TryInv, ExplainedInv, Sources, Keeps
    <2> QED
        BY <2>2, <2>3 DEF ExplainedInv
<1>3. DistinctInv(o)'
    <2>1. /\ tried'[o] = tried[o] /\ stage'[o] # "new"
          /\ \A i \in 1..Len(tried[o]) : ~tried[o][i].asked
        BY PickEffect DEF TryInv, PhaseInv, Keeps
    <2>2. \A i, j \in 1..Len(left'[o]) : i # j => left'[o][i] # left'[o][j]
        BY PickEffect
    <2> QED
        BY <2>1, <2>2 DEF TryInv, DistinctInv, Distinct
<1>4. LastInv(o)'
    BY PickEffect DEF TryInv, LastInv
<1> QED
    BY <1>1, <1>2, <1>3, <1>4 DEF TryInv

\* A launch keeps TryInv: the browser it adds to tried is the one it takes
\* out of left.
LEMMA LaunchOwn ==
    ASSUME TypeOK, LeftInv, NEW o \in Contexts, TryInv(o), NEW ok \in BOOLEAN,
           IF ok THEN LaunchSucceeds(o) ELSE LaunchFails(o)
    PROVE  TryInv(o)'
<1>1. /\ Len(left[o]) \in Nat \ {0}
      /\ Len(tried[o]) \in Nat /\ Len(tried'[o]) = Len(tried[o]) + 1
      /\ \A i \in 1..Len(tried[o]) : tried'[o][i] = tried[o][i]
    BY LaunchMoves
<1>2. /\ tried'[o][Len(tried'[o])].browser = left[o][1]
      /\ tried'[o][Len(tried'[o])].asked <=> stage[o] # "new"
    BY LaunchMoves
<1>3. pc'[o] = "launching" =>
        /\ Len(left'[o]) = Len(left[o]) - 1
        /\ \A i \in 1..Len(left'[o]) : left'[o][i] = left[o][i + 1]
    BY LaunchMoves, LaunchEffect
<1>4. /\ pc[o] = "launching"
      /\ UNCHANGED <<decision, default, seen, offered, stage, onFail>>
      /\ pc'[o] \in {"launched", "launching", "failed", "asking", "lost"}
      /\ pc'[o] \notin {"launched", "launching"} =>
            Len(left[o]) = 1 /\ pc'[o] = onFail[o]
    BY LaunchEffect
<1>5. \A i \in 1..Len(tried'[o]) : \/ i \in 1..Len(tried[o])
                                   \/ i = Len(tried'[o])
    BY <1>1
<1>6. /\ \A i \in 1..Len(tried[o]) : tried[o][i].asked \in BOOLEAN
      /\ \A i \in 1..Len(tried'[o]) : tried'[o][i].asked \in BOOLEAN
    <2>1. TypeOK'
        <3>1. LaunchSucceeds(o) \/ LaunchFails(o)
            OBVIOUS
        <3> QED
            BY <3>1, LaunchTypes
    <2>2. tried[o] \in Seq(Attempts) /\ tried'[o] \in Seq(Attempts)
        BY <2>1 DEF TypeOK
    <2>3. \A a \in Attempts : a.asked \in BOOLEAN
        BY DEF Attempts
    <2> QED
        BY <2>2, <2>3
<1>7. PhaseInv(o)'
    BY <1>1, <1>2, <1>4, <1>5 DEF TryInv, PhaseInv
<1>8. ExplainedInv(o)'
    <2>1. ASSUME NEW i \in 1..Len(tried'[o])
          PROVE  tried'[o][i].browser \in Sources(o, tried'[o][i].asked)
        <3>1. CASE i \in 1..Len(tried[o])
            BY <1>1, <3>1 DEF TryInv, ExplainedInv
        <3>2. CASE i = Len(tried'[o])
            <4>1. left[o][1] \in Sources(o, stage[o] # "new")
                BY <1>1, <1>4 DEF TryInv, ExplainedInv
            <4> QED
                BY <1>2, <1>6, <3>2, <4>1 DEF Sources
        <3> QED
            BY <1>5, <3>1, <3>2
    <2>2. ASSUME pc'[o] = "launching", NEW i \in 1..Len(left'[o])
          PROVE  left'[o][i] \in Sources(o, stage[o] # "new")
        <3>1. i + 1 \in 1..Len(left[o])
            BY <1>1, <1>3, <2>2
        <3> QED
            BY <1>3, <1>4, <2>2, <3>1 DEF TryInv, ExplainedInv
    <2> QED
        BY <1>4, <2>1, <2>2 DEF ExplainedInv, Sources
<1>9. DistinctInv(o)'
    <2>1. ASSUME NEW i \in 1..Len(tried[o]),
                 tried[o][i].asked <=> stage[o] # "new"
          PROVE  \A j \in 1..Len(left[o]) : tried[o][i].browser # left[o][j]
        BY <1>4, <2>1 DEF TryInv, DistinctInv, Distinct
    <2>2. ASSUME NEW i \in 1..Len(tried'[o]), NEW j \in 1..Len(tried'[o]),
                 i # j, tried'[o][i].asked = tried'[o][j].asked
          PROVE  tried'[o][i].browser # tried'[o][j].browser
        <3>1. CASE i \in 1..Len(tried[o]) /\ j \in 1..Len(tried[o])
            BY <1>1, <2>2, <3>1 DEF TryInv, DistinctInv, Distinct
        <3>2. CASE i = Len(tried'[o])
            <4>1. j \in 1..Len(tried[o])
                BY <1>5, <2>2, <3>2
            <4>2. tried[o][j].asked <=> stage[o] # "new"
                BY <1>1, <1>2, <2>2, <3>2, <4>1
            <4> QED
                BY <1>1, <1>2, <2>1, <3>2, <4>1, <4>2
        <3>3. CASE j = Len(tried'[o])
            <4>1. i \in 1..Len(tried[o])
                BY <1>5, <2>2, <3>3
            <4>2. tried[o][i].asked <=> stage[o] # "new"
                BY <1>1, <1>2, <2>2, <3>3, <4>1
            <4> QED
                BY <1>1, <1>2, <2>1, <3>3, <4>1, <4>2
        <3> QED
            BY <1>5, <3>1, <3>2, <3>3
    <2>3. ASSUME pc'[o] = "launching", NEW i \in 1..Len(left'[o])
          PROVE  /\ i + 1 \in 1..Len(left[o]) /\ left'[o][i] = left[o][i + 1]
                 /\ left'[o][i] # left[o][1]
                 /\ \A j \in 1..Len(left'[o]) : i # j => left'[o][i] # left'[o][j]
        <3>1. ASSUME NEW j \in 1..Len(left'[o])
              PROVE  /\ j + 1 \in 1..Len(left[o]) /\ j + 1 # 1
                     /\ left'[o][j] = left[o][j + 1]
            BY <1>1, <1>3, <2>3
        <3>2. \A j, k \in 1..Len(left[o]) : j # k => left[o][j] # left[o][k]
            BY <1>4 DEF TryInv, DistinctInv, Distinct
        <3>3. ASSUME NEW j \in 1..Len(left'[o]), i # j
              PROVE  left'[o][i] # left'[o][j]
            <4>1. i + 1 \in 1..Len(left[o]) /\ j + 1 \in 1..Len(left[o])
                BY <3>1
            <4>2. i + 1 # j + 1
                BY <1>1, <1>3, <2>3, <3>3
            <4> QED
                BY <3>1, <3>2, <4>1, <4>2
        <3>4. 1 \in 1..Len(left[o])
            BY <1>1
        <3> QED
            BY <3>1, <3>2, <3>3, <3>4
    <2>4. ASSUME pc'[o] = "launching", NEW i \in 1..Len(tried'[o]),
                 tried'[o][i].asked <=> stage[o] # "new",
                 NEW j \in 1..Len(left'[o])
          PROVE  left'[o][j] # tried'[o][i].browser
        <3>1. CASE i \in 1..Len(tried[o])
            <4>1. /\ tried'[o][i] = tried[o][i]
                  /\ j + 1 \in 1..Len(left[o]) /\ left'[o][j] = left[o][j + 1]
                BY <1>1, <2>3, <2>4, <3>1
            <4> QED
                BY <2>1, <2>4, <3>1, <4>1
        <3>2. CASE i = Len(tried'[o])
            BY <1>2, <2>3, <2>4, <3>2
        <3> QED
            BY <1>5, <3>1, <3>2
    <2> QED
        BY <1>4, <2>2, <2>3, <2>4 DEF DistinctInv, Distinct
<1>10. LastInv(o)'
    <2>1. \A b : Tried(o, b) => Tried(o, b)'
        BY <1>1 DEF Tried
    <2>2. ASSUME NEW b, b = left[o][1] PROVE Tried(o, b)'
        BY <1>1, <1>2, <2>2 DEF Tried
    <2>3. ASSUME NEW b, ToTry(o, b), b # left[o][1], pc'[o] = "launching"
          PROVE  ToTry(o, b)'
        <3>1. PICK i \in 1..Len(left[o]) : left[o][i] = b
            BY <2>3 DEF ToTry
        <3>2. PICK j \in 1..Len(left'[o]) : i = j + 1
            <4>1. i # 1
                BY <2>3, <3>1
            <4>2. i - 1 \in 1..Len(left'[o]) /\ i = (i - 1) + 1
                BY <1>1, <1>3, <2>3, <3>1, <4>1
            <4> QED
                BY <4>2
        <3>3. left'[o][j] = left[o][j + 1]
            BY <1>3, <2>3, <3>2
        <3> QED
            BY <3>1, <3>2, <3>3 DEF ToTry
    <2>4. pc'[o] \notin {"launched", "launching"} =>
            \A b : ToTry(o, b) => b = left[o][1]
        BY <1>4 DEF ToTry
    <2>5. Planned(o)' = Planned(o)
        BY <1>4 DEF Planned
    <2>6. CASE pc'[o] = "launching"
        BY <1>4, <2>1, <2>2, <2>3, <2>5, <2>6 DEF TryInv, LastInv
    <2>7. CASE pc'[o] \in {"failed", "asking"}
        <3>1. stage[o] = "new"
            BY <1>4, <2>7 DEF TryInv, PhaseInv
        <3> QED
            BY <1>4, <2>1, <2>2, <2>4, <2>5, <2>7, <3>1 DEF TryInv, LastInv
    <2> QED
        BY <1>4, <2>6, <2>7 DEF LastInv
<1> QED
    BY <1>7, <1>8, <1>9, <1>10 DEF TryInv

\* Every step keeps TryInv for every URL.
LEMMA TryStep ==
    ASSUME TypeOK, LeftInv, \A o \in Contexts : TryInv(o), [Next]_vars
    PROVE  \A o \in Contexts : TryInv(o)'
<1> SUFFICES ASSUME NEW p \in Contexts PROVE TryInv(p)'
    OBVIOUS
<1>1. CASE Same(p)
    <2>1. PhaseInv(p)'
        BY <1>1 DEF Same, TryInv, PhaseInv
    <2>2. ExplainedInv(p)'
        BY <1>1 DEF Same, TryInv, ExplainedInv, Sources
    <2>3. DistinctInv(p)'
        BY <1>1 DEF Same, TryInv, DistinctInv
    <2>4. LastInv(p)'
        BY <1>1 DEF Same, TryInv, LastInv, Planned, Tried, ToTry
    <2> QED
        BY <2>1, <2>2, <2>3, <2>4 DEF TryInv
<1>2. CASE UNCHANGED vars \/ Change
    <2>1. Same(p)
        BY <1>2 DEF Change, vars, Same, planVars, tryVars, askVars
    <2> QED
        BY <1>1, <2>1
<1>3. ASSUME NEW o \in Contexts, OpenStep(o) PROVE TryInv(p)'
    <2>1. CASE p # o
        BY <1>1, <1>3, <2>1, OthersRest
    <2>2. CASE LaunchSucceeds(o) \/ LaunchFails(o)
        <3>1. \E ok \in BOOLEAN : IF ok THEN LaunchSucceeds(o) ELSE LaunchFails(o)
            BY <2>2
        <3> QED
            BY <1>1, <1>3, <3>1, OthersRest, LaunchOwn
    <2> QED
        BY <1>3, <2>1, <2>2, DecideOwn, ExecuteOwn, PlanOwn, AskOwn, PickOwn
        DEF OpenStep, ThreadStep
<1> QED
    BY <1>2, <1>3 DEF Next, OpenStep

\* TryInv holds throughout.
LEMMA TryHolds == Spec => [](\A o \in Contexts : TryInv(o))
<1>1. TypeOK /\ LeftInv /\ (\A o \in Contexts : TryInv(o)) /\ [Next]_vars
        => (\A o \in Contexts : TryInv(o))'
    BY TryStep
<1> QED
    BY <1>1, TryInit, TypeInit, TypeStep, PTL DEF Spec

\* No browser is tried twice for the same URL, before the picker or after it.
THEOREM NothingIsTriedTwice == Spec => []NoSecondTry
<1>1. (\A o \in Contexts : TryInv(o)) => NoSecondTry
    BY DEF TryInv, DistinctInv, Distinct, NoSecondTry
<1> QED
    BY <1>1, TryHolds, PTL

\* The picker and the error come after every planned browser that the
\* inventory listed.
THEOREM PickerIsLastResort == Spec => []GivesUpLast
<1>1. (\A o \in Contexts : TryInv(o)) => GivesUpLast
    BY DEF TryInv, LastInv, Planned, Tried, GivesUpLast
<1> QED
    BY <1>1, TryHolds, PTL

\* An open picker offers something.
THEOREM PickerOffersSomething == Spec => []NeverEmptyPicker
<1>1. (\A o \in Contexts : TryInv(o)) => NeverEmptyPicker
    BY DEF TryInv, PhaseInv, NeverEmptyPicker
<1> QED
    BY <1>1, TryHolds, PTL

\* Whatever is launched was decided, is the default, or was offered and picked.
THEOREM LaunchesAreExplained == Spec => []LaunchExplained
<1>1. (\A o \in Contexts : TryInv(o)) => LaunchExplained
    BY DEF TryInv, ExplainedInv, Sources, LaunchExplained
<1> QED
    BY <1>1, TryHolds, PTL

\* The three results on the order of the attempts together: each browser in its
\* turn and once, then a picker with something to choose.
THEOREM TriesGoInOrder == Spec => []TriesInOrder
<1>1. NoSecondTry /\ GivesUpLast /\ NeverEmptyPicker => TriesInOrder
    BY DEF TriesInOrder
<1> QED
    BY <1>1, NothingIsTriedTwice, PickerIsLastResort, PickerOffersSomething, PTL

\* Whatever changes between the decision and the launch, what is opened was
\* decided, is the default or was picked, and nothing is where the rules block.
THEOREM OpeningsAreDecided == Spec => []OpensAsDecided
<1>1. BlockedStaysClosed /\ LaunchExplained => OpensAsDecided
    BY DEF OpensAsDecided
<1> QED
    BY <1>1, BlockedIsNeverOpened, LaunchesAreExplained, PTL
=============================================================================
