---------------------------- MODULE AskContract ----------------------------
(***************************************************************************)
(* What the ask picker promises to its callers (the doc comment of         *)
(* show_picker and CHANGELOG.md's "Concurrent Ask flows no longer race"):  *)
(* one ask at a time is open, an ask that arrives meanwhile is dropped,    *)
(* and an open ask ends, with what its user picked for it or with nothing. *)
(***************************************************************************)
CONSTANTS Asks,  \* the calls of show_picker
          NoAsk  \* no pick

VARIABLES stage, \* new, open, dropped or done
          picked \* the ask whose choices the returned pick was made from

cvars == <<stage, picked>>

Init ==
    /\ stage = [a \in Asks |-> "new"]
    /\ picked = [a \in Asks |-> NoAsk]

SomeOpen == \E a \in Asks : stage[a] = "open"

Open(a) ==
    /\ stage[a] = "new"
    /\ ~SomeOpen
    /\ stage' = [stage EXCEPT ![a] = "open"]
    /\ UNCHANGED picked

Drop(a) ==
    /\ stage[a] = "new"
    /\ SomeOpen
    /\ stage' = [stage EXCEPT ![a] = "dropped"]
    /\ UNCHANGED picked

Finish(a) ==
    /\ stage[a] = "open"
    /\ stage' = [stage EXCEPT ![a] = "done"]
    /\ \E p \in {a, NoAsk} : picked' = [picked EXCEPT ![a] = p]

Next == \E a \in Asks : Open(a) \/ Drop(a) \/ Finish(a)

\* What may happen, and that an open ask ends.
Safe == Init /\ [][Next]_cvars
Spec == Safe /\ \A a \in Asks : WF_cvars(Finish(a))
=============================================================================
