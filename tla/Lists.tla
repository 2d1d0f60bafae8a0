------------------------------- MODULE Lists -------------------------------
(***************************************************************************)
(* What the commands do to the lists of a ConfigDocument: its rules,       *)
(* workspaces and custom browsers are lists of records with an id, where   *)
(* the position of a rule is its priority.                                 *)
(***************************************************************************)
EXTENDS Naturals, Sequences, SequencesExt, FiniteSets

Ids(list) == {list[i].id : i \in DOMAIN list}

DistinctIds(list) ==
    \A i, j \in DOMAIN list : list[i].id = list[j].id => i = j

\* iter_mut().find(..) then replace in place, else push.
Put(list, item) ==
    IF item.id \in Ids(list)
    THEN LET at == SelectInSeq(list, LAMBDA x : x.id = item.id)
         IN  [list EXCEPT ![at] = item]
    ELSE Append(list, item)

\* How many of the positions in keep are at most i.
Rank(keep, i) == Cardinality({k \in keep : k <= i})

Nth(keep, n) == CHOOSE i \in keep : Rank(keep, i) = n

\* retain: the entries at the positions in keep, in their order.
Kept(list, keep) == [n \in 1..Cardinality(keep) |-> list[Nth(keep, n)]]

\* retain(|x| x.id != id)
Without(list, id) == Kept(list, {i \in DOMAIN list : list[i].id # id})

\* Faulty variant: inserted before it is removed, at the old position.
InsertedFirst(list, from, to) == RemoveAt(InsertAt(list, to, list[from]), from)

\* remove(from) then insert(to, _): the ones between move up by one.
Moved(list, from, to) == InsertAt(RemoveAt(list, from), to, list[from])

\* First-seen order, each once.
Deduped(ids) == Kept(ids, {i \in DOMAIN ids : \A j \in 1..(i - 1) : ids[j] # ids[i]})
============================================================================
