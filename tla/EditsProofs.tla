---------------------------- MODULE EditsProofs ----------------------------
(***************************************************************************)
(* The commands that edit the configuration document, for documents of any *)
(* length, any number of ids and any number of edits.                      *)
(*                                                                         *)
(* First what the list operators do (Kept, Put, Moved, Without, Deduped),  *)
(* then what an edit does to one document (Edited), then what a command    *)
(* writes: Done says that whatever the command, and whichever copy it      *)
(* works on, the document it writes is well-formed, and that one made from *)
(* the file does to the rules what RulesEdit allows and leaves no rule in  *)
(* a workspace that is gone.  The theorems are about all commands at once. *)
(* Last, what a document makes the user see: Merged by induction on the    *)
(* number of entries put, the wheel from what Kept keeps.                  *)
(***************************************************************************)
EXTENDS Edits, SequenceTheorems, FiniteSetTheorems, NaturalsInduction,
        WellFoundedInduction, TLAPS

-----------------------------------------------------------------------------
(* Lists.                                                                  *)

\* A set of numbers has a least one.
LEMMA LeastNat ==
    ASSUME NEW T \in SUBSET Nat, T # {}
    PROVE  \E x \in T : \A y \in T : x <= y
<1> DEFINE Less == {ss \in Nat \X Nat : ss[1] < ss[2]}
<1>1. IsWellFoundedOn(Less, Nat)
    BY NatLessThanWellFounded, Zenon DEF OpToRel
<1>2. \A x, y \in Nat : y < x => <<y, x>> \in Less
    OBVIOUS
<1> HIDE DEF Less
<1>3. PICK x \in T : \A y \in T : ~(<<y, x>> \in Less)
    BY <1>1, WFMin
<1>4. ASSUME NEW y \in T
      PROVE  x <= y
    <2>1. x \in Nat /\ y \in Nat
        OBVIOUS
    <2>2. ~(y < x)
        BY <1>2, <1>3, <2>1
    <2> QED
        BY <2>1, <2>2
<1> QED
    BY <1>4

\* Rank counts: it grows by one at each position kept, up to their number.
LEMMA RankFacts ==
    ASSUME NEW n \in Nat, NEW keep \in SUBSET (1..n)
    PROVE  /\ IsFiniteSet(keep) /\ Cardinality(keep) \in Nat
           /\ \A i \in Nat : Rank(keep, i) \in Nat
           /\ Rank(keep, 0) = 0 /\ Rank(keep, n) = Cardinality(keep)
           /\ \A i \in Nat : Rank(keep, i + 1) =
                  Rank(keep, i) + (IF i + 1 \in keep THEN 1 ELSE 0)
           /\ \A i, j \in Nat : i <= j => Rank(keep, i) <= Rank(keep, j)
           /\ \A i \in Nat : Rank(keep, i) <= Cardinality(keep)
<1> DEFINE Low(i) == {k \in keep : k <= i}
<1>0. \A k \in keep : k \in 1..n /\ k \in Nat
    OBVIOUS
<1>1. IsFiniteSet(1..n)
    BY FS_Interval
<1>2. IsFiniteSet(keep) /\ Cardinality(keep) \in Nat
    BY <1>1, FS_Subset, FS_CardinalityType
<1>3. \A i \in Nat : IsFiniteSet(Low(i)) /\ Cardinality(Low(i)) <= Cardinality(keep)
    BY <1>2, FS_Subset
<1>4. \A i \in Nat : Rank(keep, i) \in Nat /\ Rank(keep, i) <= Cardinality(keep)
    BY <1>3, FS_CardinalityType DEF Rank
<1>5. Rank(keep, 0) = 0
    <2>1. Low(0) = {}
        <3>1. \A k \in keep : ~(k <= 0)
            BY <1>0
        <3> QED
            BY <3>1
    <2> QED
        BY <2>1, FS_EmptySet DEF Rank
<1>6. Rank(keep, n) = Cardinality(keep)
    <2>1. Low(n) = keep
        <3>1. \A k \in keep : k <= n
            BY <1>0
        <3> QED
            BY <3>1
    <2> QED
        BY <2>1 DEF Rank
<1>7. ASSUME NEW i \in Nat
      PROVE  Rank(keep, i + 1) = Rank(keep, i) + (IF i + 1 \in keep THEN 1 ELSE 0)
    <2>1. CASE i + 1 \in keep
        <3>1. Low(i + 1) = Low(i) \cup {i + 1} /\ i + 1 \notin Low(i)
            <4>1. ~(i + 1 <= i) /\ i + 1 <= i + 1
                OBVIOUS
            <4>2. \A k \in keep : k <= i + 1 <=> k <= i \/ k = i + 1
                BY <1>0
            <4> QED
                BY <2>1, <4>1, <4>2
        <3>2. Cardinality(Low(i + 1)) = Cardinality(Low(i)) + 1
            BY <1>3, <3>1, FS_AddElement
        <3> QED
            BY <2>1, <3>2 DEF Rank
    <2>2. CASE i + 1 \notin keep
        <3>1. Low(i + 1) = Low(i)
            <4>1. \A k \in keep : k <= i + 1 <=> k <= i
                BY <1>0, <2>2
            <4> QED
                BY <4>1
        <3> QED
            BY <1>4, <2>2, <3>1 DEF Rank
    <2> QED
        BY <2>1, <2>2
<1>8. ASSUME NEW i \in Nat, NEW j \in Nat, i <= j
      PROVE  Rank(keep, i) <= Rank(keep, j)
    <2>1. Low(i) \subseteq Low(j)
        <3>1. \A k \in keep : k <= i => k <= j
            BY <1>0, <1>8
        <3> QED
            BY <3>1
    <2> QED
        BY <1>3, <2>1, FS_Subset DEF Rank
<1> QED
    BY <1>2, <1>4, <1>5, <1>6, <1>7, <1>8

\* There is a position of each rank.
LEMMA NthExists ==
    ASSUME NEW n \in Nat, NEW keep \in SUBSET (1..n), NEW m \in 1..Cardinality(keep)
    PROVE  Nth(keep, m) \in keep /\ Rank(keep, Nth(keep, m)) = m
<1> DEFINE T == {i \in Nat : Rank(keep, i) >= m}
<1>1. n \in T
    BY RankFacts
<1>2. PICK i \in T : \A j \in T : i <= j
    BY <1>1, LeastNat
<1>3. i # 0
    BY RankFacts
<1>4. i - 1 \in Nat /\ i - 1 \notin T
    BY <1>2, <1>3
<1>5. Rank(keep, (i - 1) + 1) = Rank(keep, i - 1) + (IF (i - 1) + 1 \in keep THEN 1 ELSE 0)
    BY <1>4, RankFacts, SMTT(60)
<1>6. (i - 1) + 1 = i
    OBVIOUS
<1>7. i \in keep /\ Rank(keep, i) = m
    BY <1>2, <1>4, <1>5, <1>6, RankFacts, SMTT(60)
<1> QED
    BY <1>7 DEF Nth

\* Kept has the entries at the positions kept, in their order.
LEMMA KeptFacts ==
    ASSUME NEW S, NEW list \in Seq(S), NEW keep \in SUBSET (DOMAIN list)
    PROVE  /\ Kept(list, keep) \in Seq(S)
           /\ Len(Kept(list, keep)) = Cardinality(keep)
           /\ DOMAIN Kept(list, keep) = 1..Cardinality(keep)
           /\ \A m \in 1..Cardinality(keep) :
                  Nth(keep, m) \in keep /\ Kept(list, keep)[m] = list[Nth(keep, m)]
           /\ \A l, m \in 1..Cardinality(keep) : l < m => Nth(keep, l) < Nth(keep, m)
           /\ \A i \in keep : Rank(keep, i) \in 1..Cardinality(keep) /\ Nth(keep, Rank(keep, i)) = i
<1>1. Len(list) \in Nat /\ keep \in SUBSET (1..Len(list))
    OBVIOUS
<1>1a. \A i, j \in Nat : i <= j => Rank(keep, i) <= Rank(keep, j)
    BY <1>1, RankFacts
<1>2. Cardinality(keep) \in Nat
    BY <1>1, RankFacts
<1>3. \A m \in 1..Cardinality(keep) : Nth(keep, m) \in keep /\ Rank(keep, Nth(keep, m)) = m
    BY <1>1, NthExists
<1>4. DOMAIN Kept(list, keep) = 1..Cardinality(keep)
    BY DEF Kept
<1>5. \A m \in 1..Cardinality(keep) : Kept(list, keep)[m] = list[Nth(keep, m)]
    BY DEF Kept
<1>6. Kept(list, keep) \in [1..Cardinality(keep) -> S]
    BY <1>3 DEF Kept
<1>7. Kept(list, keep) \in Seq(S) /\ Len(Kept(list, keep)) = Cardinality(keep)
    BY <1>2, <1>6
<1>8. ASSUME NEW l \in 1..Cardinality(keep), NEW m \in 1..Cardinality(keep), l < m
      PROVE  Nth(keep, l) < Nth(keep, m)
    <2> SUFFICES ASSUME Nth(keep, m) <= Nth(keep, l) PROVE FALSE
        BY <1>1, <1>3
    <2>1. Rank(keep, Nth(keep, m)) <= Rank(keep, Nth(keep, l))
        BY <1>1, <1>3, RankFacts
    <2> QED
        BY <1>2, <1>3, <1>8, <2>1
<1>9. \A i, j \in keep : i < j => Rank(keep, i) < Rank(keep, j)
    <2> TAKE i, j \in keep
    <2> HAVE i < j
    <2>1. j - 1 \in Nat /\ i \in Nat /\ i <= j - 1 /\ (j - 1) + 1 = j
        BY <1>1
    <2>2. Rank(keep, i) <= Rank(keep, j - 1)
        BY <1>1a, <2>1
    <2>3. Rank(keep, (j - 1) + 1) = Rank(keep, j - 1) + 1
        <3>1. Rank(keep, (j - 1) + 1) =
                  Rank(keep, j - 1) + (IF (j - 1) + 1 \in keep THEN 1 ELSE 0)
            BY <1>1, <2>1, RankFacts, ZenonT(60)
        <3> QED
            BY <2>1, <3>1
    <2>4. Rank(keep, i) \in Nat /\ Rank(keep, j - 1) \in Nat
        BY <1>1, <2>1, RankFacts
    <2> QED
        BY <2>1, <2>2, <2>3, <2>4
<1>10. ASSUME NEW i \in keep
       PROVE  Rank(keep, i) \in 1..Cardinality(keep) /\ Nth(keep, Rank(keep, i)) = i
    <2>1. i \in Nat /\ i - 1 \in Nat /\ (i - 1) + 1 = i
        BY <1>1
    <2>2. Rank(keep, (i - 1) + 1) = Rank(keep, i - 1) + 1 /\ Rank(keep, i - 1) \in Nat
        <3>1. Rank(keep, (i - 1) + 1) =
                  Rank(keep, i - 1) + (IF (i - 1) + 1 \in keep THEN 1 ELSE 0)
            BY <1>1, <2>1, RankFacts
        <3> QED
            BY <1>1, <2>1, <3>1, RankFacts
    <2>3. Rank(keep, i) \in 1..Cardinality(keep)
        BY <1>1, <1>2, <2>1, <2>2, RankFacts, SMTT(60)
    <2>4. Nth(keep, Rank(keep, i)) \in keep /\ Rank(keep, Nth(keep, Rank(keep, i))) = Rank(keep, i)
        BY <1>3, <2>3
    <2>5. ~(Nth(keep, Rank(keep, i)) < i) /\ ~(i < Nth(keep, Rank(keep, i)))
        BY <1>2, <1>9, <2>3, <2>4
    <2> QED
        BY <1>1, <2>3, <2>4, <2>5
<1> QED
    BY <1>3, <1>4, <1>5, <1>7, <1>8, <1>10

\* All kept is all there was.
LEMMA AllKept ==
    ASSUME NEW S, NEW list \in Seq(S)
    PROVE  Kept(list, DOMAIN list) = list
<1> DEFINE n == Len(list)
           keep == 1..n
<1>1. n \in Nat /\ DOMAIN list = keep
    OBVIOUS
<1>2. \A i \in keep : Rank(keep, i) = i
    <2> TAKE i \in keep
    <2>1. \A k \in Nat : k \in keep /\ k <= i <=> k \in 1..i
        BY <1>1
    <2>2. {k \in keep : k <= i} = 1..i
        BY <1>1, <2>1
    <2>3. Cardinality(1..i) = i
        BY <1>1, FS_Interval
    <2> QED
        BY <2>2, <2>3 DEF Rank
<1>3. Cardinality(keep) = n
    BY <1>1, FS_Interval, SMTT(60)
<1>4. /\ Kept(list, keep) \in Seq(S) /\ Len(Kept(list, keep)) = n
      /\ \A m \in 1..n : Kept(list, keep)[m] = list[Nth(keep, m)]
      /\ \A i \in keep : Nth(keep, Rank(keep, i)) = i
    BY <1>1, <1>3, KeptFacts
<1>5. \A m \in 1..n : Kept(list, keep)[m] = list[m]
    BY <1>2, <1>4
<1> DEFINE new == Kept(list, keep)
<1>6. new \in Seq(S) /\ Len(new) = n /\ \A m \in 1..n : new[m] = list[m]
    BY <1>4, <1>5
<1> HIDE DEF new
<1>7. new = list
    BY <1>6
<1> QED
    BY <1>1, <1>7 DEF new

\* The entries of a list.
Entries(list) == {list[i] : i \in DOMAIN list}

\* Kept has the entries kept and no others, and none twice unless the list has.
LEMMA KeptKeeps ==
    ASSUME NEW S, NEW list \in Seq(S), NEW keep \in SUBSET (DOMAIN list)
    PROVE  /\ \A m \in DOMAIN Kept(list, keep) : \E i \in keep : Kept(list, keep)[m] = list[i]
           /\ \A i \in keep : \E m \in DOMAIN Kept(list, keep) : Kept(list, keep)[m] = list[i]
           /\ (\A i, j \in keep : list[i] = list[j] => i = j) =>
                \A l, m \in DOMAIN Kept(list, keep) :
                    Kept(list, keep)[l] = Kept(list, keep)[m] => l = m
           /\ (\A i, j \in keep : list[i].id = list[j].id => i = j) =>
                DistinctIds(Kept(list, keep))
<1> DEFINE D == 1..Cardinality(keep)
<1>1. /\ DOMAIN Kept(list, keep) = D
      /\ \A m \in D : Nth(keep, m) \in keep /\ Kept(list, keep)[m] = list[Nth(keep, m)]
      /\ \A l, m \in D : l < m => Nth(keep, l) < Nth(keep, m)
      /\ \A i \in keep : Rank(keep, i) \in D /\ Nth(keep, Rank(keep, i)) = i
    BY KeptFacts
<1>2. \A i \in keep : i \in Nat
    OBVIOUS
<1>3. ASSUME NEW l \in D, NEW m \in D, Nth(keep, l) = Nth(keep, m)
      PROVE  l = m
    <2>1. ~(l < m) /\ ~(m < l)
        BY <1>1, <1>2, <1>3
    <2> QED
        BY <2>1
<1> HIDE DEF D
<1> QED
    BY <1>1, <1>3 DEF DistinctIds

\* Put replaces an entry with the id, or appends.
LEMMA PutIs ==
    ASSUME NEW S, NEW list \in Seq(S), NEW item \in S
    PROVE  \/ item.id \notin Ids(list) /\ Put(list, item) = Append(list, item)
           \/ \E at \in 1..Len(list) :
                  list[at].id = item.id /\ Put(list, item) = [list EXCEPT ![at] = item]
<1>1. CASE item.id \notin Ids(list)
    BY <1>1 DEF Put
<1>2. CASE item.id \in Ids(list)
    <2> DEFINE I == {i \in 1..Len(list) : list[i].id = item.id}
               at == Min(I)
    <2>1. I \in SUBSET Nat /\ I # {}
        BY <1>2 DEF Ids
    <2>2. \E x \in I : \A y \in I : x <= y
        BY <2>1, LeastNat
    <2>3. at \in I
        BY <2>2 DEF Min
    <2>4. SelectInSeq(list, LAMBDA x : x.id = item.id) = at
        BY <2>1 DEF SelectInSeq
    <2>5. Put(list, item) = [list EXCEPT ![at] = item]
        BY <1>2, <2>4 DEF Put
    <2> QED
        BY <2>3, <2>5
<1> QED
    BY <1>1, <1>2

\* With no id twice, the entry at the id is the one replaced.
LEMMA PutAt ==
    ASSUME NEW S, NEW list \in Seq(S), NEW item \in S, NEW i \in DOMAIN list,
           DistinctIds(list), item.id = list[i].id
    PROVE  Put(list, item) = [list EXCEPT ![i] = item]
<1>1. item.id \in Ids(list)
    BY DEF Ids
<1>2. PICK at \in 1..Len(list) :
          list[at].id = item.id /\ Put(list, item) = [list EXCEPT ![at] = item]
    BY <1>1, PutIs
<1>3. at = i
    BY <1>2 DEF DistinctIds
<1> QED
    BY <1>2, <1>3

\* Put adds its id and no other, and none twice.
LEMMA PutKeeps ==
    ASSUME NEW S, NEW list \in Seq(S), NEW item \in S
    PROVE  /\ Put(list, item) \in Seq(S)
           /\ Ids(Put(list, item)) = Ids(list) \cup {item.id}
           /\ DistinctIds(list) => DistinctIds(Put(list, item))
           /\ \A i \in DOMAIN Put(list, item) :
                  Put(list, item)[i] = item \/ Put(list, item)[i] \in Entries(list)
<1>1. CASE item.id \notin Ids(list) /\ Put(list, item) = Append(list, item)
    <2> DEFINE new == Append(list, item)
    <2>1. new \in Seq(S) /\ DOMAIN new = 1..(Len(list) + 1) /\ new[Len(list) + 1] = item
          /\ (\A i \in 1..Len(list) : new[i] = list[i]) /\ DOMAIN list = 1..Len(list) /\ Len(list) \in Nat
        OBVIOUS
    <2>2. \A i \in DOMAIN new : i \in DOMAIN list \/ i = Len(list) + 1
        BY <2>1
    <2>3. \A i \in DOMAIN list : i \in DOMAIN new
        BY <2>1
    <2>4. Len(list) + 1 \in DOMAIN new
        BY <2>1
    <2> HIDE DEF new
    <2>5. Ids(new) = Ids(list) \cup {item.id}
        BY <2>1, <2>2, <2>3, <2>4 DEF Ids
    <2>6. DistinctIds(list) => DistinctIds(new)
        BY <1>1, <2>1, <2>2 DEF DistinctIds, Ids
    <2>7. \A i \in DOMAIN new : new[i] = item \/ new[i] \in Entries(list)
        BY <2>1, <2>2 DEF Entries
    <2>8. Put(list, item) = new
        BY <1>1 DEF new
    <2> QED
        BY <2>1, <2>5, <2>6, <2>7, <2>8
<1>2. ASSUME NEW at \in 1..Len(list), list[at].id = item.id,
             Put(list, item) = [list EXCEPT ![at] = item]
      PROVE  /\ Put(list, item) \in Seq(S)
             /\ Ids(Put(list, item)) = Ids(list) \cup {item.id}
             /\ DistinctIds(list) => DistinctIds(Put(list, item))
             /\ \A i \in DOMAIN Put(list, item) :
                    Put(list, item)[i] = item \/ Put(list, item)[i] \in Entries(list)
    <2> DEFINE new == [list EXCEPT ![at] = item]
    <2>1. new \in Seq(S) /\ DOMAIN new = DOMAIN list /\ at \in DOMAIN list
          /\ new[at] = item /\ \A i \in DOMAIN list \ {at} : new[i] = list[i]
        OBVIOUS
    <2> HIDE DEF new
    <2>2. \A i \in DOMAIN list : new[i].id = list[i].id
        BY <1>2, <2>1
    <2>3. Ids(new) = Ids(list)
        BY <2>1, <2>2 DEF Ids
    <2>4. item.id \in Ids(list)
        BY <1>2, <2>1 DEF Ids
    <2>5. DistinctIds(list) => DistinctIds(new)
        BY <2>1, <2>2 DEF DistinctIds
    <2>6. \A i \in DOMAIN new : new[i] = item \/ new[i] \in Entries(list)
        BY <2>1 DEF Entries
    <2>7. Put(list, item) = new
        BY <1>2 DEF new
    <2> QED
        BY <2>1, <2>3, <2>4, <2>5, <2>6, <2>7
<1> QED
    BY <1>1, <1>2, PutIs

\* Moved takes one entry along; those between move up by one.
LEMMA MovedIs ==
    ASSUME NEW S, NEW list \in Seq(S), NEW from \in DOMAIN list, NEW to \in DOMAIN list
    PROVE  /\ Moved(list, from, to) \in Seq(S)
           /\ DOMAIN Moved(list, from, to) = DOMAIN list
           /\ \A k \in DOMAIN list : Moved(list, from, to)[k] =
                    IF k = to THEN list[from]
                    ELSE IF from <= k /\ k < to THEN list[k + 1]
                    ELSE IF to < k /\ k <= from THEN list[k - 1]
                    ELSE list[k]
<1> DEFINE n == Len(list)
           rest == RemoveAt(list, from)
           left == SubSeq(rest, 1, to - 1)
           right == SubSeq(rest, to, n - 1)
<1>1. n \in Nat /\ from \in 1..n /\ to \in 1..n /\ DOMAIN list = 1..n
    OBVIOUS
<1>2. /\ rest \in Seq(S) /\ Len(rest) = n - 1
      /\ \A k \in 1..(n - 1) : rest[k] = IF k < from THEN list[k] ELSE list[k + 1]
    <2>1. /\ SubSeq(list, 1, from - 1) \in Seq(S) /\ Len(SubSeq(list, 1, from - 1)) = from - 1
          /\ \A k \in 1..(from - 1) : SubSeq(list, 1, from - 1)[k] = list[k]
        BY <1>1
    <2>2. /\ SubSeq(list, from + 1, n) \in Seq(S) /\ Len(SubSeq(list, from + 1, n)) = n - from
          /\ \A k \in 1..(n - from) : SubSeq(list, from + 1, n)[k] = list[k + from]
        BY <1>1, SMTT(60)
    <2> DEFINE a == SubSeq(list, 1, from - 1)
               b == SubSeq(list, from + 1, n)
    <2>3. rest = a \o b
        BY DEF RemoveAt
    <2> HIDE DEF a, b, rest
    <2>4. a \in Seq(S) /\ b \in Seq(S) /\ Len(a) = from - 1 /\ Len(b) = n - from
        BY <2>1, <2>2 DEF a, b
    <2>5. rest \in Seq(S) /\ Len(rest) = n - 1
        <3>1. rest \in Seq(S) /\ Len(rest) = Len(a) + Len(b)
            BY <2>3, <2>4, ConcatProperties
        <3> QED
            BY <1>1, <2>4, <3>1
    <2>6. \A k \in 1..(n - 1) :
              rest[k] = IF k <= from - 1 THEN a[k] ELSE b[k - (from - 1)]
        <3>1. \A k \in 1..Len(a) + Len(b) :
                  rest[k] = IF k <= Len(a) THEN a[k] ELSE b[k - Len(a)]
            BY <2>3, <2>4, ConcatProperties
        <3>2. Len(a) + Len(b) = n - 1
            BY <1>1, <2>4
        <3> QED
            BY <2>4, <3>1, <3>2
    <2>7. ASSUME NEW k \in 1..(n - 1)
          PROVE  rest[k] = IF k < from THEN list[k] ELSE list[k + 1]
        <3>1. CASE k < from
            BY <1>1, <2>1, <2>6, <3>1 DEF a
        <3>2. CASE ~(k < from)
            <4>1. PICK j \in 1..(n - from) : j = k - (from - 1)
                BY <1>1, <3>2
            <4>0. j + from = k + 1 /\ ~(k <= from - 1)
                BY <1>1, <3>2, <4>1
            <4>2. rest[k] = b[j]
                BY <2>6, <4>0, <4>1
            <4>3. b[j] = list[j + from]
                BY <2>2 DEF b
            <4> QED
                BY <3>2, <4>0, <4>2, <4>3
        <3> QED
            BY <3>1, <3>2
    <2> QED
        BY <2>5, <2>7
<1> HIDE DEF rest
<1>3. /\ left \in Seq(S) /\ Len(left) = to - 1
      /\ \A k \in 1..(to - 1) : left[k] = rest[k]
    BY <1>1, <1>2
<1>4. /\ right \in Seq(S) /\ Len(right) = n - to
      /\ \A k \in 1..(n - to) : right[k] = rest[k + to - 1]
    BY <1>1, <1>2, SMTT(60)
<1>5. Moved(list, from, to) = left \o <<list[from]>> \o right
    BY <1>2 DEF Moved, InsertAt, rest
<1> HIDE DEF left, right
<1>6. list[from] \in S
    BY <1>1
<1> DEFINE mid == left \o <<list[from]>>
<1>7. /\ mid \in Seq(S) /\ Len(mid) = to
      /\ \A k \in 1..(to - 1) : mid[k] = rest[k]
      /\ mid[to] = list[from]
    BY <1>1, <1>3, <1>6
<1> HIDE DEF mid
<1>8. /\ mid \o right \in Seq(S) /\ Len(mid \o right) = n
      /\ \A k \in 1..n : (mid \o right)[k] = IF k <= to THEN mid[k] ELSE right[k - to]
    <2>1. \A k \in 1..Len(mid) + Len(right) :
              (mid \o right)[k] = IF k <= Len(mid) THEN mid[k] ELSE right[k - Len(mid)]
        BY <1>4, <1>7, ConcatProperties
    <2>2. Len(mid) + Len(right) = n
        BY <1>1, <1>4, <1>7
    <2>3. mid \o right \in Seq(S) /\ Len(mid \o right) = n
        BY <1>4, <1>7, <2>2, ConcatProperties
    <2> QED
        BY <1>7, <2>1, <2>2, <2>3
<1>9. ASSUME NEW k \in 1..n
      PROVE  (mid \o right)[k] = IF k = to THEN list[from]
                    ELSE IF from <= k /\ k < to THEN list[k + 1]
                    ELSE IF to < k /\ k <= from THEN list[k - 1]
                    ELSE list[k]
    <2>1. CASE k < to
        <3>1. (mid \o right)[k] = rest[k]
            BY <1>1, <1>7, <1>8, <2>1, SMTT(60)
        <3>2. k \in 1..(n - 1)
            BY <1>1, <2>1
        <3>3. rest[k] = IF k < from THEN list[k] ELSE list[k + 1]
            BY <1>2, <3>2
        <3> QED
            BY <1>1, <2>1, <3>1, <3>3
    <2>2. CASE k = to
        BY <1>1, <1>7, <1>8, <2>2
    <2>3. CASE k > to
        <3>0. k - to \in 1..(n - to) /\ ~(k <= to)
            BY <1>1, <2>3
        <3>1. (mid \o right)[k] = rest[(k - to) + to - 1]
            <4>1. (mid \o right)[k] = right[k - to]
                BY <1>8, <3>0
            <4> QED
                BY <1>4, <3>0, <4>1
        <3>2. (k - to) + to - 1 = k - 1 /\ k - 1 \in 1..(n - 1) /\ (k - 1) + 1 = k
            BY <1>1, <2>3
        <3>3. (mid \o right)[k] = IF k - 1 < from THEN list[k - 1] ELSE list[k]
            BY <1>2, <3>1, <3>2
        <3> QED
            BY <1>1, <2>3, <3>3
    <2>4. k < to \/ k = to \/ k > to
        BY <1>1
    <2> QED
        BY <2>1, <2>2, <2>3, <2>4
<1>10. Moved(list, from, to) = mid \o right
    BY <1>5 DEF mid
<1> DEFINE w == mid \o right
<1>11. w \in Seq(S) /\ Len(w) = n
    BY <1>8
<1>12. DOMAIN w = DOMAIN list
    <2> HIDE DEF w
    <2> QED
        BY <1>1, <1>11
<1> QED
    BY <1>1, <1>9, <1>10, <1>11, <1>12, Zenon

\* Moving loses no entry and doubles none.
LEMMA MovedKeeps ==
    ASSUME NEW S, NEW list \in Seq(S), NEW from \in DOMAIN list, NEW to \in DOMAIN list
    PROVE  /\ DistinctIds(list) => DistinctIds(Moved(list, from, to))
           /\ \A i \in DOMAIN Moved(list, from, to) : Moved(list, from, to)[i] \in Entries(list)
<1>0. /\ DOMAIN Moved(list, from, to) = DOMAIN list
      /\ \A k \in DOMAIN list : Moved(list, from, to)[k] =
                    IF k = to THEN list[from]
                    ELSE IF from <= k /\ k < to THEN list[k + 1]
                    ELSE IF to < k /\ k <= from THEN list[k - 1]
                    ELSE list[k]
    BY MovedIs
<1> DEFINE new == Moved(list, from, to)
           old(k) == IF k = to THEN from
                     ELSE IF from <= k /\ k < to THEN k + 1
                     ELSE IF to < k /\ k <= from THEN k - 1
                     ELSE k
<1>1. Len(list) \in Nat /\ DOMAIN list = 1..Len(list) /\ DOMAIN new = DOMAIN list
    BY <1>0
<1>2. \A k \in 1..Len(list) : old(k) \in 1..Len(list)
    BY <1>1
<1>3. \A k, l \in 1..Len(list) : old(k) = old(l) => k = l
    BY <1>1
<1>4. \A k \in 1..Len(list) : new[k] = list[old(k)]
    <2> SUFFICES ASSUME NEW k \in 1..Len(list) PROVE new[k] = list[old(k)]
        OBVIOUS
    <2>1. new[k] = IF k = to THEN list[from]
                   ELSE IF from <= k /\ k < to THEN list[k + 1]
                   ELSE IF to < k /\ k <= from THEN list[k - 1]
                   ELSE list[k]
        <3>1. k \in DOMAIN list
            BY <1>1
        <3> QED
            BY <1>0, <3>1
    <2> QED
        BY <2>1
<1> HIDE DEF new, old
<1>5. \A k \in DOMAIN new : new[k] \in Entries(list)
    BY <1>1, <1>2, <1>4 DEF Entries
<1>6. ASSUME DistinctIds(list), NEW k \in DOMAIN new, NEW l \in DOMAIN new,
             new[k].id = new[l].id
      PROVE  k = l
    <2>1. list[old(k)].id = list[old(l)].id
        BY <1>1, <1>4, <1>6
    <2>2. old(k) = old(l)
        BY <1>1, <1>2, <1>6, <2>1 DEF DistinctIds
    <2> QED
        BY <1>1, <1>3, <1>6, <2>2
<1> QED
    BY <1>5, <1>6 DEF new, DistinctIds
-----------------------------------------------------------------------------
(* Lists of a document.                                                    *)

\* Without removes one id and nothing else.
LEMMA WithoutKeeps ==
    ASSUME NEW S, NEW list \in Seq(S), NEW id
    PROVE  /\ Without(list, id) \in Seq(S)
           /\ Ids(Without(list, id)) = Ids(list) \ {id}
           /\ DistinctIds(list) => DistinctIds(Without(list, id))
           /\ \A i \in DOMAIN Without(list, id) : Without(list, id)[i] \in Entries(list)
<1> DEFINE keep == {i \in DOMAIN list : list[i].id # id}
           new == Kept(list, keep)
<1>1. Without(list, id) = new
    BY DEF Without
<1>2. keep \in SUBSET (DOMAIN list) /\ \A i \in DOMAIN list : i \in keep <=> list[i].id # id
    OBVIOUS
<1> HIDE DEF keep
<1>3. new \in Seq(S)
    BY <1>2, KeptFacts
<1>4. /\ \A m \in DOMAIN new : \E i \in keep : new[m] = list[i]
      /\ \A i \in keep : \E m \in DOMAIN new : new[m] = list[i]
      /\ (\A i, j \in keep : list[i].id = list[j].id => i = j) => DistinctIds(new)
    BY <1>2, KeptKeeps
<1> HIDE DEF new
<1>5. Ids(new) = Ids(list) \ {id}
    BY <1>2, <1>4 DEF Ids
<1>6. DistinctIds(list) => DistinctIds(new)
    BY <1>2, <1>4 DEF DistinctIds
<1>7. \A m \in DOMAIN new : new[m] \in Entries(list)
    BY <1>2, <1>4 DEF Entries
<1> QED
    BY <1>1, <1>3, <1>5, <1>6, <1>7

\* Deduped lists each entry once.
LEMMA DedupedKeeps ==
    ASSUME NEW S, NEW ids \in Seq(S)
    PROVE  Deduped(ids) \in Seq(S) /\ Distinct(Deduped(ids))
<1> DEFINE keep == {i \in DOMAIN ids : \A j \in 1..(i - 1) : ids[j] # ids[i]}
           new == Kept(ids, keep)
<1>1. Deduped(ids) = new
    BY DEF Deduped
<1>2. keep \in SUBSET (DOMAIN ids) /\ \A i \in keep : \A j \in 1..(i - 1) : ids[j] # ids[i]
    OBVIOUS
<1> HIDE DEF keep
<1>3. \A i, j \in keep : ids[i] = ids[j] => i = j
    <2> TAKE i, j \in keep
    <2>1. i \in Nat \ {0} /\ j \in Nat \ {0}
        BY <1>2
    <2>2. i < j => i \in 1..(j - 1)
        BY <2>1
    <2>3. j < i => j \in 1..(i - 1)
        BY <2>1
    <2> QED
        BY <1>2, <2>1, <2>2, <2>3
<1>4. new \in Seq(S)
    BY <1>2, KeptFacts
<1>5. \A l, m \in DOMAIN new : new[l] = new[m] => l = m
    BY <1>2, <1>3, KeptKeeps
<1> QED
    BY <1>1, <1>4, <1>5 DEF Distinct

\* Hiding and showing a browser lists none twice.
LEMMA ShownKeeps ==
    ASSUME NEW hidden \in Seq(Browsers), Distinct(hidden), NEW b \in Browsers,
           NEW enabled \in BOOLEAN
    PROVE  Shown(hidden, b, enabled) \in Seq(Browsers) /\ Distinct(Shown(hidden, b, enabled))
<1>1. CASE enabled
    <2> DEFINE keep == {i \in DOMAIN hidden : hidden[i] # b}
               new == Kept(hidden, keep)
    <2>1. Shown(hidden, b, enabled) = new
        BY <1>1 DEF Shown
    <2>2. keep \in SUBSET (DOMAIN hidden)
        OBVIOUS
    <2> HIDE DEF keep
    <2>3. new \in Seq(Browsers)
        BY <2>2, KeptFacts
    <2>4. \A i, j \in keep : hidden[i] = hidden[j] => i = j
        BY <2>2 DEF Distinct
    <2>5. \A l, m \in DOMAIN new : new[l] = new[m] => l = m
        BY <2>2, <2>4, KeptKeeps
    <2> QED
        BY <2>1, <2>3, <2>5 DEF Distinct
<1>2. CASE ~enabled /\ Contains(hidden, b)
    BY <1>2 DEF Shown
<1>3. CASE ~enabled /\ ~Contains(hidden, b)
    <2>1. Shown(hidden, b, enabled) = Append(hidden, b)
        BY <1>3 DEF Shown
    <2> DEFINE new == Append(hidden, b)
    <2>2. /\ new \in Seq(Browsers) /\ DOMAIN new = 1..(Len(hidden) + 1)
          /\ new[Len(hidden) + 1] = b
          /\ \A i \in 1..Len(hidden) : new[i] = hidden[i]
          /\ DOMAIN hidden = 1..Len(hidden) /\ Len(hidden) \in Nat
        OBVIOUS
    <2> HIDE DEF new
    <2>3. \A i \in DOMAIN new : i \in DOMAIN hidden \/ i = Len(hidden) + 1
        BY <2>2
    <2>4. \A i \in DOMAIN hidden : new[i] = hidden[i] /\ hidden[i] # b
        BY <1>3, <2>2 DEF Contains
    <2>5. Distinct(new)
        BY <2>2, <2>3, <2>4 DEF Distinct
    <2> QED
        BY <2>1, <2>2, <2>5 DEF new
<1> QED
    BY <1>1, <1>2, <1>3

\* Ungrouped rules keep their ids and places.
LEMMA UngroupedKeeps ==
    ASSUME NEW rules \in Seq(Rule), NEW w
    PROVE  /\ Ungrouped(rules, w) \in Seq(Rule)
           /\ DOMAIN Ungrouped(rules, w) = DOMAIN rules
           /\ \A i \in DOMAIN rules : /\ Ungrouped(rules, w)[i].id = rules[i].id
                                      /\ Ungrouped(rules, w)[i].space =
                                             IF rules[i].space = w THEN NoSpace ELSE rules[i].space
<1>1. DOMAIN rules = 1..Len(rules) /\ Len(rules) \in Nat /\ \A i \in DOMAIN rules : rules[i] \in Rule
    OBVIOUS
<1>2. \A r \in Rule : /\ [r EXCEPT !.space = NoSpace] \in Rule
                      /\ [r EXCEPT !.space = NoSpace].id = r.id
                      /\ [r EXCEPT !.space = NoSpace].space = NoSpace
    BY DEF Rule
<1>3. \A i \in DOMAIN rules : Ungrouped(rules, w)[i] =
          IF rules[i].space = w THEN [rules[i] EXCEPT !.space = NoSpace] ELSE rules[i]
    BY DEF Ungrouped
<1>4. Ungrouped(rules, w) \in [1..Len(rules) -> Rule]
    BY <1>1, <1>2, <1>3 DEF Ungrouped
<1>5. Ungrouped(rules, w) \in Seq(Rule)
    BY <1>1, <1>4
<1>6. DOMAIN Ungrouped(rules, w) = DOMAIN rules
    BY DEF Ungrouped
<1>7. ASSUME NEW i \in DOMAIN rules
      PROVE  /\ Ungrouped(rules, w)[i].id = rules[i].id
             /\ Ungrouped(rules, w)[i].space =
                    IF rules[i].space = w THEN NoSpace ELSE rules[i].space
    <2>1. CASE rules[i].space = w
        BY <1>1, <1>2, <1>3, <2>1, ZenonT(60)
    <2>2. CASE rules[i].space # w
        BY <1>3, <2>2
    <2> QED
        BY <2>1, <2>2
<1> QED
    BY <1>5, <1>6, <1>7

-----------------------------------------------------------------------------
(* Documents.                                                              *)

\* A document as the commands keep it: nothing is listed twice, and no rule has
\* an id that was not given out.
Good(d, c) == d \in Doc /\ Clean(d) /\ Ids(d.rules) \subseteq 1..c

\* An edit of one document replaces one part of it.
LEMMA PartReplaced ==
    ASSUME NEW c \in Nat, NEW d, Good(d, c)
    PROVE  /\ \A rules \in Seq(Rule), c2 \in Nat :
                  DistinctIds(rules) /\ Ids(rules) \subseteq 1..c2 =>
                      Good([d EXCEPT !.rules = rules], c2)
           /\ \A spaces \in Seq(Space) :
                  DistinctIds(spaces) => Good([d EXCEPT !.spaces = spaces], c)
           /\ \A customs \in Seq([id : Browsers, by : {"user"}]) :
                  DistinctIds(customs) => Good([d EXCEPT !.customs = customs], c)
           /\ \A hidden \in Seq(Browsers) :
                  Distinct(hidden) => Good([d EXCEPT !.hidden = hidden], c)
           /\ \A b \in Browsers : Good([d EXCEPT !.target = b], c)
           /\ \A on \in BOOLEAN : Good([d EXCEPT !.smart = on], c)
           /\ \A on \in BOOLEAN : Good([d EXCEPT !.login = on], c)
<1> USE DEF Good, Doc, Clean
<1>1. \A rules \in Seq(Rule), c2 \in Nat :
          DistinctIds(rules) /\ Ids(rules) \subseteq 1..c2 =>
              Good([d EXCEPT !.rules = rules], c2)
    OBVIOUS
<1>2. \A spaces \in Seq(Space) :
          DistinctIds(spaces) => Good([d EXCEPT !.spaces = spaces], c)
    OBVIOUS
<1>3. \A customs \in Seq([id : Browsers, by : {"user"}]) :
          DistinctIds(customs) => Good([d EXCEPT !.customs = customs], c)
    OBVIOUS
<1>4. \A hidden \in Seq(Browsers) :
          Distinct(hidden) => Good([d EXCEPT !.hidden = hidden], c)
    OBVIOUS
<1>5. \A b \in Browsers : Good([d EXCEPT !.target = b], c)
    OBVIOUS
<1>6. \A on \in BOOLEAN : Good([d EXCEPT !.smart = on], c)
    OBVIOUS
<1>7. \A on \in BOOLEAN : Good([d EXCEPT !.login = on], c)
    OBVIOUS
<1> QED
    BY <1>1, <1>2, <1>3, <1>4, <1>5, <1>6, <1>7

\* Each rule is in a workspace that exists.
NoneDangles(d) ==
    \A i \in DOMAIN d.rules : d.rules[i].space \in Ids(d.spaces) \cup {NoSpace}

\* Rules that got the next ids.
Fresh(new, c) == new \in Seq(Rule) /\ \A k \in 1..Len(new) : new[k].id = c + k

\* What a command may do to a list of rules, when c ids have been given out.
RulesEdit(old, new, c, c2) ==
    \/ new = old /\ c2 >= c
    \/ \E added \in Seq(Rule) :
           /\ Fresh(added, c) /\ c2 = c + Len(added)
           /\ new = old \o added \/ new = added \o old
    \/ /\ c2 = c
       /\ \/ \E id \in Ids(old) : new = Without(old, id)
          \/ \E item \in Rule : item.id \in Ids(old) /\ new = Put(old, item)
          \/ \E i, j \in DOMAIN old : new = Moved(old, i, j)
          \/ \E w \in Spaces : new = Ungrouped(old, w)

\* Whatever id is to be removed.
LEMMA WithoutEdit ==
    ASSUME NEW old \in Seq(Rule), NEW id, NEW c \in Nat
    PROVE  RulesEdit(old, Without(old, id), c, c)
<1>1. CASE id \in Ids(old)
    BY <1>1 DEF RulesEdit
<1>2. CASE id \notin Ids(old)
    <2> DEFINE keep == {i \in DOMAIN old : old[i].id # id}
    <2>1. keep = DOMAIN old
        BY <1>2 DEF Ids
    <2>2. Without(old, id) = Kept(old, DOMAIN old)
        BY <2>1 DEF Without
    <2>3. Without(old, id) = old
        BY <2>2, AllKept
    <2> QED
        BY <2>3 DEF RulesEdit
<1> QED
    BY <1>1, <1>2

\* No id is given out twice, so nothing is listed twice.
LEMMA RulesEditKeeps ==
    ASSUME NEW old \in Seq(Rule), NEW new, NEW c \in Nat, NEW c2 \in Nat,
           DistinctIds(old), Ids(old) \subseteq 1..c, RulesEdit(old, new, c, c2)
    PROVE  /\ new \in Seq(Rule) /\ DistinctIds(new) /\ Ids(new) \subseteq 1..c2 /\ c <= c2
<1>1. CASE new = old /\ c2 >= c
    BY <1>1
<1>2. ASSUME NEW added \in Seq(Rule), Fresh(added, c), c2 = c + Len(added),
             new = old \o added \/ new = added \o old
      PROVE  /\ new \in Seq(Rule) /\ DistinctIds(new) /\ Ids(new) \subseteq 1..c2 /\ c <= c2
    <2>1. /\ Len(old) \in Nat /\ Len(added) \in Nat
          /\ DOMAIN old = 1..Len(old) /\ DOMAIN added = 1..Len(added)
        OBVIOUS
    <2>2. \A i \in 1..Len(old) : old[i].id \in 1..c
        BY <2>1 DEF Ids
    <2>3. \A k \in 1..Len(added) : added[k].id = c + k
        BY <1>2 DEF Fresh
    <2>4. \A i, j \in 1..Len(old) : old[i].id = old[j].id => i = j
        BY <2>1 DEF DistinctIds
    <2>5. CASE new = old \o added
        <3>1. /\ new \in Seq(Rule) /\ Len(new) = Len(old) + Len(added)
              /\ \A i \in 1..Len(old) + Len(added) :
                    new[i] = IF i <= Len(old) THEN old[i] ELSE added[i - Len(old)]
            BY <2>5, ConcatProperties
        <3>2. \A i \in 1..Len(old) + Len(added) :
                  IF i <= Len(old) THEN i \in 1..Len(old)
                  ELSE i - Len(old) \in 1..Len(added)
            BY <2>1
        <3>3. \A i \in 1..Len(new) :
                  \/ i \in 1..Len(old) /\ new[i].id = old[i].id
                  \/ i - Len(old) \in 1..Len(added) /\ new[i].id = c + (i - Len(old))
            BY <3>1, <3>2, <2>3
        <3>4. DOMAIN new = 1..Len(new)
            BY <3>1
        <3>5. ASSUME NEW i \in 1..Len(new), NEW j \in 1..Len(new), new[i].id = new[j].id
              PROVE  i = j
            <4>1. CASE i \in 1..Len(old) /\ new[i].id = old[i].id
                <5>1. CASE j \in 1..Len(old) /\ new[j].id = old[j].id
                    BY <2>4, <3>5, <4>1, <5>1
                <5>2. CASE j - Len(old) \in 1..Len(added) /\ new[j].id = c + (j - Len(old))
                    <6>1. new[i].id \in 1..c
                        BY <2>2, <4>1
                    <6> QED
                        BY <2>1, <3>5, <5>2, <6>1
                <5> QED
                    BY <3>3, <5>1, <5>2
            <4>2. CASE i - Len(old) \in 1..Len(added) /\ new[i].id = c + (i - Len(old))
                <5>1. CASE j \in 1..Len(old) /\ new[j].id = old[j].id
                    <6>1. new[j].id \in 1..c
                        BY <2>2, <5>1
                    <6> QED
                        BY <2>1, <3>5, <4>2, <6>1
                <5>2. CASE j - Len(old) \in 1..Len(added) /\ new[j].id = c + (j - Len(old))
                    <6>1. c + (i - Len(old)) = c + (j - Len(old))
                        BY <3>5, <4>2, <5>2
                    <6>2. i \in Int /\ j \in Int /\ Len(old) \in Int
                        BY <2>1
                    <6> HIDE <2>1, <2>3, <3>1
                    <6> QED
                        BY <6>1, <6>2
                <5> QED
                    BY <3>3, <5>1, <5>2
            <4> QED
                BY <3>3, <4>1, <4>2
        <3>5a. DistinctIds(new)
            BY <3>4, <3>5 DEF DistinctIds
        <3>6. \A i \in 1..Len(new) : new[i].id \in 1..c2
            BY <1>2, <2>1, <2>2, <3>3, SMTT(60)
        <3>7. Ids(new) \subseteq 1..c2
            BY <3>4, <3>6 DEF Ids
        <3> QED
            BY <1>2, <2>1, <3>1, <3>5a, <3>7
    <2>6. CASE new = added \o old
        <3>1. /\ new \in Seq(Rule) /\ Len(new) = Len(added) + Len(old)
              /\ \A i \in 1..Len(added) + Len(old) :
                    new[i] = IF i <= Len(added) THEN added[i] ELSE old[i - Len(added)]
            BY <2>6, ConcatProperties
        <3>2. \A i \in 1..Len(added) + Len(old) :
                  IF i <= Len(added) THEN i \in 1..Len(added)
                  ELSE i - Len(added) \in 1..Len(old)
            BY <2>1
        <3>3. \A i \in 1..Len(new) :
                  \/ i \in 1..Len(added) /\ new[i].id = c + i
                  \/ i - Len(added) \in 1..Len(old) /\ new[i].id = old[i - Len(added)].id
            BY <3>1, <3>2, <2>3
        <3>4. DOMAIN new = 1..Len(new)
            BY <3>1
        <3>5. ASSUME NEW i \in DOMAIN new, NEW j \in DOMAIN new, new[i].id = new[j].id
              PROVE  i = j
            <4>1. i \in Nat /\ j \in Nat
                BY <3>4
            <4>2. CASE i \in 1..Len(added) /\ j \in 1..Len(added)
                BY <2>1, <3>1, <3>5, <2>3, <4>2
            <4>3. CASE i \notin 1..Len(added) /\ j \notin 1..Len(added)
                <5>1. /\ i - Len(added) \in 1..Len(old) /\ j - Len(added) \in 1..Len(old)
                      /\ old[i - Len(added)].id = old[j - Len(added)].id
                    BY <3>3, <3>4, <3>5, <4>3
                <5>2. i - Len(added) = j - Len(added)
                    BY <2>4, <5>1
                <5> QED
                    BY <2>1, <4>1, <5>2
            <4>4. CASE ~(i \in 1..Len(added) <=> j \in 1..Len(added))
                <5>1. \A k \in 1..Len(added), l \in 1..Len(old) : c + k # old[l].id
                    BY <2>1, <2>2
                <5>2. CASE i \in 1..Len(added) /\ j \notin 1..Len(added)
                    <6>1. new[i].id = c + i
                        BY <3>1, <2>1, <2>3, <5>2
                    <6>2. j - Len(added) \in 1..Len(old) /\ new[j].id = old[j - Len(added)].id
                        BY <3>3, <3>4, <5>2
                    <6> QED
                        BY <3>5, <5>1, <5>2, <6>1, <6>2
                <5>3. CASE j \in 1..Len(added) /\ i \notin 1..Len(added)
                    <6>1. new[j].id = c + j
                        BY <3>1, <2>1, <2>3, <5>3
                    <6>2. i - Len(added) \in 1..Len(old) /\ new[i].id = old[i - Len(added)].id
                        BY <3>3, <3>4, <5>3
                    <6> QED
                        BY <3>5, <5>1, <5>3, <6>1, <6>2
                <5> QED
                    BY <4>4, <5>2, <5>3
            <4> QED
                BY <4>2, <4>3, <4>4
        <3>6. ASSUME NEW i \in 1..Len(new)
              PROVE  new[i].id \in 1..c2
            <4>1. CASE i \in 1..Len(added) /\ new[i].id = c + i
                BY <1>2, <2>1, <4>1
            <4>2. CASE i - Len(added) \in 1..Len(old) /\ new[i].id = old[i - Len(added)].id
                <5>1. new[i].id \in 1..c
                    BY <2>2, <4>2
                <5> QED
                    BY <1>2, <2>1, <5>1
            <4> QED
                BY <3>3, <4>1, <4>2
        <3>7. Ids(new) \subseteq 1..c2
            BY <3>4, <3>6 DEF Ids
        <3> QED
            BY <1>2, <2>1, <3>1, <3>5, <3>7 DEF DistinctIds
    <2> QED
        BY <1>2, <2>5, <2>6
<1>3. ASSUME c2 = c, NEW id \in Ids(old), new = Without(old, id)
      PROVE  /\ new \in Seq(Rule) /\ DistinctIds(new) /\ Ids(new) \subseteq 1..c2 /\ c <= c2
    BY <1>3, WithoutKeeps
<1>4. ASSUME c2 = c, NEW item \in Rule, item.id \in Ids(old), new = Put(old, item)
      PROVE  /\ new \in Seq(Rule) /\ DistinctIds(new) /\ Ids(new) \subseteq 1..c2 /\ c <= c2
    BY <1>4, PutKeeps
<1>5. ASSUME c2 = c, NEW i \in DOMAIN old, NEW j \in DOMAIN old, new = Moved(old, i, j)
      PROVE  /\ new \in Seq(Rule) /\ DistinctIds(new) /\ Ids(new) \subseteq 1..c2 /\ c <= c2
    <2>1. new \in Seq(Rule) /\ DistinctIds(new) /\ \A k \in DOMAIN new : new[k] \in Entries(old)
        BY <1>5, MovedIs, MovedKeeps
    <2>2. Ids(new) \subseteq Ids(old)
        BY <2>1 DEF Ids, Entries
    <2> QED
        BY <1>5, <2>1, <2>2
<1>6. ASSUME c2 = c, NEW w \in Spaces, new = Ungrouped(old, w)
      PROVE  /\ new \in Seq(Rule) /\ DistinctIds(new) /\ Ids(new) \subseteq 1..c2 /\ c <= c2
    <2>1. /\ new \in Seq(Rule) /\ DOMAIN new = DOMAIN old
          /\ \A i \in DOMAIN old : new[i].id = old[i].id
        BY <1>6, UngroupedKeeps
    <2>2. Ids(new) = Ids(old) /\ DistinctIds(new)
        BY <2>1 DEF Ids, DistinctIds
    <2> QED
        BY <1>6, <2>1, <2>2
<1> QED
    BY <1>1, <1>2, <1>3, <1>4, <1>5, <1>6 DEF RulesEdit

-----------------------------------------------------------------------------
(* Edits of one document.                                                  *)

\* d is what an edit makes of src.
Edited(src, d, c, c2) ==
    /\ Good(d, c2)
    /\ RulesEdit(src.rules, d.rules, c, c2)
    /\ NoneDangles(src) => NoneDangles(d)

\* What is known of a document and its lists.
LEMMA GoodParts ==
    ASSUME NEW c, NEW d, Good(d, c)
    PROVE  /\ d.rules \in Seq(Rule) /\ DistinctIds(d.rules) /\ Ids(d.rules) \subseteq 1..c
           /\ d.spaces \in Seq(Space) /\ DistinctIds(d.spaces)
           /\ d.customs \in Seq([id : Browsers, by : {"user"}]) /\ DistinctIds(d.customs)
           /\ d.hidden \in Seq(Browsers) /\ Distinct(d.hidden)
           /\ {d.smart, d.login} \subseteq BOOLEAN
           /\ d.orders \in [Browsers -> Seq(ProfileIds)]
           /\ Ids(d.spaces) \subseteq Spaces
<1>1. d.spaces \in Seq(Space)
    BY DEF Good, Doc
<1>2. \A i \in DOMAIN d.spaces : d.spaces[i] \in Space
    BY <1>1
<1>3. Ids(d.spaces) \subseteq Spaces
    BY <1>2 DEF Ids, Space
<1> QED
    BY <1>1, <1>3 DEF Good, Doc, Clean

\* The list of rules is replaced.
LEMMA RulesEdited ==
    ASSUME NEW c \in Nat, NEW c2 \in Nat, NEW src, Good(src, c), NEW rules,
           RulesEdit(src.rules, rules, c, c2),
           \A i \in DOMAIN rules : rules[i] \in Entries(src.rules)
                                    \/ rules[i].space \in Ids(src.spaces) \cup {NoSpace}
    PROVE  Edited(src, [src EXCEPT !.rules = rules], c, c2)
<1> DEFINE d == [src EXCEPT !.rules = rules]
<1>1. rules \in Seq(Rule) /\ DistinctIds(rules) /\ Ids(rules) \subseteq 1..c2
    <2>1. src.rules \in Seq(Rule) /\ DistinctIds(src.rules) /\ Ids(src.rules) \subseteq 1..c
        BY GoodParts
    <2> QED
        BY <2>1, RulesEditKeeps
<1>2. Good(d, c2)
    BY <1>1, PartReplaced
<1>3. d.rules = rules /\ d.spaces = src.spaces
    BY DEF Good, Doc
<1> HIDE DEF d
<1>4. NoneDangles(src) => NoneDangles(d)
    BY <1>3 DEF NoneDangles, Entries
<1> QED
    BY <1>2, <1>3, <1>4 DEF Edited, d

\* Something else is replaced.
LEMMA OtherEdited ==
    ASSUME NEW c \in Nat, NEW src, NEW d, Good(d, c), d.rules = src.rules,
           Ids(src.spaces) \subseteq Ids(d.spaces)
    PROVE  Edited(src, d, c, c)
BY DEF Edited, RulesEdit, NoneDangles

\* A workspace is added or switched on or off.
LEMMA SpaceSetEdited ==
    ASSUME NEW c \in Nat, NEW src, Good(src, c), NEW w \in Spaces, NEW on \in BOOLEAN
    PROVE  Edited(src, SpaceSet(src, w, on), c, c)
<1> DEFINE s == [id |-> w, on |-> on]
           new == Put(src.spaces, s)
           d == [src EXCEPT !.spaces = new]
<1>1. s \in Space /\ src.spaces \in Seq(Space) /\ DistinctIds(src.spaces)
    BY GoodParts DEF Space
<1> HIDE DEF s
<1>2. new \in Seq(Space) /\ DistinctIds(new) /\ Ids(src.spaces) \subseteq Ids(new)
    BY <1>1, PutKeeps
<1> HIDE DEF new
<1>3. Good(d, c)
    BY <1>2, PartReplaced
<1>4. d.rules = src.rules /\ d.spaces = new
    BY DEF Good, Doc
<1> HIDE DEF d
<1>5. Edited(src, d, c, c)
    BY <1>2, <1>3, <1>4, OtherEdited
<1> QED
    BY <1>5 DEF SpaceSet, d, new, s

\* A workspace is deleted, and its rules leave it.
LEMMA WithoutSpaceEdited ==
    ASSUME NEW c \in Nat, NEW src, Good(src, c), NEW w \in Spaces
    PROVE  Edited(src, WithoutSpace(src, w), c, c)
<1> DEFINE spaces == Without(src.spaces, w)
           rules == Ungrouped(src.rules, w)
           mid == [src EXCEPT !.spaces = spaces]
           d == [mid EXCEPT !.rules = rules]
<1>1. src.spaces \in Seq(Space) /\ src.rules \in Seq(Rule) /\ w \in Spaces
      /\ DistinctIds(src.rules) /\ Ids(src.rules) \subseteq 1..c /\ DistinctIds(src.spaces)
    BY GoodParts
<1>2. spaces \in Seq(Space) /\ DistinctIds(spaces) /\ Ids(spaces) = Ids(src.spaces) \ {w}
    BY <1>1, WithoutKeeps
<1>3. /\ DOMAIN rules = DOMAIN src.rules
      /\ \A i \in DOMAIN src.rules :
             rules[i].space = IF src.rules[i].space = w THEN NoSpace ELSE src.rules[i].space
    BY <1>1, UngroupedKeeps
<1>4. RulesEdit(src.rules, rules, c, c)
    BY <1>1 DEF RulesEdit
<1>5. rules \in Seq(Rule) /\ DistinctIds(rules) /\ Ids(rules) \subseteq 1..c
    BY <1>1, <1>4, RulesEditKeeps
<1> HIDE DEF spaces, rules
<1>6. Good(mid, c)
    BY <1>2, PartReplaced
<1>7. mid.spaces = spaces /\ mid \in Doc
    BY <1>6 DEF Good, Doc
<1>8. Good(d, c) /\ d.rules = rules /\ d.spaces = spaces
    <2> HIDE DEF mid
    <2>1. Good(d, c)
        BY <1>5, <1>6, PartReplaced
    <2> QED
        BY <1>7, <2>1 DEF Doc
<1>9. d = WithoutSpace(src, w)
    BY DEF WithoutSpace, Good, Doc, spaces, rules
<1> HIDE DEF d
<1>10. NoneDangles(src) => NoneDangles(d)
    BY <1>2, <1>3, <1>8 DEF NoneDangles
<1> QED
    BY <1>4, <1>8, <1>9, <1>10 DEF Edited

\* The list of browsers a user added, and the one of those hidden.
LEMMA ListsEdited ==
    ASSUME NEW c \in Nat, NEW src, Good(src, c)
    PROVE  /\ \A b \in Browsers :
                  Edited(src, [src EXCEPT !.customs = Put(src.customs, [id |-> b, by |-> "user"])],
                         c, c)
           /\ \A b :
                  Edited(src, [src EXCEPT !.customs = Without(src.customs, b)], c, c)
           /\ \A b \in Browsers, enabled \in BOOLEAN :
                  Edited(src, [src EXCEPT !.hidden = Shown(src.hidden, b, enabled)], c, c)
<1> DEFINE Custom == [id : Browsers, by : {"user"}]
<1>1. /\ src.customs \in Seq(Custom) /\ DistinctIds(src.customs)
      /\ src.hidden \in Seq(Browsers) /\ Distinct(src.hidden)
    BY GoodParts
<1>2. ASSUME NEW new \in Seq(Custom), DistinctIds(new)
      PROVE  Edited(src, [src EXCEPT !.customs = new], c, c)
    <2> DEFINE d == [src EXCEPT !.customs = new]
    <2>1. Good(d, c)
        BY <1>2, PartReplaced
    <2>2. d.rules = src.rules /\ d.spaces = src.spaces
        BY DEF Good, Doc
    <2> HIDE DEF d
    <2>3. Edited(src, d, c, c)
        BY <2>1, <2>2, OtherEdited
    <2> QED
        BY <2>3 DEF d
<1>3. ASSUME NEW new \in Seq(Browsers), Distinct(new)
      PROVE  Edited(src, [src EXCEPT !.hidden = new], c, c)
    <2> DEFINE d == [src EXCEPT !.hidden = new]
    <2>1. Good(d, c)
        BY <1>3, PartReplaced
    <2>2. d.rules = src.rules /\ d.spaces = src.spaces
        BY DEF Good, Doc
    <2> HIDE DEF d
    <2>3. Edited(src, d, c, c)
        BY <2>1, <2>2, OtherEdited
    <2> QED
        BY <2>3 DEF d
<1>4. ASSUME NEW b \in Browsers
      PROVE  Edited(src, [src EXCEPT !.customs = Put(src.customs, [id |-> b, by |-> "user"])], c, c)
    <2>1. [id |-> b, by |-> "user"] \in Custom
        OBVIOUS
    <2>2. /\ Put(src.customs, [id |-> b, by |-> "user"]) \in Seq(Custom)
          /\ DistinctIds(Put(src.customs, [id |-> b, by |-> "user"]))
        BY <1>1, <2>1, PutKeeps
    <2> QED
        BY <1>2, <2>2
<1>5. ASSUME NEW b
      PROVE  Edited(src, [src EXCEPT !.customs = Without(src.customs, b)], c, c)
    <2>1. Without(src.customs, b) \in Seq(Custom) /\ DistinctIds(Without(src.customs, b))
        BY <1>1, WithoutKeeps
    <2> QED
        BY <1>2, <2>1
<1>6. ASSUME NEW b \in Browsers, NEW enabled \in BOOLEAN
      PROVE  Edited(src, [src EXCEPT !.hidden = Shown(src.hidden, b, enabled)], c, c)
    <2>1. /\ Shown(src.hidden, b, enabled) \in Seq(Browsers)
          /\ Distinct(Shown(src.hidden, b, enabled))
        BY <1>1, ShownKeeps
    <2> QED
        BY <1>3, <2>1
<1> QED
    BY <1>4, <1>5, <1>6

\* The saved order of the profiles of a browser.
LEMMA OrderEdited ==
    ASSUME NEW c \in Nat, NEW src, Good(src, c), NEW b \in Browsers, NEW order \in Orders
    PROVE  Edited(src, [src EXCEPT !.orders[b] = Deduped(order)], c, c)
<1> DEFINE new == [src.orders EXCEPT ![b] = Deduped(order)]
           d == [src EXCEPT !.orders[b] = Deduped(order)]
<1>1. order \in Seq(ProfileIds)
    BY EditsAssumption
<1>2. Deduped(order) \in Seq(ProfileIds) /\ Distinct(Deduped(order))
    BY <1>1, DedupedKeeps
<1>3. /\ new \in [Browsers -> Seq(ProfileIds)]
      /\ \A a \in Browsers : Distinct(new[a])
    BY <1>2 DEF Good, Doc, Clean
<1> HIDE DEF new
<1>4. d = [src EXCEPT !.orders = new]
    BY DEF new, Good, Doc
<1> HIDE DEF d
<1>5. Good(d, c) /\ d.rules = src.rules /\ d.spaces = src.spaces
    BY <1>3, <1>4 DEF Good, Doc, Clean
<1>6. Edited(src, d, c, c)
    BY <1>5, OtherEdited
<1> QED
    BY <1>6 DEF d

\* The settings with one value.
LEMMA SettingEdited ==
    ASSUME NEW c \in Nat, NEW src, Good(src, c)
    PROVE  /\ \A b \in Browsers : Edited(src, [src EXCEPT !.target = b], c, c)
           /\ \A on \in BOOLEAN : Edited(src, [src EXCEPT !.smart = on], c, c)
           /\ \A on \in BOOLEAN : Edited(src, [src EXCEPT !.login = on], c, c)
<1>1. ASSUME NEW b \in Browsers
      PROVE  Edited(src, [src EXCEPT !.target = b], c, c)
    <2> DEFINE d == [src EXCEPT !.target = b]
    <2>1. Good(d, c)
        BY PartReplaced
    <2>2. d.rules = src.rules /\ d.spaces = src.spaces
        BY DEF Good, Doc
    <2> HIDE DEF d
    <2>3. Edited(src, d, c, c)
        BY <2>1, <2>2, OtherEdited
    <2> QED
        BY <2>3 DEF d
<1>2. ASSUME NEW on \in BOOLEAN
      PROVE  Edited(src, [src EXCEPT !.smart = on], c, c)
    <2> DEFINE d == [src EXCEPT !.smart = on]
    <2>1. Good(d, c)
        BY PartReplaced
    <2>2. d.rules = src.rules /\ d.spaces = src.spaces
        BY DEF Good, Doc
    <2> HIDE DEF d
    <2>3. Edited(src, d, c, c)
        BY <2>1, <2>2, OtherEdited
    <2> QED
        BY <2>3 DEF d
<1>3. ASSUME NEW on \in BOOLEAN
      PROVE  Edited(src, [src EXCEPT !.login = on], c, c)
    <2> DEFINE d == [src EXCEPT !.login = on]
    <2>1. Good(d, c)
        BY PartReplaced
    <2>2. d.rules = src.rules /\ d.spaces = src.spaces
        BY DEF Good, Doc
    <2> HIDE DEF d
    <2>3. Edited(src, d, c, c)
        BY <2>1, <2>2, OtherEdited
    <2> QED
        BY <2>3 DEF d
<1> QED
    BY <1>1, <1>2, <1>3

-----------------------------------------------------------------------------
(* Commands.                                                               *)

\* The inductive invariant: every copy of the document is good.
EditsInv ==
    /\ TypeOK
    /\ Good(disk, created) /\ Good(gui, created) /\ Good(page, created)

\* A write of d, which may fail.
Wrote(d) ==
    /\ gui' \in {gui, d} /\ page' = page /\ guiAt' = guiAt
    /\ disk' \in {disk, d}
    /\ {event', plist', blind', loose', loginEdited'} \subseteq BOOLEAN
    /\ edits' \in 0..MaxEdits
    /\ loose \/ blind' => loose'

\* What is promised of d: all of it only if d was made from the file.
Promised(d) ==
    /\ created' \in 0..MaxRules /\ created' >= created /\ Good(d, created')
    /\ ~blind' => RulesEdit(disk.rules, d.rules, created, created')
    /\ ~loose' => (NoneDangles(disk) => NoneDangles(d))

\* Some document is written, as promised.
Done == \E d : Wrote(d) /\ Promised(d)

\* The bounds are numbers.
LEMMA CreatedIsNat == TypeOK => created \in Nat /\ MaxRules \in Nat /\ MaxEdits \in Nat
BY EditsAssumption DEF TypeOK

\* Every way to write a document leaves the rest in order.
LEMMA WriteIsWrote ==
    ASSUME EditsInv, NEW d, NEW b \in BOOLEAN, NEW l \in BOOLEAN,
           \/ ReplaceConfig(d, b) /\ UNCHANGED <<page, guiAt, plist>>
           \/ WriteFile(d, b, l)
    PROVE  Wrote(d) /\ blind' = b /\ (l /\ WriteFile(d, b, l) => loose')
<1> USE DEF ReplaceConfig, WriteFile, Made, EditsInv, TypeOK
<1>1. gui' \in {gui, d} /\ page' = page /\ guiAt' = guiAt /\ disk' \in {disk, d}
    OBVIOUS
<1>2. event' \in BOOLEAN
    OBVIOUS
<1>3. plist' \in BOOLEAN
    OBVIOUS
<1>4. blind' \in BOOLEAN /\ blind' = b
    OBVIOUS
<1>5. loose' \in BOOLEAN
    OBVIOUS
<1>6. loginEdited' \in BOOLEAN
    OBVIOUS
<1>7. edits' \in 0..MaxEdits
    BY CreatedIsNat
<1>8. (loose \/ blind' => loose') /\ (l /\ WriteFile(d, b, l) => loose')
    OBVIOUS
<1> QED
    BY <1>1, <1>2, <1>3, <1>4, <1>5, <1>6, <1>7, <1>8 DEF Wrote

\* A GUI command that edits the document of the store.
LEMMA CommandDone ==
    ASSUME EditsInv, NEW d, Command(d), created' \in 0..MaxRules, created' >= created,
           Edited(gui, d, created, created')
    PROVE  Done
<1>1. CASE gui # disk
    <2>1. ReplaceConfig(d, TRUE) /\ UNCHANGED <<page, guiAt, plist>>
        BY <1>1 DEF Command, ReplaceConfig, Made
    <2>2. Wrote(d) /\ blind'
        BY <2>1, WriteIsWrote
    <2>3. Promised(d)
        BY <2>2 DEF Promised, Edited, Wrote
    <2> QED
        BY <2>2, <2>3 DEF Done
<1>2. CASE gui = disk
    <2>1. ReplaceConfig(d, FALSE) /\ UNCHANGED <<page, guiAt, plist>>
        BY <1>2 DEF Command, ReplaceConfig, Made
    <2>2. Wrote(d)
        BY <2>1, WriteIsWrote
    <2>3. Promised(d)
        BY <1>2 DEF Promised, Edited
    <2> QED
        BY <2>2, <2>3 DEF Done
<1> QED
    BY <1>1, <1>2

\* A page sends a document it made from its own copy.
LEMMA WholeDone ==
    ASSUME EditsInv, NEW d, PageCommand(d, page # gui), UNCHANGED created,
           Edited(page, d, created, created)
    PROVE  Done
<1>0. created \in 0..MaxRules /\ created >= created
    BY CreatedIsNat DEF EditsInv, TypeOK
<1>1. CASE page # gui \/ gui # disk
    <2>1. ReplaceConfig(d, TRUE) /\ UNCHANGED <<page, guiAt, plist>>
        BY <1>1 DEF PageCommand, ReplaceConfig, Made
    <2>2. Wrote(d) /\ blind'
        BY <2>1, WriteIsWrote
    <2>3. Promised(d)
        BY <1>0, <2>2 DEF Promised, Edited, Wrote
    <2> QED
        BY <2>2, <2>3 DEF Done
<1>2. CASE page = gui /\ gui = disk
    <2>1. ReplaceConfig(d, FALSE) /\ UNCHANGED <<page, guiAt, plist>>
        BY <1>2 DEF PageCommand, ReplaceConfig, Made
    <2>2. Wrote(d)
        BY <2>1, WriteIsWrote
    <2>3. Promised(d)
        BY <1>0, <1>2 DEF Promised, Edited
    <2> QED
        BY <2>2, <2>3 DEF Done
<1> QED
    BY <1>1, <1>2

\* A page sends a rule, new or changed.
LEMMA PutDone ==
    ASSUME EditsInv, NEW item \in Rule, NEW stale \in BOOLEAN,
           PageCommand([gui EXCEPT !.rules = Put(gui.rules, item)], stale),
           created' \in 0..MaxRules, created' >= created, item.id \in 1..created',
           ~stale => /\ item.space \in Ids(gui.spaces) \cup {NoSpace}
                     /\ RulesEdit(gui.rules, Put(gui.rules, item), created, created')
    PROVE  Done
<1> DEFINE new == Put(gui.rules, item)
           d == [gui EXCEPT !.rules = new]
<1>1. /\ gui.rules \in Seq(Rule) /\ DistinctIds(gui.rules) /\ Ids(gui.rules) \subseteq 1..created
      /\ Good(gui, created) /\ created \in Nat /\ created' \in Nat
    BY GoodParts, CreatedIsNat DEF EditsInv
<1>2. /\ new \in Seq(Rule) /\ DistinctIds(new)
      /\ Ids(new) = Ids(gui.rules) \cup {item.id}
      /\ \A i \in DOMAIN new : new[i] = item \/ new[i] \in Entries(gui.rules)
    BY <1>1, PutKeeps
<1> HIDE DEF new
<1>3. Ids(new) \subseteq 1..created'
    BY <1>1, <1>2
<1>4. Good(d, created')
    BY <1>1, <1>2, <1>3, PartReplaced
<1>5. d.rules = new /\ d.spaces = gui.spaces
    BY <1>1 DEF Good, Doc
<1>6. PageCommand(d, stale)
    BY DEF new
<1> HIDE DEF d
<1>7. ~stale /\ NoneDangles(gui) => NoneDangles(d)
    BY <1>2, <1>5 DEF NoneDangles, Entries
<1>8. CASE stale \/ gui # disk
    <2>1. ReplaceConfig(d, TRUE) /\ UNCHANGED <<page, guiAt, plist>>
        BY <1>6, <1>8 DEF PageCommand, ReplaceConfig, Made
    <2>2. Wrote(d) /\ blind'
        BY <2>1, WriteIsWrote
    <2>3. Promised(d)
        BY <1>4, <2>2 DEF Promised, Wrote
    <2> QED
        BY <2>2, <2>3 DEF Done
<1>9. CASE ~stale /\ gui = disk
    <2>1. ReplaceConfig(d, FALSE) /\ UNCHANGED <<page, guiAt, plist>>
        BY <1>6, <1>9 DEF PageCommand, ReplaceConfig, Made
    <2>2. Wrote(d)
        BY <2>1, WriteIsWrote
    <2>3. Promised(d)
        BY <1>4, <1>5, <1>7, <1>9 DEF Promised, new
    <2> QED
        BY <2>2, <2>3 DEF Done
<1> QED
    BY <1>8, <1>9

\* A subcommand of lpt.
LEMMA LocalDone ==
    ASSUME EditsInv, NEW d, MutateLocal(d), UNCHANGED created,
           Edited(disk, d, created, created)
    PROVE  Done
<1>1. Wrote(d)
    BY WriteIsWrote DEF MutateLocal
<1>2. Promised(d)
    BY CreatedIsNat DEF Promised, Edited, EditsInv, TypeOK
<1> QED
    BY <1>1, <1>2 DEF Done

\* A document that comes from elsewhere.
LEMMA BroughtDone ==
    ASSUME EditsInv, \A d \in Brought : Clean(d), ImportConfig \/ ConfigImport
    PROVE  Done
<1>1. PICK d \in Brought : /\ ToSet(d.rules) \subseteq {r \in Rule : r.id <= created}
                           /\ \/ ReplaceConfig(d, TRUE) /\ UNCHANGED <<page, guiAt, plist>>
                              \/ WriteFile(d, TRUE, FALSE)
    BY DEF ImportConfig, ConfigImport
<1>2. Wrote(d) /\ blind'
    BY <1>1, WriteIsWrote
<1>3. UNCHANGED created
    BY DEF ImportConfig, ConfigImport
<1>4. d \in Doc
    BY EditsAssumption
<1>5. \A i \in DOMAIN d.rules : d.rules[i] \in Rule /\ d.rules[i].id <= created
    BY <1>1 DEF ToSet
<1>6. Ids(d.rules) \subseteq 1..created
    BY <1>5, CreatedIsNat DEF Ids, Rule, EditsInv
<1>7. Good(d, created)
    BY <1>4, <1>6 DEF Good
<1>8. Promised(d)
    BY <1>2, <1>3, <1>7, CreatedIsNat DEF Promised, EditsInv, TypeOK, Wrote
<1> QED
    BY <1>2, <1>8 DEF Done

\* The commands of the GUI that change the list of rules.
LEMMA RuleCommandsDone ==
    ASSUME EditsInv,
           NewRule \/ RuleUpsert \/ RuleDelete \/ CommitReorder \/ FinishOnboarding
    PROVE  Done
<1>1. /\ created \in Nat /\ created \in 0..MaxRules
      /\ gui.rules \in Seq(Rule) /\ page.rules \in Seq(Rule)
      /\ Ids(gui.rules) \subseteq 1..created /\ Ids(page.rules) \subseteq 1..created
      /\ Ids(page.spaces) \subseteq Spaces
      /\ Good(gui, created) /\ Good(page, created)
    BY GoodParts, CreatedIsNat DEF EditsInv, TypeOK
<1>2. CASE NewRule
    <2>1. PICK w \in Ids(page.spaces) \cup {NoSpace} :
              PageCommand([gui EXCEPT !.rules =
                  Put(gui.rules, [id |-> created + 1, on |-> TRUE, space |-> w])],
                  w \notin Ids(gui.spaces) \cup {NoSpace})
        BY <1>2 DEF NewRule
    <2> DEFINE item == [id |-> created + 1, on |-> TRUE, space |-> w]
    <2>2. created' = created + 1 /\ created' \in 0..MaxRules /\ created' >= created
        BY <1>1, <1>2, CreatedIsNat DEF NewRule, EditsInv
    <2>3. item \in Rule /\ item.id = created + 1 /\ item.space = w
        BY <1>1, <2>2, CreatedIsNat DEF Rule, EditsInv
    <2>4. PageCommand([gui EXCEPT !.rules = Put(gui.rules, item)],
                      w \notin Ids(gui.spaces) \cup {NoSpace})
        BY <2>1
    <2> HIDE DEF item
    <2>5. Put(gui.rules, item) = Append(gui.rules, item)
        <3>1. item.id \notin Ids(gui.rules)
            BY <1>1, <2>3
        <3> QED
            BY <3>1 DEF Put
    <2>6. RulesEdit(gui.rules, Put(gui.rules, item), created, created')
        <3>1. <<item>> \in Seq(Rule) /\ Len(<<item>>) = 1 /\ <<item>>[1] = item
            BY <2>3
        <3>2. Fresh(<<item>>, created)
            BY <2>3, <3>1 DEF Fresh
        <3>3. Append(gui.rules, item) = gui.rules \o <<item>>
            BY <1>1, <2>3
        <3> QED
            BY <2>2, <2>5, <3>1, <3>2, <3>3 DEF RulesEdit
    <2>7. item.id \in 1..created'
        BY <1>1, <2>2, <2>3
    <2> DEFINE d == [gui EXCEPT !.rules = Put(gui.rules, item)]
    <2>8. CASE w \notin Ids(gui.spaces) \cup {NoSpace}
        <3>1. PageCommand(d, TRUE)
            BY <2>4, <2>8 DEF PageCommand, ReplaceConfig, Made
        <3> QED
            BY <2>2, <2>3, <2>7, <3>1, PutDone
    <2>9. CASE w \in Ids(gui.spaces) \cup {NoSpace}
        <3>1. PageCommand(d, FALSE)
            BY <2>4, <2>9 DEF PageCommand, ReplaceConfig, Made
        <3> QED
            BY <2>2, <2>3, <2>6, <2>7, <2>9, <3>1, PutDone
    <2> QED
        BY <2>8, <2>9
<1>3. CASE RuleUpsert
    <2>1. PICK i \in DOMAIN page.rules, on \in BOOLEAN, w \in Ids(page.spaces) \cup {NoSpace} :
              PageCommand([gui EXCEPT !.rules =
                      Put(gui.rules, [page.rules[i] EXCEPT !.on = on, !.space = w])],
                  \/ page.rules[i] \notin ToSet(gui.rules)
                  \/ w \notin Ids(gui.spaces) \cup {NoSpace})
        BY <1>3, ZenonT(60) DEF RuleUpsert
    <2> DEFINE item == [page.rules[i] EXCEPT !.on = on, !.space = w]
               stale == \/ page.rules[i] \notin ToSet(gui.rules)
                        \/ w \notin Ids(gui.spaces) \cup {NoSpace}
    <2>2. created' = created
        BY <1>3 DEF RuleUpsert
    <2>3. page.rules[i] \in Rule
        BY <1>1
    <2>4. item \in Rule /\ item.id = page.rules[i].id /\ item.space = w
        BY <1>1, <2>3 DEF Rule
    <2>5. PageCommand([gui EXCEPT !.rules = Put(gui.rules, item)], stale)
        BY <2>1
    <2> HIDE DEF item
    <2>6. item.id \in 1..created'
        BY <1>1, <2>2, <2>4 DEF Ids
    <2>7. created' \in 0..MaxRules /\ created' >= created
        BY <1>1, <2>2
    <2> DEFINE d == [gui EXCEPT !.rules = Put(gui.rules, item)]
    <2>8. CASE stale
        <3>1. PageCommand(d, TRUE)
            BY <2>5, <2>8 DEF PageCommand, ReplaceConfig, Made
        <3> QED
            BY <2>4, <2>6, <2>7, <3>1, PutDone
    <2>9. CASE ~stale
        <3>1. PageCommand(d, FALSE)
            BY <2>5, <2>9 DEF PageCommand, ReplaceConfig, Made
        <3>2. item.id \in Ids(gui.rules)
            BY <2>4, <2>9 DEF ToSet, Ids
        <3>3. RulesEdit(gui.rules, Put(gui.rules, item), created, created')
            BY <2>2, <2>4, <3>2 DEF RulesEdit
        <3>4. item.space \in Ids(gui.spaces) \cup {NoSpace}
            BY <2>4, <2>9
        <3> QED
            BY <2>4, <2>6, <2>7, <3>1, <3>3, <3>4, PutDone
    <2> QED
        BY <2>8, <2>9, SMTT(60)
<1>4. CASE RuleDelete
    <2>1. PICK id \in Ids(page.rules) :
              Command([gui EXCEPT !.rules = Without(gui.rules, id)])
        BY <1>4 DEF RuleDelete
    <2> DEFINE new == Without(gui.rules, id)
    <2>2. RulesEdit(gui.rules, new, created, created)
        BY <1>1, WithoutEdit
    <2>3. \A k \in DOMAIN new : new[k] \in Entries(gui.rules)
        BY <1>1, WithoutKeeps
    <2> HIDE DEF new
    <2>4. Edited(gui, [gui EXCEPT !.rules = new], created, created)
        BY <1>1, <2>2, <2>3, RulesEdited
    <2>5. created' = created /\ created >= created
        BY <1>1, <1>4 DEF RuleDelete
    <2>6. Command([gui EXCEPT !.rules = new])
        BY <2>1 DEF new
    <2> QED
        BY <1>1, <2>4, <2>5, <2>6, CommandDone
<1>5. CASE CommitReorder
    <2>1. PICK from \in DOMAIN page.rules, to \in DOMAIN page.rules :
              PageCommand([page EXCEPT !.rules = Moved(page.rules, from, to)], page # gui)
        BY <1>5 DEF CommitReorder
    <2> DEFINE new == Moved(page.rules, from, to)
    <2>2. RulesEdit(page.rules, new, created, created)
        BY DEF RulesEdit
    <2>3. \A k \in DOMAIN new : new[k] \in Entries(page.rules)
        BY <1>1, MovedKeeps
    <2> HIDE DEF new
    <2>4. Edited(page, [page EXCEPT !.rules = new], created, created)
        BY <1>1, <2>2, <2>3, RulesEdited
    <2>5. PageCommand([page EXCEPT !.rules = new], page # gui) /\ UNCHANGED created
        BY <1>5, <2>1 DEF new, CommitReorder
    <2> QED
        BY <2>4, <2>5, WholeDone
<1>6. CASE FinishOnboarding
    <2>1. PICK n \in 0..(MaxRules - created), b \in Browsers :
              /\ created' = created + n
              /\ Command([gui EXCEPT
                     !.target = b,
                     !.rules = [k \in 1..n |-> [id |-> created + k, on |-> TRUE,
                                                space |-> NoSpace]] \o gui.rules])
        BY <1>6 DEF FinishOnboarding
    <2> DEFINE added == [k \in 1..n |-> [id |-> created + k, on |-> TRUE, space |-> NoSpace]]
               new == added \o gui.rules
               mid == [gui EXCEPT !.target = b]
    <2>2. n \in Nat /\ created' \in 0..MaxRules /\ created' >= created /\ created' \in Nat
        BY <1>1, <2>1, CreatedIsNat DEF EditsInv
    <2>3. \A k \in 1..n : [id |-> created + k, on |-> TRUE, space |-> NoSpace] \in Rule
        BY <1>1, <2>1, CreatedIsNat DEF Rule, EditsInv
    <2>4. added \in [1..n -> Rule]
        BY <2>3
    <2>5. added \in Seq(Rule) /\ Len(added) = n
        BY <2>2, <2>4
    <2>6. \A k \in 1..n : added[k].id = created + k /\ added[k].space = NoSpace
        OBVIOUS
    <2> HIDE DEF added
    <2>7. Fresh(added, created)
        BY <2>5, <2>6 DEF Fresh
    <2>8. RulesEdit(gui.rules, new, created, created')
        BY <2>1, <2>5, <2>7 DEF RulesEdit
    <2>9. \A i \in DOMAIN new : new[i] \in Entries(gui.rules) \/ new[i].space = NoSpace
        <3>1. /\ new \in Seq(Rule) /\ Len(new) = n + Len(gui.rules)
              /\ \A i \in 1..n + Len(gui.rules) :
                    new[i] = IF i <= n THEN added[i] ELSE gui.rules[i - n]
            BY <1>1, <2>5, ConcatProperties
        <3> HIDE DEF new
        <3>2. DOMAIN new = 1..(n + Len(gui.rules)) /\ DOMAIN gui.rules = 1..Len(gui.rules)
              /\ Len(gui.rules) \in Nat
            BY <1>1, <3>1
        <3>3. ASSUME NEW i \in DOMAIN new
              PROVE  new[i] \in Entries(gui.rules) \/ new[i].space = NoSpace
            <4>1. CASE i <= n
                <5>1. i \in 1..n /\ new[i] = added[i]
                    BY <2>2, <3>1, <3>2, <4>1
                <5> QED
                    BY <2>6, <5>1
            <4>2. CASE ~(i <= n)
                <5>1. i - n \in DOMAIN gui.rules /\ new[i] = gui.rules[i - n]
                    BY <2>2, <3>1, <3>2, <4>2
                <5> QED
                    BY <5>1 DEF Entries
            <4> QED
                BY <4>1, <4>2
        <3> QED
            BY <3>3
    <2> HIDE DEF new
    <2>10. Good(mid, created)
        BY <1>1, PartReplaced
    <2>11. mid.rules = gui.rules /\ mid.spaces = gui.spaces
        BY <1>1 DEF Good, Doc
    <2>12. [mid EXCEPT !.rules = new] =
               [gui EXCEPT !.target = b, !.rules = new]
        BY <1>1 DEF Good, Doc
    <2>13. NoneDangles(gui) <=> NoneDangles(mid)
        BY <2>11 DEF NoneDangles
    <2> HIDE DEF mid
    <2> DEFINE d == [mid EXCEPT !.rules = new]
    <2>14. Edited(mid, d, created, created')
        BY <1>1, <2>2, <2>8, <2>9, <2>10, <2>11, RulesEdited
    <2>15. Command(d)
        BY <2>1, <2>12 DEF new, added
    <2> HIDE DEF d
    <2>16. Edited(gui, d, created, created')
        BY <2>11, <2>13, <2>14 DEF Edited
    <2> QED
        BY <2>2, <2>15, <2>16, CommandDone
<1> QED
    BY <1>2, <1>3, <1>4, <1>5, <1>6

\* The commands of the GUI that change another part of the document.
LEMMA PartCommandsDone ==
    ASSUME EditsInv,
           \/ WorkspaceUpsert \/ WorkspaceDelete \/ WorkspaceSetEnabled
           \/ SetSmartRouting \/ SetProfileOrder
           \/ AddCustomBrowser \/ RemoveCustomBrowser \/ BrowserSetEnabled
           \/ UpdateDefaultTarget
    PROVE  Done
<1>1. /\ created \in Nat /\ created \in 0..MaxRules /\ created >= created
      /\ Good(gui, created) /\ Good(page, created)
      /\ Ids(gui.spaces) \subseteq Spaces /\ gui.smart \in BOOLEAN
    BY GoodParts, CreatedIsNat DEF EditsInv, TypeOK
<1>2. created' = created
    BY DEF WorkspaceUpsert, WorkspaceDelete, WorkspaceSetEnabled, SetSmartRouting,
           SetProfileOrder, AddCustomBrowser, RemoveCustomBrowser, BrowserSetEnabled,
           UpdateDefaultTarget
<1>3. ASSUME NEW d, Command(d), Edited(gui, d, created, created)
      PROVE  Done
    BY <1>1, <1>2, <1>3, CommandDone
<1>4. CASE WorkspaceUpsert
    <2>1. PICK w \in Spaces, on \in BOOLEAN : Command(SpaceSet(gui, w, on))
        BY <1>4 DEF WorkspaceUpsert
    <2> QED
        BY <1>1, <1>3, <2>1, SpaceSetEdited
<1>5. CASE WorkspaceDelete
    <2>1. PICK w \in Ids(page.spaces) : Command(WithoutSpace(gui, w))
        BY <1>5 DEF WorkspaceDelete
    <2>2. w \in Spaces
        BY <1>1, <2>1, GoodParts
    <2> QED
        BY <1>1, <1>3, <2>1, <2>2, WithoutSpaceEdited
<1>6. CASE WorkspaceSetEnabled
    <2>1. PICK w \in Ids(page.spaces) \cap Ids(gui.spaces), on \in BOOLEAN :
              Command(SpaceSet(gui, w, on))
        BY <1>6 DEF WorkspaceSetEnabled
    <2>2. w \in Spaces
        BY <1>1, <2>1
    <2> QED
        BY <1>1, <1>3, <2>1, <2>2, SpaceSetEdited
<1>7. CASE SetSmartRouting
    <2>1. Command([gui EXCEPT !.smart = ~gui.smart])
        BY <1>7 DEF SetSmartRouting
    <2>2. CASE gui.smart
        <3>1. Command([gui EXCEPT !.smart = FALSE])
            BY <2>1, <2>2
        <3> QED
            BY <1>1, <1>3, <3>1, SettingEdited
    <2>3. CASE ~gui.smart
        <3>1. Command([gui EXCEPT !.smart = TRUE])
            BY <2>1, <2>3
        <3> QED
            BY <1>1, <1>3, <3>1, SettingEdited
    <2> QED
        BY <2>2, <2>3
<1>8. CASE SetProfileOrder
    <2>1. PICK b \in Browsers, order \in Orders :
              Command([gui EXCEPT !.orders[b] = Deduped(order)])
        BY <1>8 DEF SetProfileOrder
    <2> QED
        BY <1>1, <1>3, <2>1, OrderEdited
<1>9. CASE AddCustomBrowser
    <2>1. PICK b \in Browsers :
              Command([gui EXCEPT !.customs = Put(gui.customs, [id |-> b, by |-> "user"])])
        BY <1>9 DEF AddCustomBrowser
    <2> QED
        BY <1>1, <1>3, <2>1, ListsEdited
<1>10. CASE RemoveCustomBrowser
    <2>1. PICK b : Command([gui EXCEPT !.customs = Without(gui.customs, b)])
        BY <1>10 DEF RemoveCustomBrowser
    <2> QED
        BY <1>1, <1>3, <2>1, ListsEdited
<1>11. CASE BrowserSetEnabled
    <2>1. PICK b \in Browsers, enabled \in BOOLEAN :
              Command([gui EXCEPT !.hidden = Shown(gui.hidden, b, enabled)])
        BY <1>11 DEF BrowserSetEnabled
    <2> QED
        BY <1>1, <1>3, <2>1, ListsEdited
<1>12. CASE UpdateDefaultTarget
    <2>1. PICK b \in Browsers : PageCommand([page EXCEPT !.target = b], page # gui)
        BY <1>12 DEF UpdateDefaultTarget
    <2> QED
        BY <1>1, <1>2, <2>1, SettingEdited, WholeDone
<1> QED
    BY <1>4, <1>5, <1>6, <1>7, <1>8, <1>9, <1>10, <1>11, <1>12

\* A rule of the file is removed, switched on or off, or moved.
LEMMA OneRuleDone ==
    ASSUME EditsInv, RulesDelete \/ RulesSetEnabled \/ RulesMove
    PROVE  Done
<1>1. /\ created \in Nat /\ Good(disk, created)
      /\ disk.rules \in Seq(Rule) /\ DistinctIds(disk.rules)
      /\ DOMAIN disk.rules = 1..Len(disk.rules) /\ Len(disk.rules) \in Nat
    BY GoodParts, CreatedIsNat DEF EditsInv
<1>2. ASSUME NEW new, MutateLocal([disk EXCEPT !.rules = new]), UNCHANGED created,
             RulesEdit(disk.rules, new, created, created),
             \A k \in DOMAIN new : \/ new[k] \in Entries(disk.rules)
                                   \/ new[k].space \in Ids(disk.spaces) \cup {NoSpace}
                                   \/ ~NoneDangles(disk)
      PROVE  Done
    <2> DEFINE d == [disk EXCEPT !.rules = new]
    <2>1. new \in Seq(Rule) /\ DistinctIds(new) /\ Ids(new) \subseteq 1..created
        BY <1>1, <1>2, RulesEditKeeps, GoodParts
    <2>2. Good(d, created)
        BY <1>1, <2>1, PartReplaced
    <2>3. d.rules = new /\ d.spaces = disk.spaces
        BY <1>1 DEF Good, Doc
    <2> HIDE DEF d
    <2>4. NoneDangles(disk) => NoneDangles(d)
        BY <1>2, <2>3 DEF NoneDangles, Entries
    <2>5. Edited(disk, d, created, created)
        BY <1>2, <2>2, <2>3, <2>4 DEF Edited
    <2> QED
        BY <1>2, <2>5, LocalDone DEF d
<1>3. CASE RulesDelete
    <2>1. PICK i \in DOMAIN disk.rules :
              /\ UNCHANGED created
              /\ MutateLocal([disk EXCEPT !.rules = Without(disk.rules, disk.rules[i].id)])
        BY <1>3 DEF RulesDelete, OneRule, FindRule
    <2>2. RulesEdit(disk.rules, Without(disk.rules, disk.rules[i].id), created, created)
        BY <1>1, WithoutEdit
    <2>3. \A k \in DOMAIN Without(disk.rules, disk.rules[i].id) :
              Without(disk.rules, disk.rules[i].id)[k] \in Entries(disk.rules)
        BY <1>1, WithoutKeeps
    <2> QED
        BY <1>2, <2>1, <2>2, <2>3
<1>4. CASE RulesSetEnabled
    <2>1. PICK i \in DOMAIN disk.rules, on \in BOOLEAN :
              /\ UNCHANGED created
              /\ MutateLocal([disk EXCEPT !.rules = [disk.rules EXCEPT ![i].on = on]])
        BY <1>4 DEF RulesSetEnabled, OneRule, FindRule
    <2> DEFINE item == [disk.rules[i] EXCEPT !.on = on]
               new == [disk.rules EXCEPT ![i] = item]
    <2>2. disk.rules[i] \in Rule
        BY <1>1
    <2>3. item \in Rule /\ item.id = disk.rules[i].id /\ item.space = disk.rules[i].space
        BY <2>2 DEF Rule
    <2>4. [disk.rules EXCEPT ![i].on = on] = new
        OBVIOUS
    <2> HIDE DEF item
    <2>5. item.id \in Ids(disk.rules)
        BY <2>3 DEF Ids
    <2>6. Put(disk.rules, item) = new
        BY <1>1, <2>3, PutAt
    <2>8. RulesEdit(disk.rules, new, created, created)
        BY <2>3, <2>5, <2>6 DEF RulesEdit
    <2>9. /\ DOMAIN new = DOMAIN disk.rules
          /\ \A k \in DOMAIN disk.rules : new[k] = item \/ new[k] = disk.rules[k]
        BY <1>1
    <2> HIDE DEF new
    <2>10. \A k \in DOMAIN new : \/ new[k] \in Entries(disk.rules)
                                 \/ new[k].space \in Ids(disk.spaces) \cup {NoSpace}
                                 \/ ~NoneDangles(disk)
        BY <2>3, <2>9 DEF Entries, NoneDangles
    <2> QED
        BY <1>2, <2>1, <2>4, <2>8, <2>10
<1>5. CASE RulesMove
    <2> DEFINE last == Len(disk.rules)
               to(pos, k) == CASE pos = "top" -> 1
                         [] pos = "up" -> IF k = 1 THEN 1 ELSE k - 1
                         [] pos = "down" -> IF k = last THEN last ELSE k + 1
                         [] pos = "bottom" -> last
               moved(pos, k) == IF to(pos, k) = k THEN disk.rules
                                ELSE Moved(disk.rules, k, to(pos, k))
    <2>1. PICK pos \in {"top", "up", "down", "bottom"}, i \in DOMAIN disk.rules :
              UNCHANGED created /\ MutateLocal([disk EXCEPT !.rules = moved(pos, i)])
        BY <1>5, ZenonT(60) DEF RulesMove, OneRule, FindRule
    <2>2. to(pos, i) \in DOMAIN disk.rules
        BY <1>1
    <2> HIDE DEF to
    <2>3. \/ moved(pos, i) = disk.rules
          \/ \E j \in DOMAIN disk.rules : moved(pos, i) = Moved(disk.rules, i, j)
        BY <2>2
    <2> HIDE DEF moved
    <2>4. RulesEdit(disk.rules, moved(pos, i), created, created)
        BY <1>1, <2>3 DEF RulesEdit
    <2>5. \A k \in DOMAIN moved(pos, i) : moved(pos, i)[k] \in Entries(disk.rules)
        BY <1>1, <2>3, MovedKeeps DEF Entries
    <2> QED
        BY <1>2, <2>1, <2>4, <2>5
<1> QED
    BY <1>3, <1>4, <1>5

\* The other subcommands of lpt.
LEMMA LocalCommandsDone ==
    ASSUME EditsInv,
           \/ RulesAdd
           \/ WorkspacesAdd \/ WorkspacesDelete \/ WorkspacesSetEnabled
           \/ CustomAdd \/ CustomRemove \/ BrowsersSetEnabled
           \/ SettingsSet \/ SetDefaultTarget
    PROVE  Done
<1>1. /\ created \in Nat /\ created \in 0..MaxRules /\ Good(disk, created)
      /\ Ids(disk.spaces) \subseteq Spaces /\ {disk.smart, disk.login} \subseteq BOOLEAN
      /\ disk.rules \in Seq(Rule) /\ Ids(disk.rules) \subseteq 1..created
    BY GoodParts, CreatedIsNat DEF EditsInv, TypeOK
<1>2. ASSUME NEW d, MutateLocal(d), UNCHANGED created, Edited(disk, d, created, created)
      PROVE  Done
    BY <1>2, LocalDone
<1>3. CASE RulesAdd
    <2>1. PICK w \in Spaces \cup {NoSpace}, on \in BOOLEAN :
              WriteFile([disk EXCEPT !.rules =
                      Append(disk.rules, [id |-> created + 1, on |-> on, space |-> w])], FALSE,
                  w \notin Ids(disk.spaces) \cup {NoSpace})
        BY <1>3 DEF RulesAdd
    <2> DEFINE item == [id |-> created + 1, on |-> on, space |-> w]
               new == Append(disk.rules, item)
    <2>2. created' = created + 1 /\ created' \in 0..MaxRules /\ created' >= created
          /\ created' \in Nat
        BY <1>1, <1>3, CreatedIsNat DEF RulesAdd, EditsInv
    <2>3. item \in Rule /\ item.id = created + 1 /\ item.space = w
        BY <1>1, <2>2, CreatedIsNat DEF Rule, EditsInv
    <2> HIDE DEF item
    <2>4. RulesEdit(disk.rules, new, created, created')
        <3>1. <<item>> \in Seq(Rule) /\ Len(<<item>>) = 1 /\ <<item>>[1] = item
            BY <2>3
        <3>2. Fresh(<<item>>, created)
            BY <2>3, <3>1 DEF Fresh
        <3>3. new = disk.rules \o <<item>>
            BY <1>1, <2>3
        <3> QED
            BY <2>2, <3>1, <3>2, <3>3 DEF RulesEdit
    <2>5. \A k \in DOMAIN new : new[k] \in Entries(disk.rules) \/ new[k] = item
        BY <1>1, <2>3 DEF Entries
    <2>6. new \in Seq(Rule) /\ DistinctIds(new) /\ Ids(new) \subseteq 1..created'
        BY <1>1, <2>2, <2>4, RulesEditKeeps, GoodParts
    <2> HIDE DEF new
    <2> DEFINE d == [disk EXCEPT !.rules = new]
    <2>7. Good(d, created')
        BY <1>1, <2>2, <2>6, PartReplaced
    <2>8. d.rules = new /\ d.spaces = disk.spaces
        BY <1>1 DEF Good, Doc
    <2>9. WriteFile(d, FALSE, w \notin Ids(disk.spaces) \cup {NoSpace})
        BY <2>1 DEF new, item
    <2> HIDE DEF d
    <2>10. CASE w \in Ids(disk.spaces) \cup {NoSpace}
        <3>1. NoneDangles(disk) => NoneDangles(d)
            BY <2>3, <2>5, <2>8, <2>10 DEF NoneDangles, Entries
        <3>2. WriteFile(d, FALSE, FALSE)
            BY <2>9, <2>10 DEF WriteFile, Made
        <3>3. Wrote(d)
            BY <3>2, WriteIsWrote
        <3>4. Promised(d)
            BY <2>2, <2>4, <2>7, <2>8, <3>1 DEF Promised
        <3> QED
            BY <3>3, <3>4 DEF Done
    <2>11. CASE w \notin Ids(disk.spaces) \cup {NoSpace}
        <3>1. WriteFile(d, FALSE, TRUE)
            BY <2>9, <2>11 DEF WriteFile, Made
        <3>2. Wrote(d) /\ loose'
            BY <3>1, WriteIsWrote
        <3>3. Promised(d)
            BY <2>2, <2>4, <2>7, <2>8, <3>2 DEF Promised
        <3> QED
            BY <3>2, <3>3 DEF Done
    <2> QED
        BY <2>10, <2>11
<1>4. CASE WorkspacesAdd
    <2>1. PICK w \in Spaces, on \in BOOLEAN : MutateLocal(SpaceSet(disk, w, on))
        BY <1>4 DEF WorkspacesAdd
    <2>2. UNCHANGED created
        BY <1>4 DEF WorkspacesAdd
    <2> QED
        BY <1>1, <1>2, <2>1, <2>2, SpaceSetEdited
<1>5. CASE WorkspacesDelete
    <2>1. PICK w \in Ids(disk.spaces) : MutateLocal(WithoutSpace(disk, w))
        BY <1>5 DEF WorkspacesDelete
    <2>2. UNCHANGED created
        BY <1>5 DEF WorkspacesDelete
    <2> QED
        BY <1>1, <1>2, <2>1, <2>2, WithoutSpaceEdited
<1>6. CASE WorkspacesSetEnabled
    <2>1. PICK w \in Ids(disk.spaces), on \in BOOLEAN : MutateLocal(SpaceSet(disk, w, on))
        BY <1>6 DEF WorkspacesSetEnabled
    <2>2. UNCHANGED created
        BY <1>6 DEF WorkspacesSetEnabled
    <2> QED
        BY <1>1, <1>2, <2>1, <2>2, SpaceSetEdited
<1>7. CASE CustomAdd
    <2>1. PICK b \in Browsers :
              MutateLocal([disk EXCEPT !.customs = Put(disk.customs, [id |-> b, by |-> "user"])])
        BY <1>7 DEF CustomAdd
    <2>2. UNCHANGED created
        BY <1>7 DEF CustomAdd
    <2> QED
        BY <1>1, <1>2, <2>1, <2>2, ListsEdited
<1>8. CASE CustomRemove
    <2>1. PICK b : MutateLocal([disk EXCEPT !.customs = Without(disk.customs, b)])
        BY <1>8 DEF CustomRemove
    <2>2. UNCHANGED created
        BY <1>8 DEF CustomRemove
    <2> QED
        BY <1>1, <1>2, <2>1, <2>2, ListsEdited
<1>9. CASE BrowsersSetEnabled
    <2>1. PICK b \in Browsers, enabled \in BOOLEAN :
              MutateLocal([disk EXCEPT !.hidden = Shown(disk.hidden, b, enabled)])
        BY <1>9 DEF BrowsersSetEnabled
    <2>2. UNCHANGED created
        BY <1>9 DEF BrowsersSetEnabled
    <2> QED
        BY <1>1, <1>2, <2>1, <2>2, ListsEdited
<1>10. CASE SettingsSet
    <2>1. PICK on \in BOOLEAN : \/ MutateLocal([disk EXCEPT !.smart = on])
                                \/ MutateLocal([disk EXCEPT !.login = on])
        BY <1>1, <1>10, Zenon DEF SettingsSet
    <2>2. UNCHANGED created
        BY <1>10 DEF SettingsSet
    <2> QED
        BY <1>1, <1>2, <2>1, <2>2, SettingEdited
<1>11. CASE SetDefaultTarget
    <2>1. PICK b \in Browsers : MutateLocal([disk EXCEPT !.target = b])
        BY <1>11 DEF SetDefaultTarget
    <2>2. UNCHANGED created
        BY <1>11 DEF SetDefaultTarget
    <2> QED
        BY <1>1, <1>2, <2>1, <2>2, SettingEdited
<1> QED
    BY <1>3, <1>4, <1>5, <1>6, <1>7, <1>8, <1>9, <1>10, <1>11
\* Launch at login has a command of its own, which writes the plist first.
LEMMA LoginDone == ASSUME EditsInv, SetLaunchAtLogin PROVE Done
<1>1. /\ created \in Nat /\ created \in 0..MaxRules /\ created >= created
      /\ Good(gui, created) /\ Good(disk, created)
    BY CreatedIsNat DEF EditsInv, TypeOK
<1>2. PICK on \in BOOLEAN : plist' = on /\ gui' = [gui EXCEPT !.login = on]
    BY DEF SetLaunchAtLogin
<1> DEFINE d == [gui EXCEPT !.login = on]
<1>3. Edited(gui, d, created, created)
    BY <1>1, SettingEdited
<1>4. gui' = d
    BY <1>2
<1> HIDE DEF d
<1>5. created' = created /\ page' = page /\ guiAt' = guiAt
    BY DEF SetLaunchAtLogin
<1>6. disk' \in {disk, d}
    BY <1>4 DEF SetLaunchAtLogin
<1>7. event' \in BOOLEAN
    BY DEF SetLaunchAtLogin, EditsInv, TypeOK
<1>8. loginEdited' \in BOOLEAN /\ plist' \in BOOLEAN
    BY <1>2 DEF SetLaunchAtLogin
<1>9. blind' \in BOOLEAN /\ (blind' <=> gui # disk)
    BY DEF SetLaunchAtLogin, Made
<1>10. loose' \in BOOLEAN /\ (loose \/ blind' => loose')
    BY <1>9 DEF SetLaunchAtLogin, Made, EditsInv, TypeOK
<1>11. edits' \in 0..MaxEdits
    BY CreatedIsNat DEF SetLaunchAtLogin, Made, EditsInv, TypeOK
<1>12. Wrote(d)
    BY <1>4, <1>5, <1>6, <1>7, <1>8, <1>9, <1>10, <1>11 DEF Wrote
<1>13. Promised(d)
    <2>1. CASE gui = disk
        BY <1>1, <1>3, <1>5, <2>1 DEF Promised, Edited
    <2>2. CASE gui # disk
        BY <1>1, <1>3, <1>5, <1>9, <1>10, <2>2 DEF Promised, Edited
    <2> QED
        BY <2>1, <2>2
<1> QED
    BY <1>12, <1>13 DEF Done

\* The documents that come from elsewhere are well-formed.
CleanDocs == \A d \in InitialDocs \cup Brought : Clean(d)

\* Whatever the command, it writes what is promised, or fails to.
LEMMA CommandsDone ==
    ASSUME EditsInv, CleanDocs, GuiCommands \/ LptCommands
    PROVE  Done
<1>1. ASSUME GuiCommands PROVE Done
    BY <1>1, RuleCommandsDone, PartCommandsDone, LoginDone, BroughtDone
       DEF GuiCommands, CleanDocs
<1>2. ASSUME LptCommands PROVE Done
    BY <1>2, OneRuleDone, LocalCommandsDone, BroughtDone DEF LptCommands, CleanDocs
<1> QED
    BY <1>1, <1>2

\* A document stays good when more ids are given out.
LEMMA GoodStays ==
    ASSUME NEW d, NEW c \in Nat, NEW c2 \in Nat, c2 >= c, Good(d, c)
    PROVE  Good(d, c2)
BY DEF Good

\* A write keeps every copy of the document well-formed.
LEMMA DoneKeeps == ASSUME EditsInv, Done PROVE EditsInv'
<1>1. PICK d : Wrote(d) /\ Promised(d)
    BY DEF Done
<1>2. /\ created \in Nat /\ created' \in Nat /\ created' >= created
      /\ created' \in 0..MaxRules
    BY <1>1, CreatedIsNat DEF Promised, EditsInv
<1>3. \A x \in {disk, gui, page, d} : Good(x, created')
    BY <1>1, <1>2, GoodStays DEF Promised, EditsInv
<1>4. disk' \in {disk, d} /\ gui' \in {gui, d} /\ page' = page
    BY <1>1 DEF Wrote
<1>5. Good(disk', created') /\ Good(gui', created') /\ Good(page', created')
    BY <1>3, <1>4
<1>6. {disk', gui', page'} \subseteq Doc
    BY <1>5 DEF Good
<1>7. guiAt' \in {"down", "loaded", "up"}
    BY <1>1 DEF Wrote, EditsInv, TypeOK
<1>8. {event', plist', blind', loose', loginEdited'} \subseteq BOOLEAN
    <2>1. loose' \in BOOLEAN
        BY <1>1 DEF Wrote
    <2> QED
        BY <1>1, <2>1 DEF Wrote
<1>9. edits' \in 0..MaxEdits
    BY <1>1 DEF Wrote
<1>10. TypeOK'
    BY <1>2, <1>6, <1>7, <1>8, <1>9 DEF TypeOK
<1> QED
    BY <1>5, <1>10 DEF EditsInv

\* The GUI process comes and goes, and its copies follow the file.
LEMMA ProcessKeeps ==
    ASSUME EditsInv, StartGui \/ Reconcile \/ Watch \/ Fetch \/ Quit \/ UNCHANGED vars
    PROVE  EditsInv' /\ disk' = disk /\ created' = created /\ loose' = loose
<1> USE DEF StartGui, Reconcile, Watch, Fetch, Quit, vars, docVars
<1>1. /\ disk' = disk /\ created' = created /\ loose' = loose /\ edits' = edits
      /\ blind' = blind
    OBVIOUS
<1>2. gui' \in {gui, disk} /\ page' \in {page, gui, disk}
    OBVIOUS
<1>3. guiAt' \in {"down", "loaded", "up"}
    BY DEF EditsInv, TypeOK
<1>4. event' \in BOOLEAN
    BY DEF EditsInv, TypeOK
<1>5. plist' \in BOOLEAN
    <2>1. plist' \in {plist, gui.login}
        OBVIOUS
    <2>2. gui.login \in BOOLEAN
        BY GoodParts DEF EditsInv
    <2> QED
        BY <2>1, <2>2 DEF EditsInv, TypeOK
<1>6. loginEdited' \in BOOLEAN
    BY DEF EditsInv, TypeOK
<1>7. TypeOK'
    BY <1>1, <1>2, <1>3, <1>4, <1>5, <1>6 DEF EditsInv, TypeOK
<1>8. Good(disk', created') /\ Good(gui', created') /\ Good(page', created')
    BY <1>1, <1>2 DEF EditsInv
<1> QED
    BY <1>1, <1>7, <1>8 DEF EditsInv

\* At first all three copies are the document in the file.
LEMMA EditsStart == ASSUME CleanDocs, Init PROVE EditsInv
<1>1. disk \in InitialDocs /\ gui = disk /\ page = disk /\ created = Len(disk.rules)
    BY DEF Init
<1>2. disk \in Doc /\ Clean(disk)
    BY <1>1, EditsAssumption DEF CleanDocs
<1>3. Len(disk.rules) \in Nat
    BY <1>2 DEF Doc
<1>4. Len(disk.rules) <= MaxRules /\ Ids(disk.rules) \subseteq 1..Len(disk.rules)
    BY <1>1, EditsAssumption
<1>5. Good(disk, created) /\ created \in 0..MaxRules
    BY <1>1, <1>2, <1>3, <1>4, EditsAssumption DEF Good
<1>6. edits \in 0..MaxEdits
    BY EditsAssumption DEF Init
<1>7. TypeOK
    BY <1>1, <1>2, <1>5, <1>6 DEF TypeOK, Init
<1> QED
    BY <1>1, <1>5, <1>7 DEF EditsInv

\* EditsInv is inductive.
LEMMA EditsInvAlways == ASSUME CleanDocs PROVE Spec => []EditsInv
<1>1. Init => EditsInv
    BY EditsStart
<1>2. EditsInv /\ [Next]_vars => EditsInv'
    BY CommandsDone, DoneKeeps, ProcessKeeps DEF Next
<1> QED
    BY <1>1, <1>2, PTL DEF Spec

\* Whatever commands are mixed, no copy of the document ever lists a rule, a
\* workspace, a browser or a profile twice, and the variables have their types.
THEOREM EveryCopyIsWellFormed == ASSUME CleanDocs PROVE Spec => []WellFormed
<1>1. EditsInv => WellFormed
    BY DEF EditsInv, WellFormed, Good
<1> QED
    BY <1>1, EditsInvAlways, PTL

\* The rules of the file are in workspaces that exist, until a write was made
\* from an older copy.
LEMMA NoneDanglesKept ==
    ASSUME EditsInv, CleanDocs, [Next]_vars, ~loose => NoneDangles(disk)
    PROVE  ~loose' => NoneDangles(disk')
<1>1. CASE GuiCommands \/ LptCommands
    <2>1. PICK d : Wrote(d) /\ Promised(d)
        BY <1>1, CommandsDone DEF Done
    <2>2. disk' \in {disk, d} /\ (loose => loose')
        BY <2>1 DEF Wrote
    <2>3. ~loose' => (NoneDangles(disk) => NoneDangles(d))
        BY <2>1 DEF Promised
    <2> QED
        BY <2>2, <2>3
<1>2. CASE ~(GuiCommands \/ LptCommands)
    <2>1. disk' = disk /\ loose' = loose
        BY <1>2, ProcessKeeps DEF Next
    <2> QED
        BY <2>1
<1> QED
    BY <1>1, <1>2

\* As long as every write is made from the document it replaces, no command
\* leaves a rule in a workspace that is gone: not the deletion of a workspace,
\* by the GUI or by lpt, and not a rule saved from a page.
THEOREM NoRuleEverDangles ==
    ASSUME CleanDocs, \A d \in InitialDocs : NoneDangles(d)
    PROVE  Spec => []NoRuleDangles
<1> DEFINE Bound == ~loose => NoneDangles(disk)
<1>1. Init => Bound
    BY DEF Init
<1>2. EditsInv /\ Bound /\ [Next]_vars => Bound'
    BY NoneDanglesKept
<1>3. Bound <=> NoRuleDangles
    BY DEF NoRuleDangles, NoneDangles
<1> HIDE DEF Bound
<1> QED
    BY <1>1, <1>2, <1>3, EditsInvAlways, PTL DEF Spec

\* Both ways to write a document leave the plist to the command for it.
LEMMA WritesAgree ==
    ASSUME LoginAgrees, NEW d, NEW b, NEW l,
           \/ ReplaceConfig(d, b) /\ plist' = plist
           \/ WriteFile(d, b, l)
    PROVE  LoginAgrees'
BY DEF LoginAgrees, ReplaceConfig, WriteFile

\* The plist and the file agree after every step, or it is known that they may
\* not.
LEMMA LoginKept ==
    ASSUME EditsInv, LoginAgrees, [Next]_vars
    PROVE  LoginAgrees'
<1>1. ASSUME NEW d, Command(d) PROVE LoginAgrees'
    BY <1>1, WritesAgree DEF Command
<1>2. ASSUME NEW d, NEW b, PageCommand(d, b) PROVE LoginAgrees'
    BY <1>2, WritesAgree DEF PageCommand
<1>3. ASSUME NEW d, MutateLocal(d) PROVE LoginAgrees'
    BY <1>3, WritesAgree DEF MutateLocal
<1>4. CASE NewRule \/ RuleUpsert \/ RuleDelete
    BY <1>1, <1>2, <1>4 DEF NewRule, RuleUpsert, RuleDelete
<1>5. CASE WorkspaceUpsert \/ WorkspaceDelete \/ WorkspaceSetEnabled
    BY <1>1, <1>5 DEF WorkspaceUpsert, WorkspaceDelete, WorkspaceSetEnabled
<1>6. CASE SetSmartRouting \/ SetProfileOrder \/ AddCustomBrowser
    BY <1>1, <1>6 DEF SetSmartRouting, SetProfileOrder, AddCustomBrowser
<1>7. CASE RemoveCustomBrowser \/ BrowserSetEnabled \/ FinishOnboarding
    BY <1>1, <1>7 DEF RemoveCustomBrowser, BrowserSetEnabled, FinishOnboarding
<1>8. CASE CommitReorder \/ UpdateDefaultTarget
    BY <1>2, <1>8 DEF CommitReorder, UpdateDefaultTarget
<1>9. CASE ImportConfig \/ ConfigImport \/ RulesAdd
    BY <1>9, WritesAgree DEF ImportConfig, ConfigImport, RulesAdd
<1>10. CASE RulesDelete \/ RulesSetEnabled \/ RulesMove
    BY <1>3, <1>10, ZenonT(60) DEF RulesDelete, RulesSetEnabled, RulesMove, OneRule
<1>11. CASE WorkspacesAdd \/ WorkspacesDelete \/ WorkspacesSetEnabled
    BY <1>3, <1>11 DEF WorkspacesAdd, WorkspacesDelete, WorkspacesSetEnabled
<1>12. CASE CustomAdd \/ CustomRemove \/ BrowsersSetEnabled
    BY <1>3, <1>12 DEF CustomAdd, CustomRemove, BrowsersSetEnabled
<1>13. CASE SettingsSet \/ SetDefaultTarget
    BY <1>3, <1>13 DEF SettingsSet, SetDefaultTarget
<1>14. CASE SetLaunchAtLogin
    <2>1. PICK on \in BOOLEAN : plist' = on /\ gui' = [gui EXCEPT !.login = on]
        BY <1>14 DEF SetLaunchAtLogin
    <2>2. gui'.login = on
        BY <2>1 DEF EditsInv, TypeOK, Doc
    <2>3. disk' = gui' \/ loginEdited'
        BY <1>14 DEF SetLaunchAtLogin
    <2> QED
        BY <2>1, <2>2, <2>3 DEF LoginAgrees
<1>15. CASE Reconcile
    BY <1>15 DEF LoginAgrees, Reconcile, docVars
<1>16. CASE StartGui \/ Watch \/ Fetch \/ Quit \/ UNCHANGED vars
    BY <1>16 DEF LoginAgrees, StartGui, Watch, Fetch, Quit, vars, docVars
<1> QED
    BY <1>4, <1>5, <1>6, <1>7, <1>8, <1>9, <1>10, <1>11, <1>12, <1>13, <1>14, <1>15,
       <1>16 DEF Next, GuiCommands, LptCommands

\* Launch at login is what the file says unless something other than its
\* command wrote it, or a step of the command or of the start-up failed.
THEOREM LoginAlwaysAgrees == ASSUME CleanDocs PROVE Spec => []LoginAgrees
<1>1. Init => LoginAgrees
    BY DEF Init, LoginAgrees
<1>2. EditsInv /\ LoginAgrees /\ [Next]_vars => LoginAgrees'
    BY LoginKept
<1> QED
    BY <1>1, <1>2, EditsInvAlways, PTL DEF Spec
-----------------------------------------------------------------------------
(* What the commands do to the rules of the file is what RuleList allows.  *)

\* Removing one entry closes the gap.
LEMMA WithoutIs ==
    ASSUME NEW S, NEW list \in Seq(S), DistinctIds(list), NEW i \in DOMAIN list
    PROVE  Without(list, list[i].id) =
               SubSeq(list, 1, i - 1) \o SubSeq(list, i + 1, Len(list))
<1> DEFINE n == Len(list)
           keep == (1..n) \ {i}
           new == Kept(list, keep)
           left == SubSeq(list, 1, i - 1)
           right == SubSeq(list, i + 1, n)
<1>1. n \in Nat /\ DOMAIN list = 1..n /\ i \in 1..n /\ \A k \in 1..n : list[k] \in S
    OBVIOUS
<1>2. Without(list, list[i].id) = new
    <2>1. {k \in DOMAIN list : list[k].id # list[i].id} = keep
        BY <1>1 DEF DistinctIds
    <2> QED
        BY <2>1 DEF Without
<1>3. Cardinality(keep) = n - 1
    <2> HIDE DEF n
    <2>1. IsFiniteSet(1..n) /\ Cardinality(1..n) = n
        BY <1>1, FS_Interval
    <2> QED
        BY <1>1, <2>1, FS_RemoveElement, ZenonT(60)
<1>4. \A k \in keep : Rank(keep, k) = IF k < i THEN k ELSE k - 1
    <2> SUFFICES ASSUME NEW k \in keep
                 PROVE  Rank(keep, k) = IF k < i THEN k ELSE k - 1
        OBVIOUS
    <2>1. k \in 1..n /\ k # i /\ k \in Nat
        BY <1>1
    <2>2. IsFiniteSet(1..k) /\ Cardinality(1..k) = k
        BY <2>1, FS_Interval
    <2>3. {j \in keep : j <= k} = (1..k) \ {i}
        BY <1>1, <2>1
    <2>4. Rank(keep, k) = Cardinality((1..k) \ {i})
        BY <2>3 DEF Rank
    <2>5. Cardinality((1..k) \ {i}) = IF i \in 1..k THEN k - 1 ELSE k
        BY <2>2, FS_RemoveElement
    <2> QED
        BY <1>1, <2>1, <2>4, <2>5
<1>5. /\ new \in Seq(S) /\ Len(new) = n - 1
      /\ \A m \in 1..(n - 1) : new[m] = list[Nth(keep, m)]
      /\ \A k \in keep : Nth(keep, Rank(keep, k)) = k
    <2>1. keep \in SUBSET (DOMAIN list)
        BY <1>1
    <2> HIDE DEF keep
    <2> QED
        BY <1>3, <2>1, KeptFacts
<1>6. \A m \in 1..(n - 1) : new[m] = IF m < i THEN list[m] ELSE list[m + 1]
    <2> SUFFICES ASSUME NEW m \in 1..(n - 1)
                 PROVE  new[m] = IF m < i THEN list[m] ELSE list[m + 1]
        OBVIOUS
    <2>1. CASE m < i
        <3>1. m \in keep
            BY <1>1, <2>1
        <3>2. Nth(keep, m) = m
            BY <1>4, <1>5, <2>1, <3>1
        <3> QED
            BY <1>5, <2>1, <3>2
    <2>2. CASE ~(m < i)
        <3>1. m + 1 \in keep /\ ~(m + 1 < i) /\ (m + 1) - 1 = m
            BY <1>1, <2>2
        <3>2. Nth(keep, m) = m + 1
            BY <1>4, <1>5, <3>1
        <3> QED
            BY <1>5, <2>2, <3>2
    <2> QED
        BY <2>1, <2>2
<1>7. /\ left \in Seq(S) /\ Len(left) = i - 1
      /\ \A k \in 1..(i - 1) : left[k] = list[k]
    BY <1>1
<1>8. /\ right \in Seq(S) /\ Len(right) = n - i
      /\ \A k \in 1..(n - i) : right[k] = list[k + i]
    <2>1. \A k \in (i + 1)..n : list[k] \in S
        BY <1>1
    <2>2. i + 1 \in Int /\ n \in Int
        BY <1>1
    <2>3. /\ right \in Seq(S)
          /\ Len(right) = IF i + 1 <= n THEN n - (i + 1) + 1 ELSE 0
          /\ \A k \in 1..(n - (i + 1) + 1) : right[k] = list[i + 1 + k - 1]
        BY <2>1, <2>2, SubSeqProperties
    <2>4. Len(right) = n - i
        BY <1>1, <2>3
    <2>5. n - (i + 1) + 1 = n - i /\ \A k \in 1..(n - i) : i + 1 + k - 1 = k + i
        BY <1>1
    <2> QED
        BY <2>3, <2>4, <2>5
<1> HIDE DEF keep, new, left, right, n
<1>9. /\ left \o right \in Seq(S) /\ Len(left \o right) = n - 1
      /\ \A k \in 1..(n - 1) : (left \o right)[k] =
             IF k <= i - 1 THEN left[k] ELSE right[k - (i - 1)]
    <2>1. Len(left) + Len(right) = n - 1
        BY <1>1, <1>7, <1>8
    <2> QED
        BY <1>7, <1>8, <2>1, ConcatProperties
<1>10. \A k \in 1..(n - 1) : new[k] = (left \o right)[k]
    <2> SUFFICES ASSUME NEW k \in 1..(n - 1)
                 PROVE  new[k] = (left \o right)[k]
        OBVIOUS
    <2>1. CASE k < i
        BY <1>1, <1>6, <1>7, <1>9, <2>1
    <2>2. CASE ~(k < i)
        <3>1. k - (i - 1) \in 1..(n - i) /\ (k - (i - 1)) + i = k + 1 /\ ~(k <= i - 1)
            BY <1>1, <2>2
        <3>2. right[k - (i - 1)] = list[k + 1]
            BY <1>8, <3>1
        <3> QED
            BY <1>6, <1>9, <2>2, <3>1, <3>2
    <2> QED
        BY <2>1, <2>2
<1>11. new = left \o right
    BY <1>5, <1>9, <1>10, SeqEqual
<1> QED
    BY <1>2, <1>11 DEF new, left, right, n

\* New rules at one end leave the others together, in their order.
LEMMA AddedIs ==
    ASSUME NEW S, NEW old \in Seq(S), NEW added \in Seq(S)
    PROVE  /\ SubSeq(old \o added, 1, Len(old)) = old
           /\ SubSeq(added \o old, Len(added) + 1, Len(added) + Len(old)) = old
<1>1. ASSUME NEW a \in Seq(S), NEW b \in Seq(S), NEW s \in Seq(S), NEW m \in Nat,
             s = a \o b, (m = 0 /\ old = a) \/ (m = Len(a) /\ old = b)
      PROVE  SubSeq(s, m + 1, m + Len(old)) = old
    <2>1. /\ Len(s) = Len(a) + Len(b) /\ Len(a) \in Nat /\ Len(b) \in Nat
          /\ Len(old) \in Nat
          /\ \A i \in 1..(Len(a) + Len(b)) : s[i] = IF i <= Len(a) THEN a[i] ELSE b[i - Len(a)]
        BY <1>1, ConcatProperties
    <2>2. \A i \in 1..Len(old) : s[m + i] = old[i] /\ m + i \in 1..Len(s)
        <3>1. CASE m = 0 /\ old = a
            <4>1. \A i \in 1..Len(a) : /\ m + i = i /\ i \in 1..(Len(a) + Len(b))
                                       /\ i <= Len(a)
                BY <2>1, <3>1
            <4> QED
                BY <2>1, <3>1, <4>1
        <3>2. CASE m = Len(a) /\ old = b
            <4>1. \A i \in 1..Len(b) : /\ m + i \in 1..(Len(a) + Len(b))
                                       /\ ~(m + i <= Len(a)) /\ (m + i) - Len(a) = i
                BY <2>1, <3>2
            <4> QED
                BY <2>1, <3>2, <4>1
        <3> QED
            BY <1>1, <3>1, <3>2
    <2> DEFINE part == SubSeq(s, m + 1, m + Len(old))
    <2>3. \A i \in (m + 1)..(m + Len(old)) : s[i] \in S
        <3> TAKE i \in (m + 1)..(m + Len(old))
        <3>1. i - m \in 1..Len(old) /\ m + (i - m) = i
            BY <1>1, <2>1
        <3>2. s[i] = old[i - m]
            BY <2>2, <3>1
        <3> QED
            BY <3>1, <3>2
    <2>4. m + 1 \in Int /\ m + Len(old) \in Int
        BY <1>1, <2>1
    <2>5. /\ part \in Seq(S)
          /\ Len(part) = IF m + 1 <= m + Len(old) THEN (m + Len(old)) - (m + 1) + 1 ELSE 0
          /\ \A i \in 1..((m + Len(old)) - (m + 1) + 1) : part[i] = s[(m + 1) + i - 1]
        BY <2>3, <2>4, SubSeqProperties
    <2>6. Len(part) = Len(old)
        BY <1>1, <2>1, <2>5
    <2>7. (m + Len(old)) - (m + 1) + 1 = Len(old) /\ \A i \in 1..Len(old) : (m + 1) + i - 1 = m + i
        BY <1>1, <2>1
    <2>8. \A i \in 1..Len(old) : part[i] = old[i]
        BY <2>2, <2>5, <2>7
    <2> HIDE DEF part
    <2>9. part = old
        BY <2>5, <2>6, <2>8, SeqEqual
    <2> QED
        BY <2>9 DEF part
<1>2. old \o added \in Seq(S) /\ added \o old \in Seq(S) /\ Len(old) \in Nat /\ Len(added) \in Nat
    BY ConcatProperties
<1>3. SubSeq(old \o added, 0 + 1, 0 + Len(old)) = old
    BY <1>1, <1>2
<1>4. SubSeq(added \o old, Len(added) + 1, Len(added) + Len(old)) = old
    BY <1>1, <1>2
<1>5. 0 + 1 = 1 /\ 0 + Len(old) = Len(old)
    BY <1>2
<1> QED
    BY <1>3, <1>4, <1>5

\* The actions of RuleList, of two lists of rules.
Adds(old, new, c, c2) ==
    \E n \in 1..(Len(new) - Len(old)) :
        /\ Len(new) = Len(old) + n
        /\ c2 = c + n
        /\ \/ /\ SubSeq(new, 1, Len(old)) = old
              /\ \A k \in 1..n : new[Len(old) + k].id = c + k
           \/ /\ SubSeq(new, n + 1, n + Len(old)) = old
              /\ \A k \in 1..n : new[k].id = c + k

Removes(old, new) ==
    \E i \in DOMAIN old : new = SubSeq(old, 1, i - 1) \o SubSeq(old, i + 1, Len(old))

Changes(old, new) ==
    \E i \in DOMAIN old :
        /\ DOMAIN new = DOMAIN old
        /\ new[i].id = old[i].id
        /\ \A k \in DOMAIN old \ {i} : new[k] = old[k]

Moves(old, new) ==
    \E i, j \in DOMAIN old :
        new = [k \in DOMAIN old |->
                  IF k = j THEN old[i]
                  ELSE IF i <= k /\ k < j THEN old[k + 1]
                  ELSE IF j < k /\ k <= i THEN old[k - 1]
                  ELSE old[k]]

Ungroups(old, new) ==
    \E w \in {old[i].space : i \in DOMAIN old} :
        new = [i \in DOMAIN old |->
                  IF old[i].space = w
                  THEN [old[i] EXCEPT !.space = NoSpace] ELSE old[i]]

\* An edit of the rules, in the terms of RuleList.
LEMMA EditIs ==
    ASSUME NEW old \in Seq(Rule), NEW new, NEW c \in Nat, NEW c2 \in Nat,
           DistinctIds(old), Ids(old) \subseteq 1..c, RulesEdit(old, new, c, c2)
    PROVE  \/ new = old /\ c2 >= c
           \/ Adds(old, new, c, c2)
           \/ /\ c2 = c
              /\ Removes(old, new) \/ Changes(old, new) \/ Moves(old, new) \/ Ungroups(old, new)
<1>1. Len(old) \in Nat /\ DOMAIN old = 1..Len(old) /\ \A i \in DOMAIN old : old[i] \in Rule
    OBVIOUS
<1>2. CASE new = old /\ c2 >= c
    BY <1>2
<1>3. ASSUME NEW added \in Seq(Rule), Fresh(added, c), c2 = c + Len(added),
             new = old \o added \/ new = added \o old
      PROVE  (new = old /\ c2 >= c) \/ Adds(old, new, c, c2)
    <2> DEFINE n == Len(added)
    <2>1. n \in Nat /\ \A k \in 1..n : added[k].id = c + k
        BY <1>3 DEF Fresh
    <2>2. CASE n = 0
        <3>1. added = <<>>
            BY <2>2
        <3>2. new = old
            BY <1>3, <3>1, ConcatEmptySeq
        <3> QED
            BY <1>3, <2>2, <3>2
    <2>3. CASE n # 0 /\ new = old \o added
        <3>1. /\ Len(new) = Len(old) + n
              /\ \A i \in 1..(Len(old) + n) :
                    new[i] = IF i <= Len(old) THEN old[i] ELSE added[i - Len(old)]
            BY <2>3, ConcatProperties
        <3>2. \A k \in 1..n : /\ Len(old) + k \in 1..(Len(old) + n)
                              /\ ~(Len(old) + k <= Len(old)) /\ (Len(old) + k) - Len(old) = k
            BY <1>1, <2>1
        <3>3. \A k \in 1..n : new[Len(old) + k].id = c + k
            BY <2>1, <3>1, <3>2, ZenonT(60)
        <3>4. SubSeq(new, 1, Len(old)) = old
            BY <2>3, AddedIs
        <3>5. n \in 1..(Len(new) - Len(old)) /\ c2 = c + n
            BY <1>1, <1>3, <2>1, <2>3, <3>1
        <3> HIDE DEF n
        <3> QED
            BY <3>1, <3>3, <3>4, <3>5 DEF Adds
    <2>4. CASE n # 0 /\ new = added \o old
        <3>1. /\ Len(new) = n + Len(old)
              /\ \A i \in 1..(n + Len(old)) :
                    new[i] = IF i <= n THEN added[i] ELSE old[i - n]
            BY <2>4, ConcatProperties
        <3>2. \A k \in 1..n : k \in 1..(n + Len(old)) /\ k <= n
            BY <1>1, <2>1
        <3>3. \A k \in 1..n : new[k].id = c + k
            BY <2>1, <3>1, <3>2
        <3>4. SubSeq(new, n + 1, n + Len(old)) = old
            BY <2>4, AddedIs
        <3>5. n \in 1..(Len(new) - Len(old)) /\ c2 = c + n /\ Len(new) = Len(old) + n
            BY <1>1, <1>3, <2>1, <2>4, <3>1
        <3> HIDE DEF n
        <3> QED
            BY <3>3, <3>4, <3>5 DEF Adds
    <2> QED
        BY <1>3, <2>2, <2>3, <2>4
<1>4. ASSUME NEW id \in Ids(old), new = Without(old, id)
      PROVE  Removes(old, new)
    <2>1. PICK i \in DOMAIN old : id = old[i].id
        BY DEF Ids
    <2>2. new = SubSeq(old, 1, i - 1) \o SubSeq(old, i + 1, Len(old))
        BY <1>4, <2>1, WithoutIs
    <2> QED
        BY <2>2 DEF Removes
<1>5. ASSUME NEW item \in Rule, item.id \in Ids(old), new = Put(old, item)
      PROVE  Changes(old, new)
    <2>1. PICK i \in DOMAIN old : item.id = old[i].id
        BY <1>5 DEF Ids
    <2>2. new = [old EXCEPT ![i] = item]
        BY <1>5, <2>1, PutAt
    <2>3. /\ DOMAIN new = DOMAIN old /\ new[i].id = old[i].id
          /\ \A k \in DOMAIN old \ {i} : new[k] = old[k]
        BY <2>1, <2>2
    <2> QED
        BY <2>3 DEF Changes
<1>6. ASSUME NEW i \in DOMAIN old, NEW j \in DOMAIN old, new = Moved(old, i, j)
      PROVE  Moves(old, new)
    <2> DEFINE moved == [k \in DOMAIN old |->
                            IF k = j THEN old[i]
                            ELSE IF i <= k /\ k < j THEN old[k + 1]
                            ELSE IF j < k /\ k <= i THEN old[k - 1]
                            ELSE old[k]]
    <2>0. /\ new \in Seq(Rule) /\ DOMAIN new = DOMAIN old
          /\ \A k \in DOMAIN old : new[k] =
                 IF k = j THEN old[i]
                 ELSE IF i <= k /\ k < j THEN old[k + 1]
                 ELSE IF j < k /\ k <= i THEN old[k - 1]
                 ELSE old[k]
        <3>1. /\ Moved(old, i, j) \in Seq(Rule) /\ DOMAIN Moved(old, i, j) = DOMAIN old
              /\ \A k \in DOMAIN old : Moved(old, i, j)[k] =
                     IF k = j THEN old[i]
                     ELSE IF i <= k /\ k < j THEN old[k + 1]
                     ELSE IF j < k /\ k <= i THEN old[k - 1]
                     ELSE old[k]
            BY MovedIs
        <3> QED
            BY <1>6, <3>1
    <2>1. new \in Seq(Rule) /\ DOMAIN new = DOMAIN old /\ \A k \in DOMAIN old : new[k] = moved[k]
        BY <2>0
    <2>2. new = [k \in DOMAIN new |-> new[k]]
        BY <2>1
    <2>3. new = moved
        BY <2>1, <2>2
    <2> QED
        BY <2>3 DEF Moves
<1>7. ASSUME NEW w \in Spaces, new = Ungrouped(old, w), c2 = c
      PROVE  Ungroups(old, new) \/ (new = old /\ c2 >= c)
    <2>1. CASE w \in {old[i].space : i \in DOMAIN old}
        BY <1>7, <2>1 DEF Ungrouped, Ungroups
    <2>2. CASE w \notin {old[i].space : i \in DOMAIN old}
        <3>1. \A i \in DOMAIN old : old[i].space # w
            BY <2>2
        <3>2. new = [i \in DOMAIN old |-> old[i]]
            BY <1>7, <3>1 DEF Ungrouped
        <3> QED
            BY <1>1, <1>7, <3>2
    <2> QED
        BY <2>1, <2>2
<1> QED
    BY <1>3, <1>4, <1>5, <1>6, <1>7 DEF RulesEdit

\* A write from the file does to its rules what RuleList allows.
LEMMA DoneKeepsList ==
    ASSUME EditsInv, Done
    PROVE  [RL!Next]_<<disk.rules, created>>
<1>1. PICK d : Wrote(d) /\ Promised(d)
    BY DEF Done
<1>2. disk' \in {disk, d} /\ created' >= created /\ created \in Nat /\ created' \in Nat
      /\ blind' \in BOOLEAN
    BY <1>1, CreatedIsNat DEF Wrote, Promised, EditsInv
<1>3. CASE blind'
    BY <1>3 DEF RL!Next, RL!Overwrite
<1>4. CASE ~blind' /\ disk'.rules = disk.rules
    <2>1. CASE created' = created
        BY <1>4, <2>1
    <2>2. CASE created' > created
        BY <1>4, <2>2 DEF RL!Next, RL!Lose
    <2> QED
        BY <1>2, <2>1, <2>2
<1>5. CASE ~blind' /\ disk' = d
    <2>1. RulesEdit(disk.rules, d.rules, created, created')
        BY <1>1, <1>5 DEF Promised
    <2>2. disk.rules \in Seq(Rule) /\ DistinctIds(disk.rules) /\ Ids(disk.rules) \subseteq 1..created
        BY GoodParts DEF EditsInv
    <2>3. disk'.rules = d.rules
        BY <1>5
    <2>4. \/ disk'.rules = disk.rules
          \/ Adds(disk.rules, disk'.rules, created, created')
          \/ /\ created' = created
             /\ \/ Removes(disk.rules, disk'.rules) \/ Changes(disk.rules, disk'.rules)
                \/ Moves(disk.rules, disk'.rules) \/ Ungroups(disk.rules, disk'.rules)
        BY <1>2, <2>1, <2>2, <2>3, EditIs
    <2>5. ASSUME Adds(disk.rules, disk'.rules, created, created') PROVE RL!Add
        BY <2>5 DEF Adds, RL!Add
    <2>6. ASSUME created' = created, Removes(disk.rules, disk'.rules) PROVE RL!Remove
        BY <2>6 DEF Removes, RL!Remove
    <2>7. ASSUME created' = created, Changes(disk.rules, disk'.rules) PROVE RL!Change
        BY <2>7 DEF Changes, RL!Change
    <2>8. ASSUME created' = created, Moves(disk.rules, disk'.rules) PROVE RL!Move
        BY <2>8 DEF Moves, RL!Move
    <2>9. ASSUME created' = created, Ungroups(disk.rules, disk'.rules) PROVE RL!Ungroup
        BY <2>9 DEF Ungroups, RL!Ungroup
    <2> QED
        BY <1>4, <1>5, <2>4, <2>5, <2>6, <2>7, <2>8, <2>9 DEF RL!Next
<1> QED
    BY <1>2, <1>3, <1>4, <1>5

\* No edit changes or moves another rule than the one it is about, and a rule
\* that was deleted does not come back, whichever editors take turns, unless the
\* write was made from an older copy.
THEOREM RuleListIsKept == ASSUME CleanDocs PROVE Spec => KeepsRuleList
<1>1. Init => RL!Init
    <2> SUFFICES ASSUME Init PROVE RL!Init
        OBVIOUS
    <2>1. disk \in InitialDocs /\ created = Len(disk.rules) /\ blind = FALSE
        BY DEF Init
    <2>2. Clean(disk) /\ Ids(disk.rules) \subseteq 1..created
        BY <2>1, EditsAssumption DEF CleanDocs
    <2> QED
        BY <2>1, <2>2 DEF RL!Init, Clean, DistinctIds, Ids
<1>2. EditsInv /\ [Next]_vars => [RL!Next]_<<disk.rules, created>>
    BY CommandsDone, DoneKeepsList, ProcessKeeps DEF Next
<1> QED
    BY <1>1, <1>2, EditsInvAlways, PTL DEF Spec, KeepsRuleList, RL!Spec
-----------------------------------------------------------------------------
(* What the user chooses from.                                             *)

\* A finite set in a row: each element once.
LEMMA SetToSeqIs ==
    ASSUME NEW S, IsFiniteSet(S)
    PROVE  /\ SetToSeq(S) \in Seq(S) /\ DOMAIN SetToSeq(S) = 1..Cardinality(S)
           /\ Cardinality(S) \in Nat
           /\ Distinct(SetToSeq(S)) /\ ToSet(SetToSeq(S)) = S
<1> DEFINE n == Cardinality(S)
           row == SetToSeq(S)
<1>1. n \in Nat /\ ExistsBijection(1..n, S)
    BY FS_CardinalityType
<1>2. PICK f : f \in Bijection(1..n, S)
    BY <1>1 DEF ExistsBijection
<1>3. f \in [1..n -> S] /\ IsInjective(f)
    BY <1>2 DEF Bijection, Injection, IsInjective
<1>4. row \in [1..n -> S] /\ IsInjective(row)
    BY <1>3 DEF SetToSeq
<1> HIDE DEF row
<1>5. row \in Seq(S) /\ DOMAIN row = 1..n
    BY <1>1, <1>4
<1>6. Distinct(row)
    BY <1>4 DEF Distinct, IsInjective
<1>7. row \in Injection(1..n, S)
    BY <1>4 DEF Injection
<1>8. Cardinality(1..n) = n
    BY <1>1, FS_Interval
<1>9. row \in Surjection(1..n, S)
    BY <1>7, <1>8, FS_Injection
<1>10. \A x \in S : \E i \in 1..n : row[i] = x
    BY <1>9 DEF Surjection
<1>11. ToSet(row) = S
    BY <1>4, <1>10 DEF ToSet
<1> QED
    BY <1>1, <1>5, <1>6, <1>11 DEF row

\* Put, place by place.
Placed(list, item, new) ==
    /\ Len(list) <= Len(new)
    /\ \A i \in DOMAIN list : new[i] = IF list[i].id = item.id THEN item ELSE list[i]
    /\ \A i \in DOMAIN new \ DOMAIN list : new[i] = item

LEMMA PutPlaces ==
    ASSUME NEW S, NEW list \in Seq(S), NEW item \in S, DistinctIds(list)
    PROVE  Placed(list, item, Put(list, item))
<1>1. CASE item.id \notin Ids(list) /\ Put(list, item) = Append(list, item)
    <2> DEFINE new == Append(list, item)
    <2>1. new \in Seq(S) /\ DOMAIN new = 1..(Len(list) + 1) /\ new[Len(list) + 1] = item
          /\ (\A i \in 1..Len(list) : new[i] = list[i]) /\ DOMAIN list = 1..Len(list)
          /\ Len(list) \in Nat /\ Len(new) = Len(list) + 1
        OBVIOUS
    <2> HIDE DEF new
    <2>2. \A i \in DOMAIN list : list[i].id # item.id
        BY <1>1 DEF Ids
    <2>3. \A i \in DOMAIN new \ DOMAIN list : i = Len(list) + 1
        BY <2>1
    <2>4. Len(list) <= Len(new)
        BY <2>1
    <2>5. Put(list, item) = new
        BY <1>1 DEF new
    <2> QED
        BY <2>1, <2>2, <2>3, <2>4, <2>5 DEF Placed
<1>2. ASSUME NEW at \in 1..Len(list), list[at].id = item.id,
             Put(list, item) = [list EXCEPT ![at] = item]
      PROVE  Placed(list, item, Put(list, item))
    <2> DEFINE new == [list EXCEPT ![at] = item]
    <2>1. new \in Seq(S) /\ DOMAIN new = DOMAIN list /\ at \in DOMAIN list
          /\ new[at] = item /\ (\A i \in DOMAIN list \ {at} : new[i] = list[i])
          /\ Len(new) = Len(list) /\ Len(list) \in Nat
        OBVIOUS
    <2> HIDE DEF new
    <2>2. \A i \in DOMAIN list : list[i].id = item.id => i = at
        BY <1>2, <2>1 DEF DistinctIds
    <2>3. Put(list, item) = new
        BY <1>2 DEF new
    <2>4. Len(list) <= Len(new)
        BY <2>1
    <2> QED
        BY <1>2, <2>1, <2>2, <2>3, <2>4 DEF Placed
<1> QED
    BY <1>1, <1>2, PutIs

\* The function that Merged is read off exists: the entries are put one by one.
LEMMA MergedSteps ==
    ASSUME NEW detected, NEW customs, Len(customs) \in Nat
    PROVE  \E m : /\ m[0] = detected
                  /\ \A n \in 1..Len(customs) : m[n] = Put(m[n - 1], customs[n])
                  /\ Merged(detected, customs) = m[Len(customs)]
<1> DEFINE Step(n, m) == [k \in 0..n |-> IF k = 0 THEN detected ELSE Put(m[k - 1], customs[k])]
           T == {n \in Nat : ~\E m : m = Step(n, m)}
<1>1. T = {}
    <2> SUFFICES ASSUME T # {} PROVE FALSE
        OBVIOUS
    <2>1. PICK n \in T : \A j \in T : n <= j
        BY LeastNat
    <2>2. n # 0
        <3> DEFINE m0 == [k \in 0..0 |-> detected]
        <3>1. m0 = Step(0, m0)
            OBVIOUS
        <3> QED
            BY <3>1
    <2>3. n - 1 \in Nat /\ n \in Nat /\ n - 1 \notin T
        BY <2>1, <2>2, SMTT(60)
    <2>4. PICK m : m = Step(n - 1, m)
        BY <2>3
    <2> DEFINE next == [k \in 0..n |-> IF k = n THEN Put(m[n - 1], customs[n]) ELSE m[k]]
    <2>5. \A k \in 0..(n - 1) : m[k] = IF k = 0 THEN detected ELSE Put(m[k - 1], customs[k])
        BY <2>4
    <2>6. ASSUME NEW k \in 0..n
          PROVE  next[k] = IF k = 0 THEN detected ELSE Put(next[k - 1], customs[k])
        <3>1. CASE k = n
            <4>1. n - 1 \in 0..n /\ n - 1 # n
                BY <2>3
            <4>2. next[n - 1] = m[n - 1]
                BY <4>1
            <4> QED
                BY <2>2, <3>1, <4>2
        <3>2. CASE k # n
            <4>1. k \in 0..(n - 1)
                BY <2>3, <3>2
            <4>2. next[k] = m[k]
                BY <3>2
            <4>3. CASE k = 0
                BY <2>5, <4>1, <4>2, <4>3
            <4>4. CASE k # 0
                <5>1. k - 1 \in 0..n /\ k - 1 # n
                    BY <2>3, <4>1, <4>4
                <5>2. next[k - 1] = m[k - 1]
                    BY <5>1
                <5> QED
                    BY <2>5, <4>1, <4>2, <4>4, <5>2
            <4> QED
                BY <4>3, <4>4
        <3> QED
            BY <3>1, <3>2
    <2>7. next = Step(n, next)
        <3> DEFINE s == Step(n, next)
        <3>1. \A k \in 0..n : s[k] = IF k = 0 THEN detected ELSE Put(next[k - 1], customs[k])
            OBVIOUS
        <3>2. DOMAIN s = 0..n /\ DOMAIN next = 0..n /\ s = [k \in 0..n |-> s[k]]
              /\ next = [k \in 0..n |-> next[k]]
            OBVIOUS
        <3> HIDE DEF s, next
        <3>3. \A k \in 0..n : s[k] = next[k]
            BY <2>6, <3>1
        <3>4. s = next
            BY <3>2, <3>3
        <3> QED
            BY <3>4 DEF s
    <2> QED
        BY <2>1, <2>3, <2>7
<1>2. \E m : m = Step(Len(customs), m)
    BY <1>1
<1> DEFINE all == CHOOSE m : m = Step(Len(customs), m)
<1>3. all = Step(Len(customs), all)
    BY <1>2
<1>4. Merged(detected, customs) = all[Len(customs)]
    BY DEF Merged
<1> HIDE DEF all
<1>5. all[0] = detected /\ \A n \in 1..Len(customs) : all[n] = Put(all[n - 1], customs[n])
    <2>1. \A n \in 0..Len(customs) :
              all[n] = IF n = 0 THEN detected ELSE Put(all[n - 1], customs[n])
        BY <1>3
    <2>2. 0 \in 0..Len(customs) /\ \A n \in 1..Len(customs) : n \in 0..Len(customs) /\ n # 0
        OBVIOUS
    <2> QED
        BY <2>1, <2>2
<1> QED
    BY <1>4, <1>5

\* Each browser once, the user's entry where there is one, the others as they
\* were and everything in its place.
LEMMA MergedKeeps ==
    ASSUME NEW S, NEW detected \in Seq(S), NEW customs \in Seq(S), DistinctIds(detected)
    PROVE  /\ DistinctIds(Merged(detected, customs))
           /\ Ids(Merged(detected, customs)) = Ids(detected) \cup Ids(customs)
           /\ \A i \in DOMAIN detected : Merged(detected, customs)[i].id = detected[i].id
           /\ \A i \in DOMAIN Merged(detected, customs) :
                  \/ Merged(detected, customs)[i] \in Entries(customs)
                  \/ /\ Merged(detected, customs)[i] \in Entries(detected)
                     /\ Merged(detected, customs)[i].id \notin Ids(customs)
<1>0. \E m : /\ m[0] = detected
             /\ \A n \in 1..Len(customs) : m[n] = Put(m[n - 1], customs[n])
             /\ Merged(detected, customs) = m[Len(customs)]
    <2>1. Len(customs) \in Nat
        OBVIOUS
    <2> QED
        BY <2>1, MergedSteps
<1> DEFINE size == Len(customs)
<1>1. size \in Nat /\ DOMAIN customs = 1..size /\ \A n \in 1..size : customs[n] \in S
    OBVIOUS
<1>2. PICK m : /\ m[0] = detected
               /\ \A n \in 1..size : m[n] = Put(m[n - 1], customs[n])
               /\ Merged(detected, customs) = m[size]
    BY <1>0
<1> DEFINE Some(n) == {customs[k].id : k \in 1..n}
           J(n) == /\ m[n] \in Seq(S) /\ DistinctIds(m[n])
                   /\ Ids(m[n]) = Ids(detected) \cup Some(n)
                   /\ Len(detected) <= Len(m[n])
                   /\ \A i \in DOMAIN detected : m[n][i].id = detected[i].id
                   /\ \A i \in DOMAIN m[n] :
                          \/ \E k \in 1..n : m[n][i] = customs[k]
                          \/ m[n][i] \in Entries(detected) /\ m[n][i].id \notin Some(n)
<1>3. J(0)
    <2>1. Some(0) = {}
        OBVIOUS
    <2>2. Len(detected) <= Len(detected)
        OBVIOUS
    <2> HIDE DEF Some
    <2>3. \A i \in DOMAIN detected : detected[i] \in Entries(detected)
        BY DEF Entries
    <2> QED
        BY <1>2, <2>1, <2>2, <2>3
<1>4. ASSUME NEW n \in 1..size, J(n - 1)
      PROVE  J(n)
    <2> DEFINE old == m[n - 1]
               item == customs[n]
               new == m[n]
    <2>1. old \in Seq(S) /\ DistinctIds(old) /\ item \in S /\ new = Put(old, item)
        BY <1>1, <1>2, <1>4
    <2>2. new \in Seq(S) /\ Ids(new) = Ids(old) \cup {item.id} /\ DistinctIds(new)
        <3> HIDE DEF old, item, new
        <3> QED
            BY <2>1, PutKeeps
    <2>3. /\ Len(old) <= Len(new)
          /\ \A i \in DOMAIN old : new[i] = IF old[i].id = item.id THEN item ELSE old[i]
          /\ \A i \in DOMAIN new \ DOMAIN old : new[i] = item
        <3> HIDE DEF old, item, new
        <3>1. Placed(old, item, Put(old, item))
            BY <2>1, PutPlaces
        <3> QED
            BY <2>1, <3>1 DEF Placed
    <2>4. Some(n) = Some(n - 1) \cup {item.id}
        <3>1. \A k \in 1..n : k \in 1..(n - 1) \/ k = n
            BY <1>1
        <3>2. \A k \in 1..(n - 1) : k \in 1..n
            BY <1>1
        <3>3. n \in 1..n
            BY <1>1
        <3> QED
            BY <3>1, <3>2, <3>3
    <2>5. \A k \in 1..(n - 1) : k \in 1..n
        BY <1>1
    <2>6. n \in 1..n
        BY <1>1
    <2>7. \A i \in DOMAIN detected : i \in DOMAIN old
        BY <1>4, <2>1
    <2> HIDE DEF Some
    <2>8. /\ Ids(old) = Ids(detected) \cup Some(n - 1)
          /\ Len(detected) <= Len(old)
          /\ \A i \in DOMAIN detected : old[i].id = detected[i].id
          /\ \A i \in DOMAIN old :
                 \/ \E k \in 1..(n - 1) : old[i] = customs[k]
                 \/ old[i] \in Entries(detected) /\ old[i].id \notin Some(n - 1)
        BY <1>4
    <2> HIDE DEF old, new, item
    <2>9. Len(detected) <= Len(new)
        <3>1. Len(detected) \in Nat /\ Len(old) \in Nat /\ Len(new) \in Nat
            BY <2>1, <2>2
        <3> QED
            BY <2>3, <2>8, <3>1
    <2>10. \A i \in DOMAIN detected : new[i].id = detected[i].id
        BY <2>3, <2>7, <2>8
    <2>11. \A i \in DOMAIN new :
              \/ \E k \in 1..n : new[i] = customs[k]
              \/ new[i] \in Entries(detected) /\ new[i].id \notin Some(n)
        <3> TAKE i \in DOMAIN new
        <3>1. CASE new[i] = item
            BY <2>6, <3>1 DEF item
        <3>2. CASE new[i] # item
            <4>1. i \in DOMAIN old /\ new[i] = old[i] /\ old[i].id # item.id
                BY <2>3, <3>2
            <4> QED
                BY <2>4, <2>5, <2>8, <4>1
        <3> QED
            BY <3>1, <3>2
    <2>12. Ids(new) = Ids(detected) \cup Some(n)
        BY <2>2, <2>4, <2>8
    <2> QED
        BY <2>2, <2>9, <2>10, <2>11, <2>12 DEF new
<1>5. J(size)
    <2> DEFINE T == {n \in Nat : n <= size /\ ~J(n)}
    <2> HIDE DEF J
    <2> SUFFICES ASSUME T # {} PROVE FALSE
        BY <1>1
    <2>1. PICK n \in T : \A j \in T : n <= j
        BY LeastNat
    <2>2. n # 0 /\ n \in Nat /\ n <= size /\ ~J(n)
        BY <1>3, <2>1
    <2>3. n - 1 \in Nat /\ n - 1 <= size /\ n - 1 \notin T /\ n \in 1..size
        BY <1>1, <2>1, <2>2
    <2> QED
        BY <1>4, <2>2, <2>3
<1>6. Some(size) = Ids(customs)
    BY <1>1 DEF Ids
<1>7. \A k \in 1..size : customs[k] \in Entries(customs)
    BY <1>1 DEF Entries
<1> HIDE DEF Some
<1> QED
    BY <1>2, <1>5, <1>6, <1>7

\* A list of distinct ids, without some of them, is in the order of the list.
LEMMA KeptInOrder ==
    ASSUME NEW S, NEW list \in Seq(S), Distinct(list), NEW keep \in SUBSET (DOMAIN list)
    PROVE  /\ InOrderOf(Kept(list, keep), list)
           /\ Distinct(Kept(list, keep))
           /\ ToSet(Kept(list, keep)) = {list[i] : i \in keep}
<1> DEFINE D == 1..Cardinality(keep)
<1>1. /\ DOMAIN Kept(list, keep) = D
      /\ \A m \in D : Nth(keep, m) \in keep /\ Kept(list, keep)[m] = list[Nth(keep, m)]
      /\ \A l, m \in D : l < m => Nth(keep, l) < Nth(keep, m)
    BY KeptFacts
<1>2. \A i \in keep : i \in Nat /\ i \in DOMAIN list
    OBVIOUS
<1>4. \A l, m \in D : l \in Int /\ m \in Int
    OBVIOUS
<1> HIDE DEF D
<1>9. /\ \A m \in DOMAIN Kept(list, keep) : \E i \in keep : Kept(list, keep)[m] = list[i]
      /\ \A i \in keep : \E m \in DOMAIN Kept(list, keep) : Kept(list, keep)[m] = list[i]
      /\ (\A i, j \in keep : list[i] = list[j] => i = j) =>
                \A l, m \in DOMAIN Kept(list, keep) :
                    Kept(list, keep)[l] = Kept(list, keep)[m] => l = m
    BY KeptKeeps
<1>3. /\ \A m \in D : \E i \in keep : Kept(list, keep)[m] = list[i]
      /\ \A i \in keep : \E m \in D : Kept(list, keep)[m] = list[i]
      /\ (\A i, j \in keep : list[i] = list[j] => i = j) =>
                \A l, m \in D : Kept(list, keep)[l] = Kept(list, keep)[m] => l = m
    BY <1>1, <1>9, Zenon
<1>5. Distinct(Kept(list, keep))
    BY <1>1, <1>2, <1>3 DEF Distinct
<1>6. ToSet(Kept(list, keep)) = {list[i] : i \in keep}
    BY <1>1, <1>3 DEF ToSet
<1>7. ASSUME NEW i \in D, NEW j \in D, NEW k \in DOMAIN list, NEW l \in DOMAIN list,
             Kept(list, keep)[i] = list[k], Kept(list, keep)[j] = list[l]
      PROVE  i < j <=> k < l
    <2>1. Nth(keep, i) = k /\ Nth(keep, j) = l
        BY <1>1, <1>2, <1>7 DEF Distinct
    <2>2. i = j => k = l
        BY <2>1
    <2>3. i < j => k < l
        BY <1>1, <2>1
    <2>4. j < i => l < k
        BY <1>1, <2>1
    <2>5. k \in Nat /\ l \in Nat
        OBVIOUS
    <2> QED
        BY <1>4, <2>2, <2>3, <2>4, <2>5
<1>8. InOrderOf(Kept(list, keep), list)
    BY <1>1, <1>7 DEF InOrderOf
<1> QED
    BY <1>5, <1>6, <1>8

\* Nothing to drop: a list of distinct ids is its own deduplication.
LEMMA DedupedDistinct ==
    ASSUME NEW S, NEW list \in Seq(S), Distinct(list)
    PROVE  Deduped(list) = list
<1>1. \A i \in DOMAIN list : \A j \in 1..(i - 1) : j \in DOMAIN list /\ j # i
    OBVIOUS
<1>2. {i \in DOMAIN list : \A j \in 1..(i - 1) : list[j] # list[i]} = DOMAIN list
    BY <1>1 DEF Distinct
<1> QED
    BY <1>2, AllKept DEF Deduped

\* A tile shows what the browser has, each once, or what was saved of it, in
\* the saved order.
LEMMA ProfilesAre ==
    ASSUME NEW real, IsFiniteSet(real), NEW order \in Seq(ProfileIds), Distinct(order)
    PROVE  /\ Distinct(Profiles(real, order))
           /\ InOrderOf(Profiles(real, order), order)
           /\ ToSet(Profiles(real, order)) =
                  IF order = <<>> THEN real ELSE real \cap ToSet(order)
<1>1. CASE order = <<>>
    <2>1. Profiles(real, order) = SetToSeq(real)
        BY <1>1 DEF Profiles
    <2>2. Distinct(SetToSeq(real)) /\ ToSet(SetToSeq(real)) = real
        BY SetToSeqIs
    <2>3. DOMAIN order = {}
        BY <1>1
    <2>4. InOrderOf(Profiles(real, order), order)
        BY <2>3 DEF InOrderOf
    <2> QED
        BY <1>1, <2>1, <2>2, <2>4
<1>2. CASE order # <<>>
    <2> DEFINE keep == {i \in DOMAIN order : order[i] \in real}
               shown == Kept(order, keep)
    <2>1. keep \in SUBSET (DOMAIN order)
        OBVIOUS
    <2>2. {order[i] : i \in keep} = real \cap ToSet(order)
        BY DEF ToSet
    <2>3. Profiles(real, order) = Deduped(shown)
        BY <1>2 DEF Profiles
    <2> HIDE DEF keep
    <2>4. shown \in Seq(ProfileIds)
        BY <2>1, KeptFacts
    <2>5. InOrderOf(shown, order) /\ Distinct(shown) /\ ToSet(shown) = real \cap ToSet(order)
        BY <2>1, <2>2, KeptInOrder
    <2> HIDE DEF shown
    <2>6. Deduped(shown) = shown
        BY <2>4, <2>5, DedupedDistinct
    <2> QED
        BY <1>2, <2>3, <2>5, <2>6
<1> QED
    BY <1>1, <1>2

\* What is visible: some of what is offered, and hidden only if all is.
LEMMA VisibleIs ==
    ASSUME NEW S, NEW offered \in Seq(S), offered # <<>>, NEW T, NEW hidden \in Seq(T)
    PROVE  /\ Visible(offered, hidden) \in Seq(S) /\ Visible(offered, hidden) # <<>>
           /\ ToSet(Visible(offered, hidden)) \subseteq ToSet(offered)
           /\ \A i \in DOMAIN Visible(offered, hidden) :
                  Contains(hidden, Visible(offered, hidden)[i]) =>
                      ToSet(offered) \subseteq ToSet(hidden)
<1> DEFINE keep == {i \in DOMAIN offered : ~Contains(hidden, offered[i])}
           kept == Kept(offered, keep)
<1>1. keep \in SUBSET (DOMAIN offered) /\ Visible(offered, hidden) = IF kept = <<>> THEN offered ELSE kept
    BY DEF Visible
<1>2. /\ kept \in Seq(S)
      /\ \A m \in DOMAIN kept : \E i \in keep : kept[m] = offered[i]
      /\ \A i \in keep : \E m \in DOMAIN kept : kept[m] = offered[i]
    BY <1>1, KeptFacts, KeptKeeps, ZenonT(60)
<1>3. \A i \in DOMAIN offered : i \in keep <=> ~Contains(hidden, offered[i])
    OBVIOUS
<1> HIDE DEF keep, kept
<1>4. CASE kept = <<>>
    <2>1. keep = {}
        BY <1>2, <1>4
    <2>2. \A i \in DOMAIN offered : Contains(hidden, offered[i])
        BY <1>3, <2>1
    <2>3. \A x : Contains(hidden, x) => x \in ToSet(hidden)
        BY DEF Contains, ToSet
    <2> QED
        BY <1>1, <1>4, <2>2, <2>3 DEF ToSet
<1>5. CASE kept # <<>>
    <2>1. \A m \in DOMAIN kept : kept[m] \in ToSet(offered) /\ ~Contains(hidden, kept[m])
        BY <1>1, <1>2, <1>3 DEF ToSet
    <2>2. ToSet(kept) \subseteq ToSet(offered)
        BY <2>1 DEF ToSet
    <2> QED
        BY <1>1, <1>2, <1>5, <2>1, <2>2
<1> QED
    BY <1>4, <1>5

\* merged_browsers, for any inventory and any document: each browser once, the
\* user's entry where there is one, the detected ones in their places.
LEMMA ListIsUsable == ASSUME EditsInv PROVE ListedOnce
<1> SUFFICES ASSUME NEW installed \in SUBSET Browsers
             PROVE  LET ids == SetToSeq(installed)
                        scan == [i \in DOMAIN ids |-> [id |-> ids[i], by |-> "scan"]]
                        list == Merged(scan, gui.customs)
                    IN  /\ DistinctIds(list)
                        /\ Ids(list) = installed \cup Ids(gui.customs)
                        /\ \A i \in DOMAIN list :
                               list[i].by = "user" <=> list[i].id \in Ids(gui.customs)
                        /\ \A i \in DOMAIN ids : list[i].id = ids[i]
    BY DEF ListedOnce
<1> DEFINE ids == SetToSeq(installed)
           scan == [i \in DOMAIN ids |-> [id |-> ids[i], by |-> "scan"]]
           customs == gui.customs
           list == Merged(scan, customs)
           S == [id : Browsers, by : {"user", "scan"}]
<1>1. IsFiniteSet(installed)
    BY EditsAssumption, FS_Subset
<1>2. /\ ids \in Seq(installed) /\ DOMAIN ids = 1..Cardinality(installed)
      /\ Cardinality(installed) \in Nat /\ Distinct(ids) /\ ToSet(ids) = installed
    BY <1>1, SetToSeqIs
<1> HIDE DEF ids
<1>3. \A i \in DOMAIN ids : ids[i] \in installed
    BY <1>2
<1>4. /\ DOMAIN scan = 1..Cardinality(installed) /\ DOMAIN scan = DOMAIN ids
      /\ \A i \in DOMAIN ids : scan[i] = [id |-> ids[i], by |-> "scan"]
    BY <1>2
<1>5. scan \in Seq(S)
    <2>1. \A i \in DOMAIN ids : [id |-> ids[i], by |-> "scan"] \in S
        BY <1>3
    <2>2. scan \in [1..Cardinality(installed) -> S]
        BY <1>2, <2>1
    <2> HIDE DEF S, scan
    <2> QED
        BY <1>2, <2>2
<1>6. gui \in Doc
    BY DEF EditsInv, Good
<1>7. customs \in Seq([id : Browsers, by : {"user"}])
    BY <1>6 DEF Doc
<1> HIDE DEF customs
<1>8. customs \in Seq(S) /\ \A k \in DOMAIN customs : customs[k].by = "user"
    <2>1. DOMAIN customs = 1..Len(customs) /\ Len(customs) \in Nat
          /\ \A k \in DOMAIN customs : customs[k] \in [id : Browsers, by : {"user"}]
        <3> DEFINE U == [id : Browsers, by : {"user"}]
        <3> HIDE DEF U
        <3>1. customs \in Seq(U)
            BY <1>7 DEF U
        <3>2. DOMAIN customs = 1..Len(customs) /\ Len(customs) \in Nat
              /\ \A k \in DOMAIN customs : customs[k] \in U
            BY <3>1
        <3> QED
            BY <3>2 DEF U
    <2>2. \A k \in DOMAIN customs : customs[k] \in S /\ customs[k].by = "user"
        BY <2>1
    <2>3. customs = [k \in 1..Len(customs) |-> customs[k]]
        BY <1>7
    <2> HIDE DEF S
    <2>4. customs \in [1..Len(customs) -> S]
        BY <2>1, <2>2, <2>3
    <2> QED
        BY <2>1, <2>2, <2>4
<1> HIDE DEF S
<1>9. DistinctIds(scan) /\ Ids(scan) = installed
    <2>1. \A i \in DOMAIN scan : scan[i].id = ids[i] /\ scan[i].by = "scan"
        BY <1>4
    <2> HIDE DEF scan
    <2> QED
        BY <1>2, <1>4, <2>1 DEF DistinctIds, Ids, Distinct, ToSet
<1>10. \A i \in DOMAIN scan : scan[i].id = ids[i] /\ scan[i].by = "scan"
    BY <1>4
<1> HIDE DEF scan
<1>11. /\ DistinctIds(list)
       /\ Ids(list) = Ids(scan) \cup Ids(customs)
       /\ \A i \in DOMAIN scan : list[i].id = scan[i].id
       /\ \A i \in DOMAIN list :
              \/ list[i] \in Entries(customs)
              \/ list[i] \in Entries(scan) /\ list[i].id \notin Ids(customs)
    BY <1>5, <1>8, <1>9, MergedKeeps
<1> HIDE DEF list
<1>12. \A x \in Entries(customs) : x.by = "user" /\ x.id \in Ids(customs)
    BY <1>8 DEF Entries, Ids
<1>13. \A x \in Entries(scan) : x.by # "user"
    BY <1>10 DEF Entries
<1>14. \A i \in DOMAIN list : list[i].by = "user" <=> list[i].id \in Ids(customs)
    BY <1>11, <1>12, <1>13
<1>15. \A i \in DOMAIN ids : list[i].id = ids[i]
    BY <1>4, <1>10, <1>11
<1> QED
    BY <1>9, <1>11, <1>14, <1>15 DEF list, scan, ids, customs

\* The ask picker, for any browsers offered and any document.
LEMMA WheelAlwaysUsable == ASSUME EditsInv PROVE WheelIsUsable
<1> SUFFICES ASSUME NEW offered \in (SUBSET Browsers) \ {{}}
             PROVE  LET wheel == Wheel(SetToSeq(offered), Real, gui)
                    IN  /\ wheel # <<>>
                        /\ \A i \in DOMAIN wheel :
                               LET b == wheel[i].id
                                   shown == wheel[i].profiles
                               IN  /\ Contains(gui.hidden, b) => offered \subseteq ToSet(gui.hidden)
                                   /\ Distinct(shown)
                                   /\ ToSet(shown) = IF gui.orders[b] = <<>> THEN Real[b]
                                                     ELSE Real[b] \cap ToSet(gui.orders[b])
                                   /\ InOrderOf(shown, gui.orders[b])
    BY DEF WheelIsUsable
<1> DEFINE row == SetToSeq(offered)
           visible == Visible(row, gui.hidden)
           wheel == Wheel(row, Real, gui)
<1>1. IsFiniteSet(offered) /\ \A b \in Browsers : IsFiniteSet(Real[b])
    BY EditsAssumption, FS_Subset
<1>2. /\ row \in Seq(offered) /\ DOMAIN row = 1..Cardinality(offered)
      /\ ToSet(row) = offered
    BY <1>1, SetToSeqIs
<1> HIDE DEF row
<1>3. row # <<>>
    <2>1. DOMAIN row # {}
        BY <1>2 DEF ToSet
    <2> QED
        BY <2>1
<1>4. /\ gui \in Doc /\ Clean(gui)
    BY DEF EditsInv, Good
<1>5. /\ gui.hidden \in Seq(Browsers) /\ gui.orders \in [Browsers -> Seq(ProfileIds)]
      /\ \A b \in Browsers : Distinct(gui.orders[b])
    BY <1>4 DEF Doc, Clean
<1>6. /\ visible \in Seq(offered) /\ visible # <<>>
      /\ \A i \in DOMAIN visible :
              Contains(gui.hidden, visible[i]) => ToSet(row) \subseteq ToSet(gui.hidden)
    BY <1>2, <1>3, <1>5, VisibleIs
<1> HIDE DEF visible
<1> DEFINE tile(i) == [id |-> visible[i],
                       profiles |-> Profiles(Real[visible[i]], gui.orders[visible[i]])]
<1>7. wheel = [i \in DOMAIN visible |-> tile(i)]
    BY DEF Wheel, visible
<1> HIDE DEF wheel
<1>8. /\ DOMAIN wheel = DOMAIN visible
      /\ \A i \in DOMAIN visible :
             /\ wheel[i].id = visible[i]
             /\ wheel[i].profiles = Profiles(Real[visible[i]], gui.orders[visible[i]])
    <2>1. \A i \in DOMAIN visible :
              /\ tile(i).id = visible[i]
              /\ tile(i).profiles = Profiles(Real[visible[i]], gui.orders[visible[i]])
        OBVIOUS
    <2> HIDE DEF tile
    <2>2. DOMAIN wheel = DOMAIN visible /\ \A i \in DOMAIN visible : wheel[i] = tile(i)
        BY <1>7
    <2> QED
        BY <2>1, <2>2
<1> HIDE DEF tile
<1>9. wheel # <<>>
    <2>1. DOMAIN visible # {}
        BY <1>6
    <2> QED
        BY <1>8, <2>1
<1>10. ASSUME NEW i \in DOMAIN wheel
       PROVE  /\ Contains(gui.hidden, wheel[i].id) => offered \subseteq ToSet(gui.hidden)
              /\ Distinct(wheel[i].profiles)
              /\ ToSet(wheel[i].profiles) =
                     IF gui.orders[wheel[i].id] = <<>> THEN Real[wheel[i].id]
                     ELSE Real[wheel[i].id] \cap ToSet(gui.orders[wheel[i].id])
              /\ InOrderOf(wheel[i].profiles, gui.orders[wheel[i].id])
    <2> DEFINE b == wheel[i].id
    <2>1. b = visible[i] /\ wheel[i].profiles = Profiles(Real[b], gui.orders[b])
        BY <1>8
    <2>2. b \in Browsers
        <3>1. visible[i] \in offered
            BY <1>6, <1>8
        <3> QED
            BY <2>1, <3>1
    <2>3. Contains(gui.hidden, b) => offered \subseteq ToSet(gui.hidden)
        BY <1>2, <1>6, <1>8, <2>1
    <2> HIDE DEF b
    <2>4. IsFiniteSet(Real[b]) /\ gui.orders[b] \in Seq(ProfileIds) /\ Distinct(gui.orders[b])
        BY <1>1, <1>5, <2>2
    <2>5. /\ Distinct(Profiles(Real[b], gui.orders[b]))
          /\ InOrderOf(Profiles(Real[b], gui.orders[b]), gui.orders[b])
          /\ ToSet(Profiles(Real[b], gui.orders[b])) =
                  IF gui.orders[b] = <<>> THEN Real[b] ELSE Real[b] \cap ToSet(gui.orders[b])
        BY <2>4, ProfilesAre
    <2> QED
        BY <2>1, <2>3, <2>5 DEF b
<1> QED
    BY <1>9, <1>10 DEF wheel, row

\* Both lists that a user chooses from are usable, for every document that any
\* sequence of edits produces and for any inventory.
THEOREM ChooserAlwaysUsable == ASSUME CleanDocs PROVE Spec => []ChooserIsUsable
<1>1. EditsInv => ChooserIsUsable
    BY ListIsUsable, WheelAlwaysUsable DEF ChooserIsUsable
<1> QED
    BY <1>1, EditsInvAlways, PTL
=============================================================================
