---------------------------- MODULE DesktopProofs ----------------------------
(***************************************************************************)
(* The route history, the log of picks, the opener detection and the tray, *)
(* for any number of routes, picks, applications and clicks.               *)
(*                                                                         *)
(* Each part has an inductive invariant of its own (HistoryInv, ObsInv,    *)
(* OpenerInv, TrayInv), a lemma for each kind of step, and a theorem that  *)
(* a behaviour of the composition keeps what its run checks.               *)
(***************************************************************************)
EXTENDS Desktop, SequenceTheorems, FiniteSetTheorems, NaturalsInduction,
        WellFoundedInduction, TLAPS

-----------------------------------------------------------------------------
(* The route history.                                                      *)

\* A position of the ring is one at the end of the log.
Tailing ==
    /\ ring \in Seq(Routes) /\ log \in Seq(Routes)
    /\ RingIsNewest

\* Logging one more record keeps the ring at the end of the log, whether or not
\* the ring is full.
LEMMA PushKeepsNewest ==
    ASSUME Tailing, NEW r \in Routes,
           ring' = Push(ring, r), log' = Append(log, r)
    PROVE  Tailing'
<1>1. Capacity \in Nat \ {0}
    BY HistoryAssumption
<1>2. Len(ring) \in Nat /\ Len(log) \in Nat /\ Len(log') = Len(log) + 1
    BY DEF Tailing
<1>3. \A i \in 1..Len(log) : log'[i] = log[i]
    BY DEF Tailing
<1>4. log'[Len(log) + 1] = r
    BY DEF Tailing
<1>5. CASE Len(ring) = Capacity
    <2>1. ring # <<>>
        BY <1>1, <1>5 DEF Tailing
    <2>2. Tail(ring) \in Seq(Routes) /\ Len(Tail(ring)) = Capacity - 1
        BY <1>1, <1>5, <2>1 DEF Tailing
    <2>3. \A i \in 1..Capacity - 1 : Tail(ring)[i] = ring[i + 1]
        BY <1>1, <1>5, <2>1 DEF Tailing
    <2>4. ring' = Append(Tail(ring), r)
        BY <1>5 DEF Push
    <2>5. ring' \in Seq(Routes) /\ Len(ring') = Capacity
        BY <1>1, <2>2, <2>4
    <2>6. \A i \in 1..Capacity - 1 : ring'[i] = ring[i + 1]
        BY <1>1, <2>2, <2>3, <2>4
    <2>7. ring'[Capacity] = r
        BY <1>1, <2>2, <2>4
    <2>8. Len(log) >= Capacity
        BY <1>1, <1>2, <1>5 DEF Tailing, RingIsNewest
    <2>9. \A i \in 1..Capacity : ring'[i] = log'[Len(log') - Capacity + i]
        <3> TAKE i \in 1..Capacity
        <3>1. CASE i = Capacity
            BY <1>1, <1>2, <1>4, <2>7, <3>1
        <3>2. CASE i # Capacity
            <4>1. i + 1 \in DOMAIN ring
                BY <1>1, <1>5, <3>2 DEF Tailing
            <4>2. ring[i + 1] = log[Len(log) - Capacity + (i + 1)]
                BY <1>5, <4>1 DEF Tailing, RingIsNewest
            <4>3. Len(log) - Capacity + (i + 1) \in 1..Len(log)
                BY <1>1, <1>2, <2>8, <3>2
            <4>4. Len(log) - Capacity + (i + 1) = Len(log') - Capacity + i
                BY <1>1, <1>2
            <4> QED
                BY <1>1, <1>3, <2>6, <3>2, <4>2, <4>3, <4>4
        <3> QED
            BY <3>1, <3>2
    <2>10. log' \in Seq(Routes)
        BY DEF Tailing
    <2>11. Len(log') \in Nat /\ ~(Len(log') < Capacity)
        BY <1>1, <1>2, <2>8
    <2>12. DOMAIN ring' = 1..Capacity
        BY <1>1, <2>5
    <2>13. Len(ring') = IF Len(log') < Capacity THEN Len(log') ELSE Capacity
        BY <2>5, <2>11
    <2>14. \A i \in DOMAIN ring' : ring'[i] = log'[Len(log') - Len(ring') + i]
        BY <2>5, <2>9, <2>12
    <2> QED
        BY <2>5, <2>10, <2>13, <2>14 DEF Tailing, RingIsNewest
<1>6. CASE Len(ring) # Capacity
    <2>1. Len(ring) = Len(log) /\ Len(log) < Capacity
        BY <1>1, <1>2, <1>6 DEF Tailing, RingIsNewest
    <2>2. ring' = Append(ring, r)
        BY <1>6 DEF Push
    <2>3. ring' \in Seq(Routes) /\ Len(ring') = Len(ring) + 1
        BY <2>2 DEF Tailing
    <2>4. \A i \in 1..Len(ring') : ring'[i] = log'[i]
        <3> TAKE i \in 1..Len(ring')
        <3>1. CASE i = Len(ring) + 1
            BY <1>2, <1>4, <2>1, <2>2, <3>1 DEF Tailing
        <3>2. CASE i # Len(ring) + 1
            <4>1. i \in 1..Len(ring) /\ i \in DOMAIN ring
                BY <1>2, <2>3, <3>2 DEF Tailing
            <4>2. ring[i] = log[Len(log) - Len(ring) + i]
                BY <4>1 DEF Tailing, RingIsNewest
            <4>3. Len(log) - Len(ring) + i = i
                BY <1>2, <2>1, <4>1
            <4> QED
                BY <1>3, <2>1, <2>2, <4>1, <4>2, <4>3 DEF Tailing
        <3> QED
            BY <3>1, <3>2
    <2>5. log' \in Seq(Routes)
        BY DEF Tailing
    <2> QED
        BY <1>1, <1>2, <2>1, <2>3, <2>4, <2>5 DEF Tailing, RingIsNewest
<1> QED
    BY <1>5, <1>6

\* RouteHistory::log, from any threads: the ring always holds the newest
\* records, as many as fit, in the order in which they were logged.
THEOREM RingHoldsTheNewest == Spec => []RingIsNewest
<1>1. Init => Tailing
    BY HistoryAssumption DEF Init, Tailing, RingIsNewest
<1>2. Tailing /\ [Next]_vars => Tailing'
    <2> SUFFICES ASSUME Tailing, [Next]_vars
                 PROVE  Tailing'
        OBVIOUS
    <2>1. ASSUME NEW r \in Routes, Log(r)
          PROVE  Tailing'
        BY <2>1, PushKeepsNewest DEF Log
    <2>2. CASE UNCHANGED <<ring, log>>
        BY <2>2 DEF Tailing, RingIsNewest
    <2> QED
        BY <2>1, <2>2
        DEF Next, Announce, Deliver, Listen, Ask, Answer, Show, vars
<1>3. Tailing => RingIsNewest
    BY DEF Tailing
<1> QED
    BY <1>1, <1>2, <1>3, PTL DEF Spec

\* s shows the newest of the first d records of q, as many as a page shows.
AreNewest(s, q, d) ==
    /\ Len(s) = IF d < Limit THEN d ELSE Limit
    /\ \A i \in 1..Len(s) : s[i] = q[d + 1 - i]

\* The page is to hear of the records d + 1..e next, all that are announced, in
\* their order, and shows the ones before them, or will when it has its answer.
Follows(d, e) ==
    /\ d <= e /\ e <= Len(log)
    /\ Len(events) = e - d
    /\ \A i \in 1..Len(events) : events[i] = log[d + i]
    /\ \A k \in 1..Len(log) : at[log[k]] = "announced" <=> k <= e
    /\ AreNewest(IF refresh = "answered" THEN answer ELSE shown, log, d)

\* Each route is logged once, and announced when it is logged.
LoggedOnce ==
    /\ \A r \in Routes : at[r] = "new" <=> \A k \in 1..Len(log) : log[k] # r
    /\ \A j, k \in 1..Len(log) : log[j] = log[k] => j = k
    /\ \A i \in 1..Len(events) : at[events[i]] = "announced"

HistoryInv ==
    /\ TypeOK /\ RingIsNewest /\ LoggedOnce
    /\ crossed \/ \E d, e \in Nat : Follows(d, e)

\* What a page may show.
LEMMA PageSize == Limit \in Nat /\ Limit >= 1 /\ Capacity \in Nat /\ Limit <= Capacity
BY HistoryAssumption

\* The newest of a sequence, counted from its end.
LEMMA NewestOfSequence ==
    ASSUME NEW S, NEW s \in Seq(S)
    PROVE  /\ Newest(s, Limit) \in Seq(S)
           /\ Len(Newest(s, Limit)) = IF Len(s) < Limit THEN Len(s) ELSE Limit
           /\ \A i \in 1..Len(Newest(s, Limit)) : Newest(s, Limit)[i] = s[Len(s) + 1 - i]
<1> DEFINE n == IF Len(s) < Limit THEN Len(s) ELSE Limit
<1>1. n \in Nat /\ n <= Len(s) /\ Len(s) \in Nat
    BY PageSize
<1>2. \A i \in 1..Len(s) : (Len(s) - i) + 1 \in 1..Len(s) /\ (Len(s) - i) + 1 = Len(s) + 1 - i
    BY <1>1
<1>3. \A i \in 1..Len(s) : Reverse(s)[i] = s[Len(s) + 1 - i] /\ Reverse(s)[i] \in S
    BY <1>2 DEF Reverse
<1>4. \A i \in 1..n : i \in 1..Len(s) /\ 1 + i - 1 = i /\ i \in 1..(n - 1 + 1)
    BY <1>1
<1>5. Newest(s, Limit) = SubSeq(Reverse(s), 1, n)
    BY DEF Newest
<1> HIDE DEF n
<1>6. /\ SubSeq(Reverse(s), 1, n) \in Seq(S)
      /\ Len(SubSeq(Reverse(s), 1, n)) = IF 1 <= n THEN n - 1 + 1 ELSE 0
      /\ \A i \in 1..(n - 1 + 1) : SubSeq(Reverse(s), 1, n)[i] = Reverse(s)[1 + i - 1]
    <2>1. \A i \in 1..n : Reverse(s)[i] \in S
        BY <1>3, <1>4
    <2>2. 1 \in Int /\ n \in Int
        BY <1>1
    <2> QED
        BY <2>1, <2>2, SubSeqProperties
<1>7. Len(Newest(s, Limit)) = n
    BY <1>1, <1>5, <1>6
<1>8. \A i \in 1..n : Newest(s, Limit)[i] = s[Len(s) + 1 - i]
    BY <1>3, <1>4, <1>5, <1>6
<1> QED
    BY <1>5, <1>6, <1>7, <1>8 DEF n

\* An answer has the newest records that were ever logged.
LEMMA RecentIsNewest ==
    ASSUME TypeOK, RingIsNewest
    PROVE  Recent(Limit) \in Seq(Routes) /\ AreNewest(Recent(Limit), log, Len(log))
<1>1. ring \in Seq(Routes) /\ log \in Seq(Routes) /\ Len(ring) \in Nat /\ Len(log) \in Nat
    BY DEF TypeOK
<1> DEFINE a == Recent(Limit)
<1>2. /\ a \in Seq(Routes)
      /\ Len(a) = IF Len(ring) < Limit THEN Len(ring) ELSE Limit
      /\ \A i \in 1..Len(a) : a[i] = ring[Len(ring) + 1 - i]
    BY <1>1, NewestOfSequence DEF Recent
<1> HIDE DEF a
<1>3. Len(ring) = IF Len(log) < Capacity THEN Len(log) ELSE Capacity
    BY DEF RingIsNewest
<1>4. Len(a) = IF Len(log) < Limit THEN Len(log) ELSE Limit
    BY <1>1, <1>2, <1>3, PageSize
<1>5. ASSUME NEW i \in 1..Len(a) PROVE a[i] = log[Len(log) + 1 - i]
    <2>1. Len(ring) + 1 - i \in 1..Len(ring)
        BY <1>1, <1>2, PageSize
    <2>2. Len(ring) + 1 - i \in DOMAIN ring
        BY <1>1, <2>1
    <2>3. ring[Len(ring) + 1 - i] = log[Len(log) - Len(ring) + (Len(ring) + 1 - i)]
        BY <2>2 DEF RingIsNewest
    <2>4. Len(log) - Len(ring) + (Len(ring) + 1 - i) = Len(log) + 1 - i
        BY <1>1
    <2> QED
        BY <1>2, <2>3, <2>4
<1> QED
    BY <1>2, <1>4, <1>5 DEF AreNewest, a

\* What the listener makes of a list.
LEMMA InFrontIsNewer ==
    ASSUME NEW s \in Seq(Routes), NEW r \in Routes
    PROVE  /\ InFront(s, r) \in Seq(Routes)
           /\ \A q, d : d \in Nat /\ q[d + 1] = r /\ AreNewest(s, q, d)
                  => AreNewest(InFront(s, r), q, d + 1)
<1> DEFINE n == IF Len(s) < Limit THEN Len(s) + 1 ELSE Limit
           t == <<r>> \o s
<1>1. n \in Nat /\ 1 <= n /\ Len(s) \in Nat /\ n <= 1 + Len(s)
    BY PageSize
<1>2. /\ t \in Seq(Routes) /\ Len(t) = 1 + Len(s)
      /\ \A i \in 1..(1 + Len(s)) : t[i] = IF i <= 1 THEN r ELSE s[i - 1]
    <2>1. <<r>> \in Seq(Routes) /\ Len(<<r>>) = 1 /\ <<r>>[1] = r
        OBVIOUS
    <2>2. /\ t \in Seq(Routes) /\ Len(t) = Len(<<r>>) + Len(s)
          /\ \A i \in 1..(Len(<<r>>) + Len(s)) :
                 t[i] = IF i <= Len(<<r>>) THEN <<r>>[i] ELSE s[i - Len(<<r>>)]
        BY <2>1, ConcatProperties
    <2>3. \A i \in 1..(1 + Len(s)) : t[i] = IF i <= 1 THEN <<r>>[i] ELSE s[i - 1]
        BY <2>1, <2>2
    <2>4. \A i \in 1..(1 + Len(s)) : i <= 1 => i = 1
        BY <1>1
    <2> QED
        BY <2>1, <2>2, <2>3, <2>4
<1>3. InFront(s, r) = SubSeq(t, 1, n)
    BY DEF InFront
<1> HIDE DEF n, t
<1>4. \A i \in 1..n : i \in 1..(1 + Len(s)) /\ t[i] \in Routes
    BY <1>1, <1>2
<1>5. /\ SubSeq(t, 1, n) \in Seq(Routes)
      /\ Len(SubSeq(t, 1, n)) = IF 1 <= n THEN n - 1 + 1 ELSE 0
      /\ \A i \in 1..(n - 1 + 1) : SubSeq(t, 1, n)[i] = t[1 + i - 1]
    <2>1. 1 \in Int /\ n \in Int
        BY <1>1
    <2> QED
        BY <1>4, <2>1, SubSeqProperties
<1>6. Len(InFront(s, r)) = n
    BY <1>1, <1>3, <1>5
<1>7. \A i \in 1..n : i \in 1..(n - 1 + 1) /\ 1 + i - 1 = i
    BY <1>1
<1>8. \A i \in 1..n : InFront(s, r)[i] = IF i <= 1 THEN r ELSE s[i - 1]
    BY <1>2, <1>3, <1>4, <1>5, <1>7
<1>9. ASSUME NEW q, NEW d \in Nat, q[d + 1] = r, AreNewest(s, q, d)
      PROVE  AreNewest(InFront(s, r), q, d + 1)
    <2>1. Len(s) = IF d < Limit THEN d ELSE Limit
        BY <1>9 DEF AreNewest
    <2>2. n = IF d + 1 < Limit THEN d + 1 ELSE Limit
        BY <2>1, PageSize DEF n
    <2>3. ASSUME NEW i \in 1..n PROVE InFront(s, r)[i] = q[(d + 1) + 1 - i]
        <3>1. CASE i = 1
            <4>1. (d + 1) + 1 - i = d + 1
                BY <3>1
            <4> QED
                BY <1>8, <1>9, <3>1, <4>1
        <3>2. CASE i # 1
            <4>1. i - 1 \in 1..Len(s) /\ d + 1 - (i - 1) = (d + 1) + 1 - i /\ ~(i <= 1)
                BY <1>1, <3>2
            <4>2. s[i - 1] = q[d + 1 - (i - 1)]
                BY <1>9, <4>1 DEF AreNewest
            <4> QED
                BY <1>8, <4>1, <4>2
        <3> QED
            BY <3>1, <3>2
    <2> QED
        BY <1>6, <2>2, <2>3 DEF AreNewest
<1> QED
    BY <1>3, <1>5, <1>9

\* Every step keeps the types.
LEMMA HistoryTypeKept ==
    ASSUME TypeOK, RingIsNewest, Next, Len(ring') <= Capacity, ring' \in Seq(Routes)
    PROVE  TypeOK'
<1>1. /\ ring \in Seq(Routes) /\ log \in Seq(Routes) /\ events \in Seq(Routes)
      /\ answer \in Seq(Routes) /\ shown \in Seq(Routes)
      /\ at \in [Routes -> {"new", "logged", "announced"}]
      /\ refresh \in {"none", "asked", "answered"}
      /\ listening \in BOOLEAN /\ crossed \in BOOLEAN /\ asks \in 0..MaxAsks
    BY DEF TypeOK
<1>2. Recent(Limit) \in Seq(Routes)
    BY RecentIsNewest
<1>3. \A r \in Routes : Append(log, r) \in Seq(Routes) /\ Append(events, r) \in Seq(Routes)
    BY <1>1
<1>4. events # <<>> => /\ Head(events) \in Routes /\ Tail(events) \in Seq(Routes)
                       /\ InFront(shown, Head(events)) \in Seq(Routes)
    <2> SUFFICES ASSUME events # <<>>
                 PROVE  /\ Head(events) \in Routes /\ Tail(events) \in Seq(Routes)
                        /\ InFront(shown, Head(events)) \in Seq(Routes)
        OBVIOUS
    <2>1. Head(events) \in Routes /\ Tail(events) \in Seq(Routes)
        BY <1>1
    <2>2. InFront(shown, Head(events)) \in Seq(Routes)
        BY <1>1, <2>1, InFrontIsNewer
    <2> QED
        BY <2>1, <2>2
<1>5. log' \in Seq(Routes) /\ events' \in Seq(Routes)
    BY <1>1, <1>3, <1>4 DEF Next, Log, Announce, Deliver, Listen, Ask, Answer, Show
<1>6. shown' \in Seq(Routes)
    BY <1>1, <1>4 DEF Next, Log, Announce, Deliver, Listen, Ask, Answer, Show
<1>7. answer' \in Seq(Routes)
    <2>1. <<>> \in Seq(Routes)
        OBVIOUS
    <2> QED
        BY <1>1, <1>2, <2>1 DEF Next, Log, Announce, Deliver, Listen, Ask, Answer, Show
<1>8. at' \in [Routes -> {"new", "logged", "announced"}]
    BY <1>1 DEF Next, Log, Announce, Deliver, Listen, Ask, Answer, Show
<1>9. refresh' \in {"none", "asked", "answered"} /\ listening' \in BOOLEAN
    BY <1>1 DEF Next, Log, Announce, Deliver, Listen, Ask, Answer, Show
<1>10. crossed' \in BOOLEAN
    BY <1>1 DEF Next, Log, Announce, Deliver, Listen, Ask, Answer, Show
<1>11. asks' \in 0..MaxAsks
    <2>1. CASE Ask
        BY <1>1, <2>1, HistoryAssumption DEF Ask
    <2>2. CASE asks' = asks
        BY <1>1, <2>2
    <2> QED
        BY <2>1, <2>2 DEF Next, Log, Announce, Deliver, Listen, Answer, Show
<1> QED
    BY <1>5, <1>6, <1>7, <1>8, <1>9, <1>10, <1>11 DEF TypeOK

\* A new record comes after all that the page has heard of.
LEMMA LogFollows ==
    ASSUME HistoryInv, NEW r \in Routes, Log(r)
    PROVE  LoggedOnce' /\ (crossed' \/ \E d, e \in Nat : Follows(d, e)')
<1>1. /\ log \in Seq(Routes) /\ Len(log) \in Nat
      /\ at \in [Routes -> {"new", "logged", "announced"}] /\ events \in Seq(Routes)
    BY DEF HistoryInv, TypeOK
<1>2. /\ at[r] = "new" /\ at' = [at EXCEPT ![r] = "logged"]
      /\ log' = Append(log, r)
      /\ UNCHANGED <<events, refresh, answer, shown, crossed>>
    BY DEF Log
<1>3. /\ Len(log') = Len(log) + 1 /\ log'[Len(log) + 1] = r
      /\ \A k \in 1..Len(log) : log'[k] = log[k] /\ log[k] \in Routes
      /\ \A k \in 1..Len(log') : k \in 1..Len(log) \/ k = Len(log) + 1
      /\ \A k \in 1..Len(log) : k \in 1..Len(log') /\ k # Len(log) + 1
      /\ Len(log) + 1 \in 1..Len(log')
    BY <1>1, <1>2
<1>4. \A k \in 1..Len(log) : log[k] # r
    BY <1>2 DEF HistoryInv, LoggedOnce
<1>5. /\ at'[r] = "logged"
      /\ \A x \in Routes : x # r => at'[x] = at[x]
    BY <1>1, <1>2
<1>6. LoggedOnce'
    <2>1. \A x \in Routes : at'[x] = "new" <=> \A k \in 1..Len(log') : log'[k] # x
        <3> TAKE x \in Routes
        <3>1. CASE x = r
            BY <1>3, <1>5, <3>1
        <3>2. CASE x # r
            BY <1>3, <1>5, <3>2 DEF HistoryInv, LoggedOnce
        <3> QED
            BY <3>1, <3>2
    <2>2. \A j, k \in 1..Len(log') : log'[j] = log'[k] => j = k
        BY <1>3, <1>4 DEF HistoryInv, LoggedOnce
    <2>3. \A i \in 1..Len(events) : at[events[i]] = "announced" /\ events[i] \in Routes
        BY <1>1 DEF HistoryInv, LoggedOnce
    <2>4. \A i \in 1..Len(events') : at'[events'[i]] = "announced"
        BY <1>2, <1>5, <2>3
    <2> QED
        BY <2>1, <2>2, <2>4 DEF LoggedOnce
<1>7. ASSUME NEW d \in Nat, NEW e \in Nat, Follows(d, e)
      PROVE  Follows(d, e)'
    <2> DEFINE s == IF refresh = "answered" THEN answer ELSE shown
    <2>1. d <= e /\ e <= Len(log) /\ Len(events) = e - d /\ AreNewest(s, log, d)
        BY <1>7 DEF Follows
    <2>2. s' = s
        BY <1>2
    <2> HIDE DEF s
    <2>3. \A i \in 1..Len(events) : d + i \in 1..Len(log)
        BY <1>1, <2>1
    <2>4. \A i \in 1..Len(events) : events[i] = log'[d + i]
        BY <1>3, <1>7, <2>3 DEF Follows
    <2>5. \A k \in 1..Len(log') : at'[log'[k]] = "announced" <=> k <= e
        <3> TAKE k \in 1..Len(log')
        <3>1. CASE k = Len(log) + 1
            <4>1. ~(k <= e)
                BY <1>1, <2>1, <3>1
            <4> QED
                BY <1>3, <1>5, <3>1, <4>1
        <3>2. CASE k \in 1..Len(log)
            <4>1. log'[k] = log[k] /\ log[k] # r /\ log[k] \in Routes
                BY <1>3, <1>4, <3>2
            <4>2. at'[log'[k]] = at[log[k]]
                BY <1>5, <4>1
            <4> QED
                BY <1>7, <3>2, <4>2 DEF Follows
        <3> QED
            BY <1>3, <3>1, <3>2
    <2>6. AreNewest(s, log', d)
        <3>1. Len(s) = IF d < Limit THEN d ELSE Limit
            BY <2>1 DEF AreNewest
        <3>2. \A i \in 1..Len(s) : d + 1 - i \in 1..Len(log)
            BY <1>1, <2>1, <3>1, PageSize
        <3>3. \A i \in 1..Len(s) : s[i] = log'[d + 1 - i]
            BY <1>3, <2>1, <3>2 DEF AreNewest
        <3> QED
            BY <3>1, <3>3 DEF AreNewest
    <2>7. e <= Len(log') /\ events' = events
        BY <1>1, <1>2, <1>3, <2>1
    <2> QED
        BY <1>2, <2>1, <2>2, <2>4, <2>5, <2>6, <2>7 DEF Follows, s
<1> QED
    BY <1>2, <1>6, <1>7 DEF HistoryInv

\* The record announced is the next one, or the announcements are out of order.
LEMMA AnnounceFollows ==
    ASSUME HistoryInv, NEW r \in Routes, Announce(r)
    PROVE  LoggedOnce' /\ (crossed' \/ \E d, e \in Nat : Follows(d, e)')
<1>1. /\ log \in Seq(Routes) /\ Len(log) \in Nat /\ Len(events) \in Nat
      /\ at \in [Routes -> {"new", "logged", "announced"}] /\ events \in Seq(Routes)
      /\ \A k \in 1..Len(log) : log[k] \in Routes
    BY DEF HistoryInv, TypeOK
<1>2. /\ at[r] = "logged" /\ at' = [at EXCEPT ![r] = "announced"]
      /\ events' = Append(events, r)
      /\ UNCHANGED <<log, refresh, answer, shown>>
    BY DEF Announce
<1>3. /\ Len(events') = Len(events) + 1 /\ events'[Len(events) + 1] = r
      /\ \A k \in 1..Len(events) : events'[k] = events[k] /\ events[k] \in Routes
      /\ \A k \in 1..Len(events') : k \in 1..Len(events) \/ k = Len(events) + 1
    BY <1>1, <1>2
<1>4. /\ at'[r] = "announced"
      /\ \A x \in Routes : x # r => at'[x] = at[x]
    BY <1>1, <1>2
<1>5. LoggedOnce'
    <2>1. \A x \in Routes : at'[x] = "new" <=> at[x] = "new"
        BY <1>2, <1>4
    <2>2. \A i \in 1..Len(events) : at'[events[i]] = "announced"
        BY <1>3, <1>4 DEF HistoryInv, LoggedOnce
    <2>3. \A i \in 1..Len(events') : at'[events'[i]] = "announced"
        BY <1>3, <1>4, <2>2
    <2>4. \A x \in Routes : at'[x] = "new" <=> \A k \in 1..Len(log') : log'[k] # x
        BY <1>2, <2>1 DEF HistoryInv, LoggedOnce
    <2>5. \A j, k \in 1..Len(log') : log'[j] = log'[k] => j = k
        BY <1>2 DEF HistoryInv, LoggedOnce
    <2> QED
        BY <2>3, <2>4, <2>5 DEF LoggedOnce
<1>6. ASSUME ~crossed' PROVE \E d, e \in Nat : Follows(d, e)'
    <2>1. PICK d \in Nat, e \in Nat : Follows(d, e)
        BY <1>6 DEF HistoryInv, Announce, TypeOK
    <2>2. /\ d <= e /\ e <= Len(log) /\ Len(events) = e - d
          /\ \A k \in 1..Len(log) : at[log[k]] = "announced" <=> k <= e
        BY <2>1 DEF Follows
    <2>3. PICK j \in 1..Len(log) : log[j] = r
        BY <1>2 DEF HistoryInv, LoggedOnce
    <2>4. ~(j <= e)
        BY <1>2, <2>2, <2>3
    <2>5. e + 1 \in 1..Len(log) /\ e + 1 <= j /\ ~(e + 1 <= e)
        BY <1>1, <2>2, <2>4
    <2>6. at[log[e + 1]] = "logged"
        <3>1. at[log[e + 1]] # "announced"
            BY <2>2, <2>5
        <3>2. at[log[e + 1]] # "new"
            BY <1>1, <2>5 DEF HistoryInv, LoggedOnce
        <3> QED
            BY <1>1, <2>5, <3>1, <3>2
    <2>7. j = e + 1
        <3> SUFFICES ASSUME j # e + 1 PROVE FALSE
            OBVIOUS
        <3>1. j \in (e + 1) + 1..Len(log)
            BY <1>1, <2>5
        <3>2. log[e + 1] # r
            BY <2>3, <2>5 DEF HistoryInv, LoggedOnce
        <3>3. crossed'
            BY <2>3, <2>5, <2>6, <3>1, <3>2 DEF Announce
        <3> QED
            BY <1>6, <3>3
    <2>8. Len(events') = (e + 1) - d /\ d <= e + 1 /\ e + 1 <= Len(log)
        BY <1>1, <1>3, <2>2, <2>5
    <2>9. \A i \in 1..Len(events') : events'[i] = log[d + i]
        <3> TAKE i \in 1..Len(events')
        <3>1. CASE i = Len(events) + 1
            <4>1. d + i = e + 1
                BY <1>1, <2>2, <3>1
            <4> QED
                BY <1>3, <2>3, <2>7, <3>1, <4>1
        <3>2. CASE i \in 1..Len(events)
            BY <1>3, <2>1, <3>2 DEF Follows
        <3> QED
            BY <1>3, <3>1, <3>2
    <2>10. \A k \in 1..Len(log) : at'[log[k]] = "announced" <=> k <= e + 1
        <3> TAKE k \in 1..Len(log)
        <3>1. CASE k = e + 1
            BY <1>4, <2>3, <2>5, <2>7, <3>1
        <3>2. CASE k # e + 1
            <4>1. log[k] # r
                BY <2>3, <2>7, <3>2 DEF HistoryInv, LoggedOnce
            <4>2. at'[log[k]] = at[log[k]]
                BY <1>1, <1>4, <4>1
            <4>3. k <= e + 1 <=> k <= e
                BY <3>2
            <4> QED
                BY <2>2, <4>2, <4>3
        <3> QED
            BY <3>1, <3>2
    <2>11. AreNewest(IF refresh' = "answered" THEN answer' ELSE shown', log', d)
        BY <1>2, <2>1 DEF Follows
    <2>12. Follows(d, e + 1)'
        BY <1>2, <2>8, <2>9, <2>10, <2>11 DEF Follows
    <2>13. e + 1 \in Nat
        OBVIOUS
    <2> QED
        BY <2>12, <2>13
<1> QED
    BY <1>5, <1>6 DEF HistoryInv

\* A page that listens puts the next record in front.
LEMMA DeliverFollows ==
    ASSUME HistoryInv, Deliver
    PROVE  LoggedOnce' /\ (crossed' \/ \E d, e \in Nat : Follows(d, e)')
<1>1. /\ log \in Seq(Routes) /\ Len(log) \in Nat /\ events \in Seq(Routes)
      /\ shown \in Seq(Routes) /\ events # <<>> /\ Len(events) \in Nat
    BY DEF HistoryInv, TypeOK, Deliver
<1>2. events' = Tail(events) /\ UNCHANGED <<log, at, refresh, answer>>
    BY DEF Deliver
<1>3. /\ Head(events) = events[1] /\ Head(events) \in Routes
      /\ Len(events) >= 1 /\ Len(events') = Len(events) - 1
      /\ \A i \in 1..Len(events') : events'[i] = events[i + 1]
      /\ \A i \in 1..Len(events') : i + 1 \in 1..Len(events)
      /\ 1 \in 1..Len(events)
    BY <1>1, <1>2
<1>4. LoggedOnce'
    <2>1. \A i \in 1..Len(events') : at'[events'[i]] = "announced"
        BY <1>2, <1>3 DEF HistoryInv, LoggedOnce
    <2> QED
        BY <1>2, <2>1 DEF HistoryInv, LoggedOnce
<1>5. ASSUME ~crossed' PROVE \E d, e \in Nat : Follows(d, e)'
    <2>1. ~crossed /\ listening /\ refresh # "answered"
        BY <1>5 DEF HistoryInv, TypeOK, Deliver
    <2>2. PICK d \in Nat, e \in Nat : Follows(d, e)
        BY <2>1 DEF HistoryInv
    <2>3. /\ d <= e /\ e <= Len(log) /\ Len(events) = e - d
          /\ events[1] = log[d + 1]
          /\ AreNewest(shown, log, d)
        BY <1>3, <2>1, <2>2 DEF Follows
    <2>4. shown' = InFront(shown, Head(events))
        BY <2>1 DEF Deliver
    <2>5. AreNewest(shown', log, d + 1)
        BY <1>1, <1>3, <2>3, <2>4, InFrontIsNewer
    <2>6. d + 1 <= e /\ Len(events') = e - (d + 1)
        BY <1>1, <1>3, <2>3
    <2>7. \A i \in 1..Len(events') : events'[i] = log[(d + 1) + i]
        <3> TAKE i \in 1..Len(events')
        <3>1. events[i + 1] = log[d + (i + 1)]
            BY <1>3, <2>2 DEF Follows
        <3>2. d + (i + 1) = (d + 1) + i
            OBVIOUS
        <3> QED
            BY <1>3, <3>1, <3>2
    <2>8. \A k \in 1..Len(log) : at'[log[k]] = "announced" <=> k <= e
        BY <1>2, <2>2 DEF Follows
    <2>9. Follows(d + 1, e)'
        BY <1>2, <2>1, <2>3, <2>5, <2>6, <2>7, <2>8 DEF Follows
    <2>10. d + 1 \in Nat
        OBVIOUS
    <2> QED
        BY <2>9, <2>10
<1> QED
    BY <1>4, <1>5

\* With nothing on its way, an answer is all there is.
LEMMA AnswerFollows ==
    ASSUME HistoryInv, Answer
    PROVE  crossed' \/ \E d, e \in Nat : Follows(d, e)'
<1> SUFFICES ASSUME ~crossed'
             PROVE  Follows(Len(log), Len(log))'
    BY DEF HistoryInv, TypeOK, Answer
<1>1. /\ log \in Seq(Routes) /\ Len(log) \in Nat /\ events \in Seq(Routes)
      /\ Len(events) \in Nat /\ DOMAIN log = 1..Len(log) /\ DOMAIN events = 1..Len(events)
      /\ at \in [Routes -> {"new", "logged", "announced"}]
      /\ \A k \in 1..Len(log) : log[k] \in Routes
      /\ \A k \in 1..Len(events) : events[k] \in Routes
    BY DEF HistoryInv, TypeOK
<1>2. /\ refresh' = "answered" /\ answer' = Recent(Limit)
      /\ UNCHANGED <<log, at, events>>
    BY DEF Answer
<1>3. \A k \in 1..Len(log) : at[log[k]] # "logged" /\ log[k] \notin ToSet(events)
    BY <1>1 DEF Answer, ToSet
<1>4. \A k \in 1..Len(log) : at[log[k]] = "announced" <=> k <= Len(log)
    <2> TAKE k \in 1..Len(log)
    <2>1. at[log[k]] # "new"
        BY <1>1 DEF HistoryInv, LoggedOnce
    <2>2. k <= Len(log)
        BY <1>1
    <2> QED
        BY <1>1, <1>3, <2>1, <2>2
<1>5. Len(events) = 0
    <2> SUFFICES ASSUME Len(events) # 0 PROVE FALSE
        OBVIOUS
    <2>1. 1 \in 1..Len(events)
        BY <1>1
    <2>2. at[events[1]] = "announced" /\ events[1] \in ToSet(events) /\ events[1] \in Routes
        BY <1>1, <2>1 DEF HistoryInv, LoggedOnce, ToSet
    <2>3. PICK k \in 1..Len(log) : log[k] = events[1]
        BY <2>2 DEF HistoryInv, LoggedOnce
    <2> QED
        BY <1>3, <2>2, <2>3
<1>6. AreNewest(answer', log, Len(log))
    BY <1>2, RecentIsNewest DEF HistoryInv
<1>7. /\ Len(log) <= Len(log) /\ Len(events) = Len(log) - Len(log)
      /\ \A i \in 1..Len(events) : events[i] = log[Len(log) + i]
    BY <1>1, <1>5
<1> QED
    BY <1>2, <1>4, <1>6, <1>7 DEF Follows

\* Every step keeps the invariant.
LEMMA HistoryInvKept ==
    ASSUME HistoryInv, [Next]_vars
    PROVE  HistoryInv'
<1>1. CASE UNCHANGED vars
    BY <1>1 DEF vars, HistoryInv, TypeOK, RingIsNewest, LoggedOnce, Follows
<1>2. CASE Next
    <2>1. Tailing
        BY DEF HistoryInv, TypeOK, Tailing
    <2>2. Tailing'
        <3>1. ASSUME NEW r \in Routes, Log(r)
              PROVE  Tailing'
            BY <2>1, <3>1, PushKeepsNewest DEF Log
        <3>2. CASE UNCHANGED <<ring, log>>
            BY <2>1, <3>2 DEF Tailing, RingIsNewest
        <3> QED
            BY <1>2, <3>1, <3>2 DEF Next, Announce, Deliver, Listen, Ask, Answer, Show
    <2>3. TypeOK'
        <3>1. ring' \in Seq(Routes) /\ log' \in Seq(Routes)
              /\ Len(ring') = IF Len(log') < Capacity THEN Len(log') ELSE Capacity
            BY <2>2 DEF Tailing, RingIsNewest
        <3>2. Len(log') \in Nat
            BY <3>1
        <3>3. Len(ring') <= Capacity
            BY <3>1, <3>2, PageSize
        <3> QED
            BY <1>2, <3>1, <3>3, HistoryTypeKept DEF HistoryInv
    <2>4. LoggedOnce' /\ (crossed' \/ \E d, e \in Nat : Follows(d, e)')
        <3>1. CASE Listen \/ Ask
            <4>1. UNCHANGED <<log, at, events, answer, shown, crossed>>
                BY <3>1 DEF Listen, Ask
            <4>2. refresh = "answered" <=> refresh' = "answered"
                BY <3>1 DEF Listen, Ask
            <4>3. \A d, e \in Nat : Follows(d, e) => Follows(d, e)'
                BY <4>1, <4>2 DEF Follows
            <4>4. LoggedOnce'
                BY <4>1 DEF HistoryInv, LoggedOnce
            <4> QED
                BY <4>1, <4>3, <4>4 DEF HistoryInv
        <3>2. CASE Answer
            <4>1. LoggedOnce'
                BY <3>2 DEF HistoryInv, LoggedOnce, Answer
            <4> QED
                BY <3>2, <4>1, AnswerFollows
        <3>3. CASE Show
            <4>1. LoggedOnce'
                BY <3>3 DEF HistoryInv, LoggedOnce, Show
            <4>2. \A d, e \in Nat : Follows(d, e) => Follows(d, e)'
                BY <3>3 DEF Follows, Show
            <4> QED
                BY <3>3, <4>1, <4>2 DEF HistoryInv, Show
        <3> QED
            BY <1>2, <3>1, <3>2, <3>3, LogFollows, AnnounceFollows, DeliverFollows DEF Next
    <2> QED
        BY <2>2, <2>3, <2>4 DEF HistoryInv, Tailing
<1> QED
    BY <1>1, <1>2

\* The invariant holds at the start.
LEMMA HistoryInvAtFirst ==
    ASSUME Init
    PROVE  HistoryInv
<1>1. /\ ring = <<>> /\ log = <<>> /\ events = <<>> /\ answer = <<>> /\ shown = <<>>
      /\ at = [r \in Routes |-> "new"] /\ refresh = "none" /\ asks = 0
      /\ listening = FALSE /\ crossed = FALSE
    BY DEF Init
<1>2. <<>> \in Seq(Routes) /\ Len(<<>>) = 0 /\ 0 \in 0..MaxAsks /\ 1..0 = {}
    BY HistoryAssumption
<1>3. TypeOK
    <2>1. at \in [Routes -> {"new", "logged", "announced"}]
        BY <1>1
    <2>2. {listening, crossed} \subseteq BOOLEAN
        BY <1>1
    <2>3. Len(ring) <= Capacity
        BY <1>1, <1>2, PageSize
    <2> QED
        BY <1>1, <1>2, <2>1, <2>2, <2>3 DEF TypeOK
<1>4. RingIsNewest
    BY <1>1, <1>2, PageSize DEF RingIsNewest
<1>5. LoggedOnce
    BY <1>1, <1>2 DEF LoggedOnce
<1>6. Follows(0, 0)
    BY <1>1, <1>2, PageSize DEF Follows, AreNewest
<1> QED
    BY <1>3, <1>4, <1>5, <1>6 DEF HistoryInv

\* When all is quiet the page shows what an answer would have.
LEMMA QuietShowsRecent ==
    ASSUME HistoryInv
    PROVE  ShownIsRecent
<1> SUFFICES ASSUME Quiet, ~crossed
             PROVE  shown = Recent(Limit)
    BY DEF ShownIsRecent
<1>1. PICK d \in Nat, e \in Nat : Follows(d, e)
    BY DEF HistoryInv
<1>2. /\ log \in Seq(Routes) /\ Len(log) \in Nat /\ shown \in Seq(Routes)
      /\ at \in [Routes -> {"new", "logged", "announced"}]
      /\ \A k \in 1..Len(log) : log[k] \in Routes
    BY DEF HistoryInv, TypeOK
<1>3. d = e /\ e <= Len(log) /\ AreNewest(shown, log, d)
    BY <1>1 DEF Follows, Quiet
<1>4. e = Len(log)
    <2> SUFFICES ASSUME e # Len(log) PROVE FALSE
        OBVIOUS
    <2>1. Len(log) \in 1..Len(log) /\ ~(Len(log) <= e)
        BY <1>2, <1>3
    <2>2. log[Len(log)] \in Routes /\ at[log[Len(log)]] # "announced"
        BY <1>1, <1>2, <2>1 DEF Follows
    <2>3. at[log[Len(log)]] # "new"
        BY <2>1, <2>2 DEF HistoryInv, LoggedOnce
    <2> QED
        BY <1>2, <2>2, <2>3 DEF Quiet
<1> DEFINE a == Recent(Limit)
<1>5. a \in Seq(Routes) /\ AreNewest(a, log, Len(log))
    BY RecentIsNewest DEF HistoryInv
<1> HIDE DEF a
<1>6. Len(a) = Len(shown) /\ \A i \in 1..Len(a) : a[i] = shown[i]
    BY <1>3, <1>4, <1>5 DEF AreNewest
<1>7. shown = a
    BY <1>2, <1>5, <1>6
<1> QED
    BY <1>7 DEF a

\* The list of a page, whatever the order in which routes, events and answers
\* reach it, ends up as the newest records of the ring.
THEOREM HistoryAlwaysFollowed == DesktopSpec => []HistoryIsFollowed
<1>1. DesktopInit => HistoryInv
    BY HistoryInvAtFirst DEF DesktopInit
<1>2. HistoryInv /\ [DesktopNext]_<<part, vars, obsVars, openerVars, trayVars>> => HistoryInv'
    <2> SUFFICES ASSUME HistoryInv, [DesktopNext]_<<part, vars, obsVars, openerVars, trayVars>>
                 PROVE  HistoryInv'
        OBVIOUS
    <2>1. [Next]_vars
        BY DEF DesktopNext
    <2> QED
        BY <2>1, HistoryInvKept
<1>3. HistoryInv => HistoryIsFollowed
    BY QuietShowsRecent DEF HistoryInv, HistoryIsFollowed
<1> QED
    BY <1>1, <1>2, <1>3, PTL DEF DesktopSpec

-----------------------------------------------------------------------------
(* Lists, as the log of picks uses them.                                   *)

\* What counts the elements of a set is the same operator in every module.
LEMMA SameCount == \A set : O!Cardinality(set) = Cardinality(set)
BY DEF O!Cardinality, Cardinality

\* A set of numbers has a least one.
LEMMA LeastNat ==
    ASSUME NEW X \in SUBSET Nat, X # {}
    PROVE  \E x \in X : \A y \in X : x <= y
<1> DEFINE Less == {ss \in Nat \X Nat : ss[1] < ss[2]}
<1>1. IsWellFoundedOn(Less, Nat)
    BY NatLessThanWellFounded, Zenon DEF OpToRel
<1>2. \A x, y \in Nat : y < x => <<y, x>> \in Less
    OBVIOUS
<1> HIDE DEF Less
<1>3. PICK x \in X : \A y \in X : ~(<<y, x>> \in Less)
    BY <1>1, WFMin
<1>4. ASSUME NEW y \in X
      PROVE  x <= y
    <2>1. x \in Nat /\ y \in Nat
        OBVIOUS
    <2>2. ~(y < x)
        BY <1>2, <1>3, <2>1
    <2> QED
        BY <2>1, <2>2
<1> QED
    BY <1>4

\* Rank counts: it grows by one at each position kept, up to their number.
LEMMA RankFacts ==
    ASSUME NEW n \in Nat, NEW keep \in SUBSET (1..n)
    PROVE  /\ IsFiniteSet(keep) /\ Cardinality(keep) \in Nat
           /\ \A i \in Nat : O!Rank(keep, i) \in Nat
           /\ O!Rank(keep, 0) = 0 /\ O!Rank(keep, n) = Cardinality(keep)
           /\ \A i \in Nat : O!Rank(keep, i + 1) =
                  O!Rank(keep, i) + (IF i + 1 \in keep THEN 1 ELSE 0)
           /\ \A i, j \in Nat : i <= j => O!Rank(keep, i) <= O!Rank(keep, j)
           /\ \A i \in Nat : O!Rank(keep, i) <= Cardinality(keep)
<1> DEFINE Low(i) == {k \in keep : k <= i}
<1>0. \A k \in keep : k \in 1..n /\ k \in Nat
    OBVIOUS
<1>1. IsFiniteSet(1..n)
    BY FS_Interval
<1>2. IsFiniteSet(keep) /\ Cardinality(keep) \in Nat
    BY <1>1, FS_Subset, FS_CardinalityType
<1>3. \A i \in Nat : IsFiniteSet(Low(i)) /\ Cardinality(Low(i)) <= Cardinality(keep)
    BY <1>2, FS_Subset
<1>4. \A i \in Nat : O!Rank(keep, i) \in Nat /\ O!Rank(keep, i) <= Cardinality(keep)
    BY <1>3, FS_CardinalityType, SameCount DEF O!Rank
<1>5. O!Rank(keep, 0) = 0
    <2>1. Low(0) = {}
        <3>1. \A k \in keep : ~(k <= 0)
            BY <1>0
        <3> QED
            BY <3>1
    <2> QED
        BY <2>1, FS_EmptySet, SameCount DEF O!Rank
<1>6. O!Rank(keep, n) = Cardinality(keep)
    <2>1. Low(n) = keep
        <3>1. \A k \in keep : k <= n
            BY <1>0
        <3> QED
            BY <3>1
    <2> QED
        BY <2>1, SameCount DEF O!Rank
<1>7. ASSUME NEW i \in Nat
      PROVE  O!Rank(keep, i + 1) = O!Rank(keep, i) + (IF i + 1 \in keep THEN 1 ELSE 0)
    <2>1. CASE i + 1 \in keep
        <3>1. Low(i + 1) = Low(i) \cup {i + 1} /\ i + 1 \notin Low(i)
            <4>1. ~(i + 1 <= i) /\ i + 1 <= i + 1
                OBVIOUS
            <4>2. \A k \in keep : k <= i + 1 <=> k <= i \/ k = i + 1
                BY <1>0
            <4> QED
                BY <2>1, <4>1, <4>2
        <3>2. Cardinality(Low(i + 1)) = Cardinality(Low(i)) + 1
            BY <1>3, <3>1, FS_AddElement
        <3> QED
            BY <2>1, <3>2, SameCount DEF O!Rank
    <2>2. CASE i + 1 \notin keep
        <3>1. Low(i + 1) = Low(i)
            <4>1. \A k \in keep : k <= i + 1 <=> k <= i
                BY <1>0, <2>2
            <4> QED
                BY <4>1
        <3> QED
            BY <1>4, <2>2, <3>1, SameCount DEF O!Rank
    <2> QED
        BY <2>1, <2>2
<1>8. ASSUME NEW i \in Nat, NEW j \in Nat, i <= j
      PROVE  O!Rank(keep, i) <= O!Rank(keep, j)
    <2>1. Low(i) \subseteq Low(j)
        <3>1. \A k \in keep : k <= i => k <= j
            BY <1>0, <1>8
        <3> QED
            BY <3>1
    <2> QED
        BY <1>3, <2>1, FS_Subset, SameCount DEF O!Rank
<1> QED
    BY <1>2, <1>4, <1>5, <1>6, <1>7, <1>8

\* There is a position of each rank.
LEMMA NthExists ==
    ASSUME NEW n \in Nat, NEW keep \in SUBSET (1..n), NEW m \in 1..Cardinality(keep)
    PROVE  O!Nth(keep, m) \in keep /\ O!Rank(keep, O!Nth(keep, m)) = m
<1> DEFINE X == {i \in Nat : O!Rank(keep, i) >= m}
<1>1. n \in X
    BY RankFacts
<1>2. PICK i \in X : \A j \in X : i <= j
    BY <1>1, LeastNat
<1>3. i # 0
    BY RankFacts
<1>4. i - 1 \in Nat /\ i - 1 \notin X
    BY <1>2, <1>3
<1>5. O!Rank(keep, (i - 1) + 1) = O!Rank(keep, i - 1) + (IF (i - 1) + 1 \in keep THEN 1 ELSE 0)
    BY <1>4, RankFacts, ZenonT(60)
<1>6. (i - 1) + 1 = i
    OBVIOUS
<1>7. i \in keep /\ O!Rank(keep, i) = m
    BY <1>2, <1>4, <1>5, <1>6, RankFacts, SMTT(60)
<1> QED
    BY <1>7 DEF O!Nth

\* Kept has the entries at the positions kept, in their order.
LEMMA KeptFacts ==
    ASSUME NEW S, NEW list \in Seq(S), NEW keep \in SUBSET (DOMAIN list)
    PROVE  /\ O!Kept(list, keep) \in Seq(S)
           /\ Len(O!Kept(list, keep)) = Cardinality(keep)
           /\ DOMAIN O!Kept(list, keep) = 1..Cardinality(keep)
           /\ \A m \in 1..Cardinality(keep) :
                  O!Nth(keep, m) \in keep /\ O!Kept(list, keep)[m] = list[O!Nth(keep, m)]
           /\ \A l, m \in 1..Cardinality(keep) : l < m => O!Nth(keep, l) < O!Nth(keep, m)
           /\ \A i \in keep : O!Rank(keep, i) \in 1..Cardinality(keep) /\ O!Nth(keep, O!Rank(keep, i)) = i
<1>1. Len(list) \in Nat /\ keep \in SUBSET (1..Len(list))
    OBVIOUS
<1>1a. \A i, j \in Nat : i <= j => O!Rank(keep, i) <= O!Rank(keep, j)
    BY <1>1, RankFacts
<1>2. Cardinality(keep) \in Nat
    BY <1>1, RankFacts
<1>3. \A m \in 1..Cardinality(keep) : O!Nth(keep, m) \in keep /\ O!Rank(keep, O!Nth(keep, m)) = m
    BY <1>1, NthExists
<1>4. DOMAIN O!Kept(list, keep) = 1..Cardinality(keep)
    BY SameCount DEF O!Kept
<1>5. \A m \in 1..Cardinality(keep) : O!Kept(list, keep)[m] = list[O!Nth(keep, m)]
    BY SameCount DEF O!Kept
<1>6. O!Kept(list, keep) \in [1..Cardinality(keep) -> S]
    BY <1>3, SameCount DEF O!Kept
<1>7. O!Kept(list, keep) \in Seq(S) /\ Len(O!Kept(list, keep)) = Cardinality(keep)
    BY <1>2, <1>6
<1>8. ASSUME NEW l \in 1..Cardinality(keep), NEW m \in 1..Cardinality(keep), l < m
      PROVE  O!Nth(keep, l) < O!Nth(keep, m)
    <2> SUFFICES ASSUME O!Nth(keep, m) <= O!Nth(keep, l) PROVE FALSE
        BY <1>1, <1>3
    <2>1. O!Rank(keep, O!Nth(keep, m)) <= O!Rank(keep, O!Nth(keep, l))
        BY <1>1, <1>3, RankFacts
    <2> QED
        BY <1>2, <1>3, <1>8, <2>1
<1>9. \A i, j \in keep : i < j => O!Rank(keep, i) < O!Rank(keep, j)
    <2> TAKE i, j \in keep
    <2> HAVE i < j
    <2>1. j - 1 \in Nat /\ i \in Nat /\ i <= j - 1 /\ (j - 1) + 1 = j
        BY <1>1
    <2>2. O!Rank(keep, i) <= O!Rank(keep, j - 1)
        BY <1>1a, <2>1
    <2>3. O!Rank(keep, (j - 1) + 1) = O!Rank(keep, j - 1) + 1
        <3>1. O!Rank(keep, (j - 1) + 1) =
                  O!Rank(keep, j - 1) + (IF (j - 1) + 1 \in keep THEN 1 ELSE 0)
            BY <1>1, <2>1, RankFacts, ZenonT(60)
        <3> QED
            BY <2>1, <3>1
    <2>4. O!Rank(keep, i) \in Nat /\ O!Rank(keep, j - 1) \in Nat
        BY <1>1, <2>1, RankFacts
    <2> QED
        BY <2>1, <2>2, <2>3, <2>4
<1>10. ASSUME NEW i \in keep
       PROVE  O!Rank(keep, i) \in 1..Cardinality(keep) /\ O!Nth(keep, O!Rank(keep, i)) = i
    <2>1. i \in Nat /\ i - 1 \in Nat /\ (i - 1) + 1 = i
        BY <1>1
    <2>2. O!Rank(keep, (i - 1) + 1) = O!Rank(keep, i - 1) + 1 /\ O!Rank(keep, i - 1) \in Nat
        <3>1. O!Rank(keep, (i - 1) + 1) =
                  O!Rank(keep, i - 1) + (IF (i - 1) + 1 \in keep THEN 1 ELSE 0)
            BY <1>1, <2>1, RankFacts
        <3> QED
            BY <1>1, <2>1, <3>1, RankFacts
    <2>3. O!Rank(keep, i) \in 1..Cardinality(keep)
        BY <1>1, <1>2, <2>1, <2>2, RankFacts, SMTT(60)
    <2>4. O!Nth(keep, O!Rank(keep, i)) \in keep /\ O!Rank(keep, O!Nth(keep, O!Rank(keep, i))) = O!Rank(keep, i)
        BY <1>3, <2>3
    <2>5. ~(O!Nth(keep, O!Rank(keep, i)) < i) /\ ~(i < O!Nth(keep, O!Rank(keep, i)))
        BY <1>2, <1>9, <2>3, <2>4
    <2> QED
        BY <1>1, <2>3, <2>4, <2>5
<1> QED
    BY <1>3, <1>4, <1>5, <1>7, <1>8, <1>10

-----------------------------------------------------------------------------
(* The log of picks and the dismissals.                                    *)

Day == 0..MaxDay

LogCall == [op : {"prune", "clear"}, at : {"read", "written"}, content : Seq(O!Line)]
MuteCall == [op : {"dismiss"}, at : {"read", "written"}, target : Targets, day : Day,
             content : SUBSET O!Mute]

ObsTypes ==
    /\ day \in Day /\ lines \in Seq(O!Line) /\ logTmp \in Seq(O!Line)
    /\ muted \subseteq O!Mute /\ muteTmp \subseteq O!Mute
    /\ call \in [Procs -> LogCall \cup MuteCall \cup {O!Free}]
    /\ picks \in Seq(Day) /\ Len(picks) <= MaxPicks /\ calls \in 0..MaxCalls
    /\ cleared \subseteq 1..Len(picks) /\ promised \subseteq O!Mute
    /\ collided \in BOOLEAN

OnLog(c) == c.op \in {"prune", "clear"}
OnMutes(c) == c.op = "dismiss"

\* The lines of s are picks that were made, each once and in their order.
Recorded(s, made) ==
    /\ \A i \in 1..Len(s) : s[i].n \in 1..Len(made) /\ s[i].day = made[s[i].n]
    /\ \A i, j \in 1..Len(s) : i < j => s[i].n < s[j].n

LogsAreRecords ==
    /\ Recorded(lines, picks) /\ Recorded(logTmp, picks)
    /\ \A p \in Procs : OnLog(call[p]) => Recorded(call[p].content, picks)

Nums(s) == {s[i].n : i \in 1..Len(s)}

\* s has every pick that was not cleared and is not too old, and none that was.
Keeps(s, made, gone, today) ==
    /\ \A n \in 1..Len(made) : n \in Nums(s) \/ n \in gone \/ made[n] + Retention < today
    /\ Nums(s) \cap gone = {}

\* Two calls never rewrite one file at the same time.
Apart ==
    \A p, q \in Procs : p # q => /\ ~(OnLog(call[p]) /\ OnLog(call[q]))
                                 /\ ~(OnMutes(call[p]) /\ OnMutes(call[q]))

PicksAreKept ==
    /\ Keeps(lines, picks, cleared, day)
    /\ \A p \in Procs :
           /\ call[p].op = "prune" => Keeps(call[p].content, picks, cleared, day)
           /\ call[p].op = "clear" => call[p].content = <<>>
           /\ OnLog(call[p]) /\ call[p].at = "written" => logTmp = call[p].content

\* set has an entry for each dismissal that still counts, no older than it.
Holds(set, given, today) ==
    \A m \in given : m.day + Ttl >= today =>
        \E x \in set : x.target = m.target /\ x.day >= m.day

MutesAreKept ==
    /\ Holds(muted, promised, day)
    /\ \A p \in Procs : OnMutes(call[p]) =>
           /\ Holds(call[p].content, promised, day)
           /\ [target |-> call[p].target, day |-> call[p].day] \in call[p].content
           /\ call[p].at = "written" => muteTmp = call[p].content

DaysArePast ==
    /\ \A m \in promised : m.day <= day
    /\ \A p \in Procs : OnMutes(call[p]) => call[p].day <= day

ObsInv ==
    /\ ObsTypes /\ LogsAreRecords /\ DaysArePast
    /\ collided \/ (Apart /\ PicksAreKept /\ MutesAreKept)

LEMMA ObsSizes ==
    /\ Retention \in Nat /\ Ttl \in Nat /\ MaxPicks \in Nat /\ MaxDay \in Nat
    /\ MaxCalls \in Nat /\ MinCount \in Nat /\ MinCount >= 1
BY DesktopAssumption

\* The calls are told apart by their op.
LEMMA CallKinds ==
    ASSUME NEW c \in LogCall \cup MuteCall \cup {O!Free}
    PROVE  /\ OnLog(c) <=> c \in LogCall
           /\ OnMutes(c) <=> c \in MuteCall
           /\ ~OnLog(c) /\ ~OnMutes(c) <=> c = O!Free
           /\ ~(OnLog(c) /\ OnMutes(c))
           /\ OnLog(c) => c.content \in Seq(O!Line) /\ c.op \in {"prune", "clear"}
           /\ OnMutes(c) => /\ c.content \subseteq O!Mute /\ c.target \in Targets
                            /\ c.day \in Day
           /\ c.op \in {"none", "prune", "clear", "dismiss"}
<1>1. CASE c \in LogCall
    <2>1. c.op \in {"prune", "clear"} /\ c.content \in Seq(O!Line)
        BY <1>1 DEF LogCall
    <2>2. O!Free.op = "none"
        BY DEF O!Free
    <2>3. c \notin MuteCall /\ c # O!Free
        <3>1. c \in MuteCall => c.op = "dismiss"
            BY DEF MuteCall
        <3> QED
            BY <2>1, <2>2, <3>1
    <2> QED
        BY <1>1, <2>1, <2>3 DEF OnLog, OnMutes
<1>2. CASE c \in MuteCall
    <2>1. /\ c.op = "dismiss" /\ c.content \subseteq O!Mute /\ c.target \in Targets
          /\ c.day \in Day
        BY <1>2 DEF MuteCall
    <2>2. O!Free.op = "none"
        BY DEF O!Free
    <2>3. c \notin LogCall /\ c # O!Free
        <3>1. c \in LogCall => c.op \in {"prune", "clear"}
            BY DEF LogCall
        <3> QED
            BY <2>1, <2>2, <3>1
    <2> QED
        BY <1>2, <2>1, <2>3 DEF OnLog, OnMutes
<1>3. CASE c = O!Free
    <2>1. c.op = "none"
        BY <1>3 DEF O!Free
    <2>2. c \notin LogCall /\ c \notin MuteCall
        BY <2>1 DEF LogCall, MuteCall
    <2> QED
        BY <1>3, <2>1, <2>2 DEF OnLog, OnMutes
<1> QED
    BY <1>1, <1>2, <1>3

\* Pruning keeps the order, the picks that are young enough, and no other.
LEMMA RetainedKeeps ==
    ASSUME ObsTypes, Recorded(lines, picks)
    PROVE  /\ O!Retained \in Seq(O!Line)
           /\ Recorded(O!Retained, picks)
           /\ Keeps(lines, picks, cleared, day) => Keeps(O!Retained, picks, cleared, day)
<1> DEFINE keep == {i \in DOMAIN lines : lines[i].day + Retention >= day}
           s == O!Retained
           n == Cardinality(keep)
<1>1. lines \in Seq(O!Line) /\ keep \in SUBSET (DOMAIN lines) /\ DOMAIN lines = 1..Len(lines)
    BY DEF ObsTypes
<1>2. s = O!Kept(lines, keep)
    BY DEF O!Retained
<1>3. /\ s \in Seq(O!Line) /\ Len(s) = n
      /\ \A m \in 1..n : O!Nth(keep, m) \in keep /\ s[m] = lines[O!Nth(keep, m)]
      /\ \A l, m \in 1..n : l < m => O!Nth(keep, l) < O!Nth(keep, m)
      /\ \A i \in keep : O!Rank(keep, i) \in 1..n /\ O!Nth(keep, O!Rank(keep, i)) = i
    <2> HIDE DEF keep, s
    <2>1. /\ O!Kept(lines, keep) \in Seq(O!Line) /\ Len(O!Kept(lines, keep)) = Cardinality(keep)
          /\ \A m \in 1..Cardinality(keep) :
                 O!Nth(keep, m) \in keep /\ O!Kept(lines, keep)[m] = lines[O!Nth(keep, m)]
          /\ \A l, m \in 1..Cardinality(keep) : l < m => O!Nth(keep, l) < O!Nth(keep, m)
          /\ \A i \in keep : O!Rank(keep, i) \in 1..Cardinality(keep) /\ O!Nth(keep, O!Rank(keep, i)) = i
        BY <1>1, KeptFacts
    <2> QED
        BY <1>2, <2>1
<1>4. \A i \in keep : i \in 1..Len(lines)
    BY <1>1
<1>5. \A i \in 1..Len(lines) : i \in keep \/ lines[i].day + Retention < day
    <2> TAKE i \in 1..Len(lines)
    <2>1. lines[i].day \in Nat /\ day \in Nat
        <3>1. lines[i] \in O!Line /\ day \in Day
            BY <1>1 DEF ObsTypes
        <3> QED
            BY <3>1, ObsSizes DEF O!Line, Day
    <2>2. i \in DOMAIN lines
        BY <1>1
    <2> QED
        BY <2>1, <2>2, ObsSizes
<1> HIDE DEF s, n, keep
<1>6. Recorded(s, picks)
    <2>1. \A m \in 1..Len(s) : s[m].n \in 1..Len(picks) /\ s[m].day = picks[s[m].n]
        BY <1>3, <1>4 DEF Recorded
    <2>2. \A l, m \in 1..Len(s) : l < m => s[l].n < s[m].n
        BY <1>3, <1>4 DEF Recorded
    <2> QED
        BY <2>1, <2>2 DEF Recorded
<1>7. ASSUME Keeps(lines, picks, cleared, day) PROVE Keeps(s, picks, cleared, day)
    <2>1. Nums(s) \subseteq Nums(lines)
        BY <1>3, <1>4 DEF Nums
    <2>2. ASSUME NEW k \in 1..Len(picks), k \in Nums(lines)
          PROVE  k \in Nums(s) \/ picks[k] + Retention < day
        <3>1. PICK i \in 1..Len(lines) : lines[i].n = k
            BY <2>2 DEF Nums
        <3>2. lines[i].day = picks[k]
            BY <3>1 DEF Recorded
        <3>3. CASE i \in keep
            <4>1. O!Rank(keep, i) \in 1..Len(s) /\ s[O!Rank(keep, i)] = lines[i]
                BY <1>3, <3>3
            <4> QED
                BY <3>1, <4>1 DEF Nums
        <3> QED
            BY <1>5, <3>2, <3>3
    <2> QED
        BY <1>7, <2>1, <2>2 DEF Keeps
<1> QED
    BY <1>3, <1>6, <1>7 DEF s

\* A log that is kept is kept as days pass.
LEMMA TimePasses ==
    ASSUME ObsTypes, NEW d \in Nat, d >= day
    PROVE  /\ \A s : Keeps(s, picks, cleared, day) => Keeps(s, picks, cleared, d)
           /\ \A set : Holds(set, promised, day) => Holds(set, promised, d)
<1>1. day \in Nat /\ \A n \in 1..Len(picks) : picks[n] \in Nat
    BY ObsSizes DEF ObsTypes, Day
<1>2. \A m \in promised : m.day \in Nat
    BY ObsSizes DEF ObsTypes, O!Mute, Day
<1>3. \A n \in 1..Len(picks) : picks[n] + Retention < day => picks[n] + Retention < d
    BY <1>1, ObsSizes
<1>4. \A m \in promised : m.day + Ttl >= d => m.day + Ttl >= day
    BY <1>1, <1>2, ObsSizes
<1> QED
    BY <1>3, <1>4 DEF Keeps, Holds

\* A pick is recorded.
LEMMA RecordKeeps ==
    ASSUME ObsInv, NEW p \in Procs, O!Record(p)
    PROVE  ObsInv'
<1>1. PICK t \in Targets :
          lines' = Append(lines, [n |-> Len(picks'), target |-> t, day |-> day])
    BY DEF O!Record
<1>2. /\ call[p] = O!Free /\ Len(picks) < MaxPicks
      /\ picks' = Append(picks, day)
      /\ collided' = (collided \/ O!Meets(p, {"prune", "clear"}))
      /\ UNCHANGED <<day, muted, logTmp, muteTmp, call, calls, cleared, promised>>
    BY DEF O!Record, O!Locked
<1> DEFINE k == Len(picks) + 1
           line == [n |-> k, target |-> t, day |-> day]
<1>3. ObsTypes
    BY DEF ObsInv
<1>4. /\ day \in Day /\ picks \in Seq(Day) /\ lines \in Seq(O!Line) /\ Len(picks) \in Nat
      /\ Len(lines) \in Nat /\ logTmp \in Seq(O!Line)
    BY <1>3 DEF ObsTypes
<1>5. /\ picks' \in Seq(Day) /\ Len(picks') = k /\ picks'[k] = day
      /\ \A n \in 1..Len(picks) : picks'[n] = picks[n]
      /\ \A n \in 1..k : n = k \/ n \in 1..Len(picks)
      /\ \A n \in 1..Len(picks) : n \in 1..k /\ n < k
      /\ k \in 1..k /\ k \in 1..MaxPicks
    BY <1>2, <1>4, ObsSizes
<1>6. line \in O!Line /\ line.n = k /\ line.day = day
    BY <1>4, <1>5 DEF O!Line, Day
<1>7. lines' = Append(lines, line)
    BY <1>1, <1>5
<1> HIDE DEF line, k
<1>8. /\ lines' \in Seq(O!Line) /\ Len(lines') = Len(lines) + 1 /\ lines'[Len(lines) + 1] = line
      /\ \A i \in 1..Len(lines) : lines'[i] = lines[i]
      /\ \A i \in 1..Len(lines') : i = Len(lines) + 1 \/ i \in 1..Len(lines)
      /\ \A i \in 1..Len(lines) : i \in 1..Len(lines') /\ i < Len(lines) + 1
      /\ Len(lines) + 1 \in 1..Len(lines')
    BY <1>4, <1>6, <1>7
<1>9. ObsTypes'
    <2>1. cleared \subseteq 1..Len(picks) /\ Len(picks') <= MaxPicks
        BY <1>3, <1>5 DEF ObsTypes
    <2>2. cleared' \subseteq 1..Len(picks')
        BY <1>2, <1>5, <2>1
    <2>3. collided' \in BOOLEAN
        BY <1>2, <1>3 DEF ObsTypes, O!Meets
    <2> QED
        BY <1>2, <1>3, <1>5, <1>8, <2>1, <2>2, <2>3 DEF ObsTypes, LogCall, MuteCall, Day,
            O!Line, O!Mute, O!Free
<1>10. ASSUME NEW s, Recorded(s, picks) PROVE Recorded(s, picks')
    BY <1>5, <1>10 DEF Recorded
<1>11. LogsAreRecords'
    <2>1. Recorded(lines', picks')
        <3>1. \A i \in 1..Len(lines) : lines[i].n \in 1..Len(picks)
                                       /\ lines[i].day = picks[lines[i].n]
            BY DEF ObsInv, LogsAreRecords, Recorded
        <3>2. \A i \in 1..Len(lines') :
                  lines'[i].n \in 1..Len(picks') /\ lines'[i].day = picks'[lines'[i].n]
            BY <1>5, <1>6, <1>8, <3>1, ZenonT(60)
        <3>3. ASSUME NEW i \in 1..Len(lines'), NEW j \in 1..Len(lines'), i < j
              PROVE  lines'[i].n < lines'[j].n
            <4>1. i \in 1..Len(lines)
                BY <1>4, <1>8, <3>3
            <4>2. CASE j = Len(lines) + 1
                BY <1>5, <1>6, <1>8, <3>1, <4>1, <4>2
            <4>3. CASE j \in 1..Len(lines)
                BY <1>8, <3>3, <4>1, <4>3 DEF ObsInv, LogsAreRecords, Recorded
            <4> QED
                BY <1>8, <4>2, <4>3
        <3> QED
            BY <3>2, <3>3 DEF Recorded
    <2>2. Recorded(logTmp, picks')
        BY <1>10 DEF ObsInv, LogsAreRecords
    <2>3. \A q \in Procs : OnLog(call[q]) => Recorded(call[q].content, picks')
        BY <1>10 DEF ObsInv, LogsAreRecords
    <2> QED
        BY <1>2, <2>1, <2>2, <2>3 DEF LogsAreRecords
<1>12. DaysArePast'
    BY <1>2 DEF ObsInv, DaysArePast
<1>13. ASSUME ~collided' PROVE Apart' /\ PicksAreKept' /\ MutesAreKept'
    <2>1. ~collided /\ Apart /\ PicksAreKept /\ MutesAreKept
        BY <1>2, <1>13 DEF ObsInv
    <2>2. \A q \in Procs : ~OnLog(call[q])
        <3> TAKE q \in Procs
        <3>1. CASE q = p
            BY <1>2, <3>1 DEF O!Free, OnLog
        <3>2. CASE q # p
            BY <1>2, <1>13, <3>2 DEF O!Meets, OnLog
        <3> QED
            BY <3>1, <3>2
    <2>3. Keeps(lines', picks', cleared, day)
        <3>1. \A n \in 1..Len(lines) : lines[n].n \in Nums(lines')
            BY <1>8 DEF Nums
        <3>2. Nums(lines) \subseteq Nums(lines')
            BY <3>1 DEF Nums
        <3>3. k \in Nums(lines')
            BY <1>6, <1>8 DEF Nums
        <3>4. \A x \in Nums(lines') : x = k \/ x \in Nums(lines)
            BY <1>6, <1>8 DEF Nums
        <3>5. k \notin cleared
            BY <1>3, <1>4 DEF ObsTypes, k
        <3>6. \A n \in 1..Len(picks) :
                  n \in Nums(lines) \/ n \in cleared \/ picks[n] + Retention < day
            BY <2>1 DEF PicksAreKept, Keeps
        <3>7. \A n \in 1..Len(picks') :
                  n \in Nums(lines') \/ n \in cleared \/ picks'[n] + Retention < day
            BY <1>5, <3>2, <3>3, <3>6
        <3>8. Nums(lines') \cap cleared = {}
            BY <2>1, <3>4, <3>5 DEF PicksAreKept, Keeps
        <3> QED
            BY <3>7, <3>8 DEF Keeps
    <2>4. PicksAreKept'
        <3>1. \A q \in Procs : call[q].op # "prune" /\ call[q].op # "clear"
            BY <2>2 DEF OnLog
        <3> QED
            BY <1>2, <2>2, <2>3, <3>1 DEF PicksAreKept
    <2>5. Apart' /\ MutesAreKept'
        BY <1>2, <2>1 DEF Apart, MutesAreKept
    <2> QED
        BY <2>4, <2>5
<1> QED
    BY <1>9, <1>11, <1>12, <1>13 DEF ObsInv

\* A call begins: what it is, and that it meets no other unless that is noted.
LEMMA BeginKeeps ==
    ASSUME ObsInv, NEW p \in Procs, NEW c \in LogCall \cup MuteCall, O!Begin(p, c),
           c.at = "read",
           UNCHANGED <<day, lines, muted, logTmp, muteTmp, picks, cleared, promised>>,
           NEW ops, collided' = (collided \/ O!Meets(p, ops)),
           OnLog(c) => ops = {"prune", "clear"} /\ Recorded(c.content, picks),
           OnMutes(c) => ops = {"dismiss"} /\ c.day <= day,
           ~collided => /\ c.op = "prune" => Keeps(c.content, picks, cleared, day)
                        /\ c.op = "clear" => c.content = <<>>
                        /\ OnMutes(c) => /\ Holds(c.content, promised, day)
                                         /\ [target |-> c.target, day |-> c.day] \in c.content
    PROVE  ObsInv'
<1>1. call[p] = O!Free /\ calls < MaxCalls /\ calls' = calls + 1 /\ call' = [call EXCEPT ![p] = c]
    BY DEF O!Begin, O!Locked
<1>2. /\ call \in [Procs -> LogCall \cup MuteCall \cup {O!Free}]
      /\ calls \in 0..MaxCalls /\ collided \in BOOLEAN
    BY DEF ObsInv, ObsTypes
<1>3. /\ call' \in [Procs -> LogCall \cup MuteCall \cup {O!Free}]
      /\ call'[p] = c /\ \A q \in Procs : q # p => call'[q] = call[q]
    BY <1>1, <1>2
<1>4. ~(OnLog(c) /\ OnMutes(c)) /\ (OnLog(c) \/ OnMutes(c))
    BY CallKinds
<1>5. ObsTypes'
    <2>1. calls' \in 0..MaxCalls
        BY <1>1, <1>2, ObsSizes
    <2>2. collided' \in BOOLEAN
        BY <1>2 DEF O!Meets
    <2> QED
        BY <1>3, <2>1, <2>2 DEF ObsInv, ObsTypes, LogCall, MuteCall, Day, O!Line, O!Mute, O!Free
<1>6. LogsAreRecords'
    <2>1. \A q \in Procs : OnLog(call'[q]) => Recorded(call'[q].content, picks)
        BY <1>3 DEF ObsInv, LogsAreRecords
    <2> QED
        BY <2>1 DEF ObsInv, LogsAreRecords
<1>7. DaysArePast'
    <2>1. \A q \in Procs : OnMutes(call'[q]) => call'[q].day <= day
        BY <1>3 DEF ObsInv, DaysArePast
    <2> QED
        BY <2>1 DEF ObsInv, DaysArePast
<1>8. ASSUME ~collided' PROVE Apart' /\ PicksAreKept' /\ MutesAreKept'
    <2>1. ~collided /\ Apart /\ PicksAreKept /\ MutesAreKept
        BY <1>2, <1>8 DEF ObsInv
    <2>2. \A q \in Procs \ {p} : call[q].op \notin ops
        BY <1>8 DEF O!Meets
    <2>3. \A q \in Procs \ {p} : ~(OnLog(call[q]) /\ OnLog(c)) /\ ~(OnMutes(call[q]) /\ OnMutes(c))
        BY <2>2 DEF OnLog, OnMutes
    <2>4. Apart'
        BY <1>3, <2>1, <2>3 DEF Apart
    <2>5. PicksAreKept'
        <3>1. /\ c.op = "prune" => Keeps(c.content, picks, cleared, day)
              /\ c.op = "clear" => c.content = <<>>
              /\ ~(c.at = "written")
            BY <2>1
        <3>2. \A q \in Procs :
                  /\ call'[q].op = "prune" => Keeps(call'[q].content, picks, cleared, day)
                  /\ call'[q].op = "clear" => call'[q].content = <<>>
                  /\ OnLog(call'[q]) /\ call'[q].at = "written" => logTmp = call'[q].content
            BY <1>3, <2>1, <3>1 DEF PicksAreKept
        <3> QED
            BY <2>1, <3>2 DEF PicksAreKept
    <2>6. MutesAreKept'
        <3>1. /\ OnMutes(c) => /\ Holds(c.content, promised, day)
                               /\ [target |-> c.target, day |-> c.day] \in c.content
              /\ ~(c.at = "written")
            BY <2>1
        <3>2. \A q \in Procs : OnMutes(call'[q]) =>
                  /\ Holds(call'[q].content, promised, day)
                  /\ [target |-> call'[q].target, day |-> call'[q].day] \in call'[q].content
                  /\ call'[q].at = "written" => muteTmp = call'[q].content
            BY <1>3, <2>1, <3>1 DEF MutesAreKept
        <3> QED
            BY <2>1, <3>2 DEF MutesAreKept
    <2> QED
        BY <2>4, <2>5, <2>6
<1> QED
    BY <1>5, <1>6, <1>7, <1>8 DEF ObsInv

\* Pruning, clearing and dismissing begin so.
LEMMA CallsBegin ==
    ASSUME ObsInv, NEW p \in Procs, O!Prune(p) \/ O!Clear(p) \/ O!Dismiss(p)
    PROVE  ObsInv'
<1>1. ObsTypes /\ Recorded(lines, picks) /\ DaysArePast
      /\ (~collided => Keeps(lines, picks, cleared, day) /\ Holds(muted, promised, day))
    BY DEF ObsInv, LogsAreRecords, PicksAreKept, MutesAreKept
<1>2. CASE O!Prune(p)
    <2> DEFINE c == [op |-> "prune", at |-> "read", content |-> O!Retained]
    <2>1. /\ O!Retained \in Seq(O!Line) /\ Recorded(O!Retained, picks)
          /\ ~collided => Keeps(O!Retained, picks, cleared, day)
        BY <1>1, RetainedKeeps
    <2>2. c \in LogCall /\ c.op = "prune" /\ c.at = "read" /\ c.content = O!Retained
        BY <2>1 DEF LogCall
    <2>3. OnLog(c) /\ ~OnMutes(c)
        BY <2>2 DEF OnLog, OnMutes
    <2>4. /\ O!Begin(p, c) /\ collided' = (collided \/ O!Meets(p, {"prune", "clear"}))
          /\ UNCHANGED <<day, lines, muted, logTmp, muteTmp, picks, cleared, promised>>
        BY <1>2 DEF O!Prune
    <2> HIDE DEF c
    <2> QED
        BY <2>1, <2>2, <2>3, <2>4, BeginKeeps
<1>3. CASE O!Clear(p)
    <2> DEFINE c == [op |-> "clear", at |-> "read", content |-> <<>>]
    <2>1. <<>> \in Seq(O!Line) /\ Recorded(<<>>, picks)
        BY DEF Recorded
    <2>2. c \in LogCall /\ c.op = "clear" /\ c.at = "read" /\ c.content = <<>>
        BY <2>1 DEF LogCall
    <2>3. OnLog(c) /\ ~OnMutes(c)
        BY <2>2 DEF OnLog, OnMutes
    <2>4. /\ O!Begin(p, c) /\ collided' = (collided \/ O!Meets(p, {"prune", "clear"}))
          /\ UNCHANGED <<day, lines, muted, logTmp, muteTmp, picks, cleared, promised>>
        BY <1>3 DEF O!Clear
    <2> HIDE DEF c
    <2> QED
        BY <2>1, <2>2, <2>3, <2>4, BeginKeeps
<1>4. CASE O!Dismiss(p)
    <2>1. PICK t \in Targets :
              O!Begin(p, [op |-> "dismiss", at |-> "read", target |-> t, day |-> day,
                          content |-> O!WithDismissal(t)])
        BY <1>4 DEF O!Dismiss
    <2> DEFINE set == O!WithDismissal(t)
               c == [op |-> "dismiss", at |-> "read", target |-> t, day |-> day,
                     content |-> set]
    <2>2. day \in Day /\ day \in Nat /\ muted \subseteq O!Mute /\ promised \subseteq O!Mute
        BY <1>1, ObsSizes DEF ObsTypes, Day
    <2>3. [target |-> t, day |-> day] \in O!Mute
        BY <2>2 DEF O!Mute, Day
    <2>4. set \subseteq O!Mute /\ [target |-> t, day |-> day] \in set
        BY <2>2, <2>3 DEF O!WithDismissal
    <2>5. ASSUME ~collided PROVE Holds(set, promised, day)
        <3> SUFFICES ASSUME NEW m \in promised, m.day + Ttl >= day
                     PROVE  \E x \in set : x.target = m.target /\ x.day >= m.day
            BY DEF Holds
        <3>1. PICK x \in muted : x.target = m.target /\ x.day >= m.day
            BY <1>1, <2>5 DEF Holds
        <3>2. x.day \in Nat /\ m.day \in Nat /\ m.day <= day
            BY <1>1, <2>2, ObsSizes DEF O!Mute, DaysArePast
        <3>3. CASE m.target = t
            BY <2>2, <2>4, <3>2, <3>3
        <3>4. CASE m.target # t
            <4>1. x.day + Ttl >= day
                BY <2>2, <3>1, <3>2, ObsSizes
            <4>2. x \in set
                BY <3>1, <3>4, <4>1 DEF O!WithDismissal
            <4> QED
                BY <3>1, <4>2
        <3> QED
            BY <3>3, <3>4
    <2> HIDE DEF set
    <2>6. c \in MuteCall /\ c.op = "dismiss" /\ c.at = "read" /\ c.content = set
          /\ c.target = t /\ c.day = day
        BY <2>2, <2>4 DEF MuteCall
    <2>7. OnMutes(c) /\ ~OnLog(c)
        BY <2>6 DEF OnLog, OnMutes
    <2>8. /\ O!Begin(p, c) /\ collided' = (collided \/ O!Meets(p, {"dismiss"}))
          /\ UNCHANGED <<day, lines, muted, logTmp, muteTmp, picks, cleared, promised>>
        BY <1>4, <2>1 DEF O!Dismiss, set
    <2>9. c.day <= day
        BY <2>2, <2>6
    <2> HIDE DEF c
    <2> QED
        BY <2>4, <2>5, <2>6, <2>7, <2>8, <2>9, BeginKeeps
<1> QED
    BY <1>2, <1>3, <1>4

\* The tmp file is written.
LEMMA WriteTmpKeeps ==
    ASSUME ObsInv, NEW p \in Procs, O!WriteTmp(p)
    PROVE  ObsInv'
<1> DEFINE c == [call[p] EXCEPT !.at = "written"]
<1>1. /\ call[p] # O!Free /\ call' = [call EXCEPT ![p] = c]
      /\ call[p].op = "dismiss" => muteTmp' = call[p].content /\ logTmp' = logTmp
      /\ call[p].op # "dismiss" => logTmp' = call[p].content /\ muteTmp' = muteTmp
      /\ UNCHANGED <<day, lines, muted, picks, calls, cleared, promised, collided>>
    BY DEF O!WriteTmp, O!Locked
<1>2. /\ ObsTypes /\ call \in [Procs -> LogCall \cup MuteCall \cup {O!Free}]
      /\ call[p] \in LogCall \cup MuteCall \cup {O!Free}
    BY DEF ObsInv, ObsTypes
<1>3. /\ c \in LogCall \cup MuteCall /\ c.op = call[p].op /\ c.content = call[p].content
      /\ OnMutes(call[p]) => c.target = call[p].target /\ c.day = call[p].day
    <2>1. CASE call[p] \in LogCall
        <3>1. c \in LogCall /\ c.op = call[p].op /\ c.content = call[p].content
            BY <2>1 DEF LogCall
        <3> QED
            BY <1>2, <2>1, <3>1, CallKinds
    <2>2. CASE call[p] \in MuteCall
        <3>1. c \in MuteCall /\ c.op = call[p].op /\ c.content = call[p].content
              /\ c.target = call[p].target /\ c.day = call[p].day
            BY <2>2 DEF MuteCall
        <3> QED
            BY <3>1
    <2> QED
        BY <1>1, <1>2, <2>1, <2>2
<1> HIDE DEF c
<1>4. /\ call' \in [Procs -> LogCall \cup MuteCall \cup {O!Free}]
      /\ call'[p] = c /\ \A q \in Procs : q # p => call'[q] = call[q]
    BY <1>1, <1>2, <1>3
<1>5. /\ OnLog(c) <=> OnLog(call[p])
      /\ OnMutes(c) <=> OnMutes(call[p])
      /\ OnLog(c) \/ OnMutes(c)
      /\ ~(OnLog(c) /\ OnMutes(c))
      /\ OnLog(call[p]) => call[p].content \in Seq(O!Line)
      /\ OnMutes(call[p]) => call[p].content \subseteq O!Mute
    BY <1>2, <1>3, CallKinds DEF OnLog, OnMutes
<1>6. ObsTypes'
    <2>1. logTmp' \in Seq(O!Line) /\ muteTmp' \subseteq O!Mute
        BY <1>1, <1>2, <1>5 DEF ObsTypes, OnMutes
    <2> QED
        BY <1>1, <1>2, <1>4, <2>1 DEF ObsTypes, LogCall, MuteCall, Day, O!Line, O!Mute, O!Free
<1>7. LogsAreRecords'
    <2>1. \A q \in Procs : OnLog(call'[q]) => Recorded(call'[q].content, picks)
        BY <1>3, <1>4, <1>5 DEF ObsInv, LogsAreRecords
    <2>2. Recorded(logTmp', picks)
        BY <1>1, <1>5 DEF ObsInv, LogsAreRecords, OnMutes
    <2> QED
        BY <1>1, <2>1, <2>2 DEF ObsInv, LogsAreRecords
<1>8. DaysArePast'
    <2>1. \A q \in Procs : OnMutes(call'[q]) => call'[q].day <= day
        BY <1>3, <1>4, <1>5 DEF ObsInv, DaysArePast
    <2> QED
        BY <1>1, <2>1 DEF ObsInv, DaysArePast
<1>9. ASSUME ~collided' PROVE Apart' /\ PicksAreKept' /\ MutesAreKept'
    <2>1. Apart /\ PicksAreKept /\ MutesAreKept
        BY <1>1, <1>9 DEF ObsInv
    <2>2. Apart'
        BY <1>4, <1>5, <2>1 DEF Apart
    <2>3. PicksAreKept'
        <3>1. /\ c.op = "prune" => Keeps(c.content, picks, cleared, day)
              /\ c.op = "clear" => c.content = <<>>
            BY <1>3, <2>1 DEF PicksAreKept
        <3>2. OnLog(c) => logTmp' = c.content
            BY <1>1, <1>3, <1>5 DEF OnMutes
        <3>3. \A q \in Procs : q # p /\ OnLog(call[q]) => logTmp' = logTmp
            BY <1>1, <1>5, <2>1 DEF Apart, OnMutes
        <3>4. \A q \in Procs :
                  /\ call'[q].op = "prune" => Keeps(call'[q].content, picks, cleared, day)
                  /\ call'[q].op = "clear" => call'[q].content = <<>>
                  /\ OnLog(call'[q]) /\ call'[q].at = "written" => logTmp' = call'[q].content
            BY <1>4, <2>1, <3>1, <3>2, <3>3 DEF PicksAreKept
        <3> QED
            BY <1>1, <2>1, <3>4 DEF PicksAreKept
    <2>4. MutesAreKept'
        <3>1. OnMutes(c) => /\ Holds(c.content, promised, day)
                            /\ [target |-> c.target, day |-> c.day] \in c.content
                            /\ muteTmp' = c.content
            BY <1>1, <1>3, <1>5, <2>1 DEF MutesAreKept, OnMutes
        <3>2. \A q \in Procs : q # p /\ OnMutes(call[q]) => muteTmp' = muteTmp
            BY <1>1, <1>5, <2>1 DEF Apart, OnMutes
        <3>3. \A q \in Procs : OnMutes(call'[q]) =>
                  /\ Holds(call'[q].content, promised, day)
                  /\ [target |-> call'[q].target, day |-> call'[q].day] \in call'[q].content
                  /\ call'[q].at = "written" => muteTmp' = call'[q].content
            BY <1>4, <2>1, <3>1, <3>2 DEF MutesAreKept
        <3> QED
            BY <1>1, <2>1, <3>3 DEF MutesAreKept
    <2> QED
        BY <2>2, <2>3, <2>4
<1> QED
    BY <1>6, <1>7, <1>8, <1>9 DEF ObsInv

\* A call ends, whether or not it has renamed its file.
LEMMA EndKeeps ==
    ASSUME ObsTypes, NEW p \in Procs, call' = [call EXCEPT ![p] = O!Free]
    PROVE  /\ call' \in [Procs -> LogCall \cup MuteCall \cup {O!Free}]
           /\ ~OnLog(call'[p]) /\ ~OnMutes(call'[p])
           /\ \A q \in Procs : q # p => call'[q] = call[q]
           /\ Apart => Apart'
<1>1. call \in [Procs -> LogCall \cup MuteCall \cup {O!Free}]
    BY DEF ObsTypes
<1>2. /\ call' \in [Procs -> LogCall \cup MuteCall \cup {O!Free}]
      /\ call'[p] = O!Free /\ \A q \in Procs : q # p => call'[q] = call[q]
    BY <1>1
<1>3. ~OnLog(call'[p]) /\ ~OnMutes(call'[p])
    BY <1>2 DEF OnLog, OnMutes, O!Free
<1>4. Apart => Apart'
    BY <1>2, <1>3 DEF Apart
<1> QED
    BY <1>2, <1>3, <1>4

\* The process dies with its call.
LEMMA FailKeeps ==
    ASSUME ObsInv, NEW p \in Procs, O!Fail(p)
    PROVE  ObsInv'
<1>1. /\ call' = [call EXCEPT ![p] = O!Free]
      /\ UNCHANGED <<day, lines, muted, logTmp, muteTmp, picks, calls, cleared, promised,
                     collided>>
    BY DEF O!Fail
<1>2. /\ call' \in [Procs -> LogCall \cup MuteCall \cup {O!Free}]
      /\ ~OnLog(call'[p]) /\ ~OnMutes(call'[p])
      /\ \A q \in Procs : q # p => call'[q] = call[q]
      /\ Apart => Apart'
    BY <1>1, EndKeeps DEF ObsInv
<1>3. ObsTypes'
    BY <1>1, <1>2 DEF ObsInv, ObsTypes, LogCall, MuteCall, Day, O!Line, O!Mute, O!Free
<1>4. LogsAreRecords'
    BY <1>1, <1>2 DEF ObsInv, LogsAreRecords
<1>5. DaysArePast'
    BY <1>1, <1>2 DEF ObsInv, DaysArePast
<1>6. PicksAreKept => PicksAreKept'
    <2>1. call'[p].op # "prune" /\ call'[p].op # "clear"
        BY <1>2 DEF OnLog
    <2> QED
        BY <1>1, <1>2, <2>1 DEF PicksAreKept
<1>7. MutesAreKept => MutesAreKept'
    BY <1>1, <1>2 DEF MutesAreKept
<1> QED
    BY <1>1, <1>2, <1>3, <1>4, <1>5, <1>6, <1>7 DEF ObsInv

\* The rename puts what was written in the place of the file.
LEMMA RenameKeeps ==
    ASSUME ObsInv, NEW p \in Procs, O!Rename(p)
    PROVE  ObsInv'
<1>1. /\ call[p] # O!Free /\ call[p].at = "written"
      /\ call' = [call EXCEPT ![p] = O!Free]
      /\ UNCHANGED <<day, logTmp, muteTmp, picks, calls, collided>>
    BY DEF O!Rename, O!Locked
<1>2. ObsTypes /\ LogsAreRecords /\ DaysArePast
      /\ (~collided => Apart /\ PicksAreKept /\ MutesAreKept)
    BY DEF ObsInv
<1>3. /\ call[p] \in LogCall \cup MuteCall \cup {O!Free}
      /\ OnLog(call[p]) \/ OnMutes(call[p])
      /\ ~(OnLog(call[p]) /\ OnMutes(call[p]))
      /\ OnMutes(call[p]) => call[p].target \in Targets /\ call[p].day \in Day
    <2>1. call[p] \in LogCall \cup MuteCall \cup {O!Free}
        BY <1>2 DEF ObsTypes
    <2> QED
        BY <1>1, <2>1, CallKinds
<1>4. /\ call' \in [Procs -> LogCall \cup MuteCall \cup {O!Free}]
      /\ ~OnLog(call'[p]) /\ ~OnMutes(call'[p])
      /\ \A q \in Procs : q # p => call'[q] = call[q]
      /\ Apart => Apart'
    BY <1>1, <1>2, EndKeeps
<1>5. call'[p].op # "prune" /\ call'[p].op # "clear"
    BY <1>4 DEF OnLog
<1>6. CASE OnMutes(call[p])
    <2> DEFINE m == [target |-> call[p].target, day |-> call[p].day]
    <2>1. muted' = muteTmp /\ promised' = promised \cup {m} /\ lines' = lines /\ cleared' = cleared
        BY <1>6 DEF O!Rename, OnMutes
    <2>2. m \in O!Mute /\ m.day = call[p].day /\ m.target = call[p].target
        BY <1>3, <1>6 DEF O!Mute, Day
    <2> HIDE DEF m
    <2>3. ObsTypes'
        <3>1. muted' \subseteq O!Mute /\ promised' \subseteq O!Mute
            BY <1>2, <2>1, <2>2 DEF ObsTypes
        <3> QED
            BY <1>1, <1>2, <1>4, <2>1, <3>1 DEF ObsTypes, LogCall, MuteCall, Day, O!Line, O!Mute,
                O!Free
    <2>4. LogsAreRecords'
        BY <1>1, <1>2, <1>4, <2>1 DEF LogsAreRecords
    <2>5. DaysArePast'
        <3>1. \A x \in promised' : x.day <= day
            BY <1>2, <1>6, <2>1, <2>2 DEF DaysArePast
        <3>2. \A q \in Procs : OnMutes(call'[q]) => call'[q].day <= day
            BY <1>2, <1>4 DEF DaysArePast
        <3> QED
            BY <1>1, <3>1, <3>2 DEF DaysArePast
    <2>6. PicksAreKept => PicksAreKept'
        BY <1>1, <1>4, <1>5, <2>1 DEF PicksAreKept
    <2>7. ASSUME ~collided PROVE MutesAreKept'
        <3>1. /\ muteTmp = call[p].content /\ Holds(call[p].content, promised, day)
              /\ m \in call[p].content
            BY <1>1, <1>2, <1>6, <2>7 DEF MutesAreKept, m
        <3>2. m.day \in Nat
            BY <2>2, ObsSizes DEF O!Mute
        <3>3. Holds(muted', promised', day)
            <4>1. m.target = m.target /\ m.day >= m.day
                BY <3>2
            <4> QED
                BY <2>1, <3>1, <4>1 DEF Holds
        <3>4. \A q \in Procs : ~OnMutes(call'[q])
            BY <1>2, <1>4, <1>6, <2>7 DEF Apart
        <3> QED
            BY <1>1, <3>3, <3>4 DEF MutesAreKept
    <2> QED
        BY <1>1, <1>2, <1>4, <2>3, <2>4, <2>5, <2>6, <2>7 DEF ObsInv
<1>7. CASE OnLog(call[p])
    <2>1. /\ lines' = logTmp /\ muted' = muted /\ promised' = promised
          /\ cleared' = IF call[p].op = "clear" THEN cleared \cup DOMAIN picks ELSE cleared
        BY <1>3, <1>7 DEF O!Rename, OnMutes
    <2>2. DOMAIN picks = 1..Len(picks)
        BY <1>2 DEF ObsTypes
    <2>3. ObsTypes'
        <3>1. cleared' \subseteq 1..Len(picks)
            BY <1>2, <2>1, <2>2 DEF ObsTypes
        <3>2. lines' \in Seq(O!Line)
            BY <1>2, <2>1 DEF ObsTypes
        <3> QED
            BY <1>1, <1>2, <1>4, <2>1, <3>1, <3>2 DEF ObsTypes, LogCall, MuteCall, Day, O!Line,
                O!Mute, O!Free
    <2>4. LogsAreRecords'
        BY <1>1, <1>2, <1>4, <2>1 DEF LogsAreRecords
    <2>5. DaysArePast'
        BY <1>1, <1>2, <1>4, <2>1 DEF DaysArePast
    <2>6. MutesAreKept => MutesAreKept'
        BY <1>1, <1>4, <2>1 DEF MutesAreKept
    <2>7. ASSUME ~collided PROVE PicksAreKept'
        <3>1. logTmp = call[p].content
            BY <1>1, <1>2, <1>7, <2>7 DEF PicksAreKept
        <3>2. \A q \in Procs : ~OnLog(call'[q])
            BY <1>2, <1>4, <1>7, <2>7 DEF Apart
        <3>3. \A q \in Procs : call'[q].op # "prune" /\ call'[q].op # "clear"
            BY <3>2 DEF OnLog
        <3>4. Keeps(lines', picks, cleared', day)
            <4>1. CASE call[p].op = "prune"
                <5>1. cleared' = cleared /\ Keeps(call[p].content, picks, cleared, day)
                    BY <1>2, <2>1, <2>7, <4>1 DEF PicksAreKept
                <5> QED
                    BY <2>1, <3>1, <5>1
            <4>2. CASE call[p].op = "clear"
                <5>1. lines' = <<>> /\ 1..Len(picks) \subseteq cleared'
                    BY <1>2, <2>1, <2>2, <2>7, <3>1, <4>2 DEF PicksAreKept
                <5>2. Nums(lines') = {}
                    BY <5>1 DEF Nums
                <5> QED
                    BY <5>1, <5>2 DEF Keeps
            <4> QED
                BY <1>7, <4>1, <4>2 DEF OnLog
        <3> QED
            BY <1>1, <3>2, <3>3, <3>4 DEF PicksAreKept
    <2> QED
        BY <1>1, <1>2, <1>4, <2>3, <2>4, <2>5, <2>6, <2>7 DEF ObsInv
<1> QED
    BY <1>3, <1>6, <1>7

\* A day passes.
LEMMA DayKeeps ==
    ASSUME ObsInv, O!DayPasses
    PROVE  ObsInv'
<1>1. /\ day < MaxDay /\ day' = day + 1
      /\ UNCHANGED <<lines, muted, logTmp, muteTmp, call, picks, calls, cleared, promised,
                     collided>>
    BY DEF O!DayPasses
<1>2. ObsTypes /\ day \in Nat /\ day' \in Nat /\ day' \in Day /\ day' >= day
    BY <1>1, ObsSizes DEF ObsInv, ObsTypes, Day
<1>3. /\ \A s : Keeps(s, picks, cleared, day) => Keeps(s, picks, cleared, day')
      /\ \A set : Holds(set, promised, day) => Holds(set, promised, day')
    BY <1>2, TimePasses
<1>4. ObsTypes'
    BY <1>1, <1>2 DEF ObsTypes, LogCall, MuteCall, Day, O!Line, O!Mute, O!Free
<1>5. LogsAreRecords' /\ (Apart => Apart')
    BY <1>1 DEF ObsInv, LogsAreRecords, Apart
<1>6. DaysArePast'
    <2>1. \A m \in promised : m.day \in Nat
        BY <1>2, ObsSizes DEF ObsTypes, O!Mute
    <2>2. \A q \in Procs : OnMutes(call[q]) => call[q].day \in Nat
        <3> TAKE q \in Procs
        <3>1. call[q] \in LogCall \cup MuteCall \cup {O!Free}
            BY <1>2 DEF ObsTypes
        <3>2. OnMutes(call[q]) => call[q].day \in Day
            BY <3>1, CallKinds
        <3> QED
            BY <3>2, ObsSizes DEF Day
    <2>3. \A m \in promised : m.day <= day'
        BY <1>1, <1>2, <2>1 DEF ObsInv, DaysArePast
    <2>4. \A q \in Procs : OnMutes(call[q]) => call[q].day <= day'
        BY <1>1, <1>2, <2>2 DEF ObsInv, DaysArePast
    <2> QED
        BY <1>1, <2>3, <2>4 DEF DaysArePast
<1>7. PicksAreKept => PicksAreKept'
    BY <1>1, <1>3 DEF PicksAreKept
<1>8. MutesAreKept => MutesAreKept'
    BY <1>1, <1>3 DEF MutesAreKept
<1> QED
    BY <1>1, <1>4, <1>5, <1>6, <1>7, <1>8 DEF ObsInv

\* Every step keeps the invariant.
LEMMA ObsInvKept ==
    ASSUME ObsInv, [O!Next]_(O!vars)
    PROVE  ObsInv'
<1>1. CASE UNCHANGED O!vars
    <2>1. UNCHANGED <<day, lines, muted, logTmp, muteTmp, call, picks, calls, cleared,
                      promised, collided>>
        BY <1>1 DEF O!vars
    <2>2. ObsTypes'
        BY <2>1 DEF ObsInv, ObsTypes, LogCall, MuteCall, Day, O!Line, O!Mute, O!Free
    <2>3. LogsAreRecords' /\ DaysArePast'
        BY <2>1 DEF ObsInv, LogsAreRecords, DaysArePast
    <2>4. /\ Apart => Apart'
          /\ PicksAreKept => PicksAreKept'
          /\ MutesAreKept => MutesAreKept'
        BY <2>1 DEF Apart, PicksAreKept, MutesAreKept
    <2> QED
        BY <2>1, <2>2, <2>3, <2>4 DEF ObsInv
<1> QED
    BY <1>1, RecordKeeps, CallsBegin, WriteTmpKeeps, RenameKeeps, FailKeeps, DayKeeps DEF O!Next

\* The invariant holds at the start.
LEMMA ObsInvAtFirst ==
    ASSUME O!Init
    PROVE  ObsInv
<1>1. /\ day = 0 /\ lines = <<>> /\ muted = {} /\ logTmp = <<>> /\ muteTmp = {}
      /\ call = [p \in Procs |-> O!Free] /\ picks = <<>> /\ calls = 0
      /\ cleared = {} /\ promised = {} /\ collided = FALSE
    BY DEF O!Init
<1>2. \A p \in Procs : call[p] = O!Free /\ ~OnLog(call[p]) /\ ~OnMutes(call[p])
                       /\ call[p].op = "none"
    BY <1>1 DEF OnLog, OnMutes, O!Free
<1>3. ObsTypes
    <2>1. <<>> \in Seq(O!Line) /\ <<>> \in Seq(Day) /\ Len(<<>>) = 0
        OBVIOUS
    <2>2. 0 \in Day /\ 0 \in 0..MaxCalls /\ 0 <= MaxPicks
        BY ObsSizes DEF Day
    <2>3. call \in [Procs -> LogCall \cup MuteCall \cup {O!Free}]
        BY <1>1
    <2> QED
        BY <1>1, <2>1, <2>2, <2>3 DEF ObsTypes
<1>4. LogsAreRecords /\ DaysArePast
    <2>1. Recorded(<<>>, <<>>)
        BY DEF Recorded
    <2> QED
        BY <1>1, <1>2, <2>1 DEF LogsAreRecords, DaysArePast
<1>5. Apart
    BY <1>2 DEF Apart
<1>6. PicksAreKept
    <2>1. Keeps(<<>>, <<>>, {}, 0)
        BY DEF Keeps, Nums
    <2> QED
        BY <1>1, <1>2, <2>1 DEF PicksAreKept
<1>7. MutesAreKept
    BY <1>1, <1>2 DEF MutesAreKept, Holds
<1> QED
    BY <1>3, <1>4, <1>5, <1>6, <1>7 DEF ObsInv

\* Of two suggestions for a host one has less than seven in ten.
LEMMA OneIsSuggested ==
    ASSUME ObsTypes
    PROVE  O!OneSuggestionPerHost
<1> SUFFICES ASSUME NEW t \in O!Aggregate, NEW u \in O!Aggregate, host[t] = host[u], t # u
             PROVE  FALSE
    BY DEF O!OneSuggestionPerHost
<1> DEFINE D == DOMAIN lines
           ofT == {i \in D : lines[i].target = t}
           ofU == {i \in D : lines[i].target = u}
           all == {i \in D : host[lines[i].target] = host[t]}
<1>1. IsFiniteSet(D)
    <2>1. Len(lines) \in Nat /\ D = 1..Len(lines)
        BY DEF ObsTypes
    <2> QED
        BY <2>1, FS_Interval
<1>2. ofT \cap ofU = {} /\ ofT \cup ofU \subseteq all /\ all \subseteq D
    OBVIOUS
<1>3. IsFiniteSet(all) /\ IsFiniteSet(ofT) /\ IsFiniteSet(ofU) /\ IsFiniteSet(ofT \cup ofU)
    <2>1. ofT \subseteq D /\ ofU \subseteq D /\ all \subseteq D /\ ofT \cup ofU \subseteq D
        OBVIOUS
    <2> QED
        BY <1>1, <2>1, FS_Subset
<1>4. /\ O!CountOf(t) = Cardinality(ofT) /\ O!CountOf(u) = Cardinality(ofU)
      /\ O!TotalOf(t) = Cardinality(all)
    BY SameCount DEF O!CountOf, O!TotalOf
<1>5. O!TotalOf(u) = Cardinality(all)
    BY SameCount DEF O!TotalOf
<1>6. /\ O!CountOf(t) >= MinCount /\ 10 * O!CountOf(t) >= 7 * O!TotalOf(t)
      /\ O!CountOf(u) >= MinCount /\ 10 * O!CountOf(u) >= 7 * O!TotalOf(u)
    BY DEF O!Aggregate
<1> HIDE DEF ofT, ofU, all, D
<1>7. Cardinality(ofT \cup ofU) = Cardinality(ofT) + Cardinality(ofU) - Cardinality(ofT \cap ofU)
    BY <1>3, FS_Union
<1>8. Cardinality(ofT \cap ofU) = 0
    BY <1>2, FS_EmptySet
<1>9. Cardinality(ofT \cup ofU) <= Cardinality(all)
    BY <1>2, <1>3, FS_Subset
<1>10. Cardinality(ofT) \in Nat /\ Cardinality(ofU) \in Nat /\ Cardinality(all) \in Nat
    BY <1>3, FS_CardinalityType
<1>11. Cardinality(ofT) + Cardinality(ofU) <= Cardinality(all)
    BY <1>7, <1>8, <1>9, <1>10
<1> QED
    BY <1>4, <1>5, <1>6, <1>10, <1>11, ObsSizes

\* What the invariant says of the files.
LEMMA ObsInvIsKept ==
    ASSUME ObsInv
    PROVE  ObservationsAreKept
<1>1. ObsTypes /\ LogsAreRecords /\ DaysArePast
      /\ (~collided => Apart /\ PicksAreKept /\ MutesAreKept)
    BY DEF ObsInv
<1>2. DOMAIN lines = 1..Len(lines) /\ DOMAIN picks = 1..Len(picks)
    BY <1>1 DEF ObsTypes
<1>3. O!TypeOK
    <2>1. O!ToSet(lines) \subseteq O!Line /\ O!ToSet(logTmp) \subseteq O!Line
        BY <1>1 DEF ObsTypes, O!ToSet
    <2>2. \A p \in Procs : call[p].op \in {"none", "prune", "clear", "dismiss"}
        <3> TAKE p \in Procs
        <3>1. call[p] \in LogCall \cup MuteCall \cup {O!Free}
            BY <1>1 DEF ObsTypes
        <3> QED
            BY <3>1, CallKinds
    <2>3. cleared \subseteq 1..MaxPicks
        <3>1. Len(picks) \in Nat /\ Len(picks) <= MaxPicks /\ cleared \subseteq 1..Len(picks)
            BY <1>1 DEF ObsTypes
        <3> QED
            BY <3>1, ObsSizes
    <2> QED
        BY <1>1, <2>1, <2>2, <2>3 DEF ObsTypes, O!TypeOK, Day
<1>4. O!Numbers = Nums(lines)
    BY <1>2 DEF O!Numbers, Nums
<1>5. O!KeepsPicks
    BY <1>1, <1>2, <1>4 DEF O!KeepsPicks, LogsAreRecords, Recorded, PicksAreKept, Keeps
<1>6. O!ClearedStaysCleared
    BY <1>1, <1>4 DEF O!ClearedStaysCleared, PicksAreKept, Keeps
<1>7. O!DismissedStaysAway
    <2> SUFFICES ASSUME ~collided, NEW m \in promised, m.day + Ttl >= day
                 PROVE  m.target \notin O!Aggregate
        BY DEF O!DismissedStaysAway
    <2>1. PICK x \in muted : x.target = m.target /\ x.day >= m.day
        BY <1>1 DEF MutesAreKept, Holds
    <2>2. x.day \in Nat /\ m.day \in Nat /\ day \in Nat
        BY <1>1, ObsSizes DEF ObsTypes, O!Mute, Day
    <2>3. x.day + Ttl >= day
        BY <2>1, <2>2, ObsSizes
    <2>4. m.target \in O!Active
        BY <2>1, <2>3 DEF O!Active
    <2> QED
        BY <2>4 DEF O!Aggregate
<1> QED
    BY <1>1, <1>3, <1>5, <1>6, <1>7, OneIsSuggested DEF ObservationsAreKept

\* Picks, clears and dismissals last, for any number of processes and files of
\* any length, unless two processes rewrite one file at the same time.
THEOREM ObservationsAlwaysKept == DesktopSpec => []ObservationsAreKept
<1>1. DesktopInit => ObsInv
    BY ObsInvAtFirst DEF DesktopInit
<1>2. ObsInv /\ [DesktopNext]_<<part, vars, obsVars, openerVars, trayVars>> => ObsInv'
    <2> SUFFICES ASSUME ObsInv, [DesktopNext]_<<part, vars, obsVars, openerVars, trayVars>>
                 PROVE  ObsInv'
        OBVIOUS
    <2>1. [O!Next]_(O!vars)
        BY DEF DesktopNext, obsVars, O!vars
    <2> QED
        BY <2>1, ObsInvKept
<1>3. ObsInv => ObservationsAreKept
    BY ObsInvIsKept
<1> QED
    BY <1>1, <1>2, <1>3, PTL DEF DesktopSpec

-----------------------------------------------------------------------------
(* The opener detection.                                                   *)

\* When an application with a bundle id was last in front.
Stretch == [from : Nat, to : Nat, known : BOOLEAN]

OpenerTypes ==
    /\ clock \in 0..MaxTime /\ front \in Apps
    /\ seenApps \in Seq(P!Entry) /\ Len(seenApps) <= RingCapacity
    /\ reading \in P!Entry \cup {P!Nothing}
    /\ wakeAt \in Nat
    /\ stretches \in [P!Bundles -> Stretch]

\* What was in front was not LinkPilot, and was there when it was read or later.
WasThere(e, kept) ==
    /\ bundle[e.app] # bundle[Self]
    /\ kept[bundle[e.app]].known
    /\ e.seen <= kept[bundle[e.app]].to

StretchesFollow ==
    /\ \A b \in P!Bundles : stretches[b].from <= stretches[b].to /\ stretches[b].to <= clock
    /\ stretches[bundle[front]].known /\ stretches[bundle[front]].to = clock

EntriesWereThere ==
    /\ \A i \in 1..Len(seenApps) : WasThere(seenApps[i], stretches)
    /\ \A i, j \in 1..Len(seenApps) : i < j => seenApps[i].seen <= seenApps[j].seen
    /\ reading # P!Nothing => WasThere(reading, stretches) /\ reading.seen = clock

PollerIsInTime == clock <= wakeAt + MaxLate /\ wakeAt <= clock + PollInterval

\* The last entry has the bundle id b and a time of t or later.
LastIs(b, t) ==
    /\ seenApps # <<>>
    /\ bundle[seenApps[Len(seenApps)].app] = b
    /\ t <= seenApps[Len(seenApps)].seen

\* A poll since the application in front came there has read it.
FrontIsRead ==
    /\ reading # P!Nothing /\ stretches[bundle[front]].from < clock
           => bundle[reading.app] = bundle[front]
    /\ bundle[front] # bundle[Self]
           /\ stretches[bundle[front]].from + PollInterval < wakeAt
           => LastIs(bundle[front], wakeAt - PollInterval)

\* Who was there last but LinkPilot, and long enough for a poll.
LongAndLast(b) ==
    /\ stretches[b].known
    /\ \A c \in P!Bundles \ {b, bundle[Self]} :
           ~stretches[c].known \/ stretches[c].to < stretches[b].to
    /\ stretches[b].to - stretches[b].from > PollInterval + MaxLate

LongStayIsLast ==
    \A b \in P!Bundles \ {bundle[Self]} :
        LongAndLast(b) => LastIs(b, stretches[b].to - (PollInterval + MaxLate))

OpenerInv ==
    /\ OpenerTypes /\ StretchesFollow /\ EntriesWereThere /\ PollerIsInTime
    /\ FrontIsRead /\ LongStayIsLast

\* The bounds of the detection, and what stands for no entry.
LEMMA OpenerSizes ==
    /\ StaleAfter \in Nat /\ PollInterval \in Nat /\ MaxLate \in Nat /\ MaxTime \in Nat
    /\ RingCapacity \in Nat /\ RingCapacity >= 1 /\ Self \in Apps
BY DesktopAssumption

LEMMA EntryFields ==
    ASSUME NEW e \in P!Entry
    PROVE  /\ e # P!Nothing
           /\ e.app \in Apps /\ e.seen \in 0..MaxTime /\ e.seen \in Nat
           /\ bundle[e.app] \in P!Bundles
<1>1. e.app \in Apps /\ e.seen \in 0..MaxTime /\ e = [app |-> e.app, seen |-> e.seen]
    BY DEF P!Entry
<1>2. DOMAIN e = {"app", "seen"} /\ DOMAIN P!Nothing = {"none"}
    BY <1>1 DEF P!Nothing
<1>3. "app" # "none"
    OBVIOUS
<1>4. e # P!Nothing
    BY <1>2, <1>3
<1> QED
    BY <1>1, <1>4 DEF P!Bundles

\* push_unique: the new entry, or the renewed one, is the last; the ones before
\* are those that were there, in their order.
LEMMA PushedLast ==
    ASSUME OpenerTypes, NEW e \in P!Entry
    PROVE  LET q == P!WithEntry(e) IN
           /\ q \in Seq(P!Entry) /\ q # <<>> /\ Len(q) <= RingCapacity
           /\ bundle[q[Len(q)].app] = bundle[e.app] /\ q[Len(q)].seen = e.seen
           /\ \E s \in {0, 1} : \A i \in 1..(Len(q) - 1) :
                  i + s \in 1..Len(seenApps) /\ q[i] = seenApps[i + s]
<1> DEFINE q == P!WithEntry(e)
           n == Len(seenApps)
<1>1. seenApps \in Seq(P!Entry) /\ n \in Nat /\ n <= RingCapacity
      /\ \A i \in 1..n : seenApps[i] \in P!Entry
    BY DEF OpenerTypes
<1>2. CASE P!IsDup(e)
    <2>1. seenApps # <<>> /\ bundle[seenApps[n].app] = bundle[e.app]
        BY <1>2 DEF P!IsDup, P!Last
    <2>2. n \in 1..n
        BY <1>1, <2>1
    <2>3. q = [seenApps EXCEPT ![n].seen = e.seen]
        BY <1>2 DEF P!WithEntry
    <2> DEFINE x == [seenApps[n] EXCEPT !.seen = e.seen]
    <2>4. x \in P!Entry /\ x.app = seenApps[n].app /\ x.seen = e.seen
        <3>1. seenApps[n] \in [app : Apps, seen : 0..MaxTime]
            BY <1>1, <2>2 DEF P!Entry
        <3>2. e.seen \in 0..MaxTime
            BY EntryFields
        <3> QED
            BY <3>1, <3>2 DEF P!Entry
    <2>5. q = [seenApps EXCEPT ![n] = x]
        BY <2>3
    <2> HIDE DEF x, q
    <2>6. q \in Seq(P!Entry) /\ Len(q) = n /\ q[n] = x
          /\ \A i \in 1..n : i # n => q[i] = seenApps[i]
        BY <1>1, <2>2, <2>4, <2>5
    <2>7. \A i \in 1..(Len(q) - 1) : i + 0 \in 1..n /\ q[i] = seenApps[i + 0]
        BY <1>1, <2>6
    <2>8. q # <<>>
        BY <2>2, <2>6
    <2> QED
        BY <1>1, <2>1, <2>4, <2>6, <2>7, <2>8 DEF q
<1>3. CASE ~P!IsDup(e) /\ n = RingCapacity
    <2> DEFINE t == Tail(seenApps)
    <2>1. seenApps # <<>>
        BY <1>3, OpenerSizes
    <2>2. t \in Seq(P!Entry) /\ Len(t) = n - 1 /\ \A i \in 1..(n - 1) : t[i] = seenApps[i + 1]
        BY <1>1, <2>1
    <2>3. q = Append(t, e)
        BY <1>3 DEF P!WithEntry
    <2> HIDE DEF t, q
    <2>4. q \in Seq(P!Entry) /\ Len(q) = n /\ q[n] = e /\ \A i \in 1..(n - 1) : q[i] = t[i]
        BY <1>1, <2>2, <2>3
    <2>5. \A i \in 1..(Len(q) - 1) : i + 1 \in 1..n /\ q[i] = seenApps[i + 1]
        BY <1>1, <2>2, <2>4
    <2>6. q # <<>>
        BY <1>3, <2>4, OpenerSizes
    <2> QED
        BY <1>1, <2>4, <2>5, <2>6 DEF q
<1>4. CASE ~P!IsDup(e) /\ n # RingCapacity
    <2>1. q = Append(seenApps, e)
        BY <1>4 DEF P!WithEntry
    <2> HIDE DEF q
    <2>2. q \in Seq(P!Entry) /\ Len(q) = n + 1 /\ q[n + 1] = e
          /\ \A i \in 1..n : q[i] = seenApps[i]
        BY <1>1, <2>1
    <2>3. \A i \in 1..(Len(q) - 1) : i + 0 \in 1..n /\ q[i] = seenApps[i + 0]
        BY <1>1, <2>2
    <2>4. q # <<>> /\ Len(q) <= RingCapacity
        BY <1>1, <1>4, <2>2, OpenerSizes
    <2> QED
        BY <2>2, <2>3, <2>4 DEF q
<1> QED
    BY <1>2, <1>3, <1>4

\* Another application comes to the front.
LEMMA SwitchKeeps ==
    ASSUME OpenerInv, P!Switch
    PROVE  OpenerInv'
<1>1. PICK a \in Apps \ {front} :
          /\ front' = a
          /\ stretches' = [stretches EXCEPT
                 ![bundle[a]] = [from |-> IF bundle[a] = bundle[front] THEN @.from ELSE clock,
                                 to |-> clock, known |-> TRUE]]
          /\ UNCHANGED <<clock, seenApps, reading, wakeAt>>
    BY DEF P!Switch
<1> DEFINE f == bundle[a]
           g == bundle[front]
<1>2. /\ clock \in 0..MaxTime /\ clock \in Nat /\ wakeAt \in Nat
      /\ stretches \in [P!Bundles -> Stretch]
      /\ f \in P!Bundles /\ g \in P!Bundles
    BY DEF OpenerInv, OpenerTypes, P!Bundles
<1>3. \A b \in P!Bundles : /\ stretches[b] \in Stretch
                           /\ stretches[b].from \in Nat /\ stretches[b].to \in Nat
                           /\ stretches[b].from <= stretches[b].to /\ stretches[b].to <= clock
    BY <1>2 DEF Stretch, OpenerInv, StretchesFollow
<1>4. bundle[front'] = f
    BY <1>1
<1> DEFINE new == [from |-> IF f = g THEN stretches[f].from ELSE clock,
                   to |-> clock, known |-> TRUE]
<1>5. /\ new \in Stretch /\ new.to = clock /\ new.known = TRUE
      /\ new.from = IF f = g THEN stretches[f].from ELSE clock
    BY <1>2, <1>3 DEF Stretch
<1>6. stretches' = [stretches EXCEPT ![f] = new]
    BY <1>1
<1> HIDE DEF new, f, g
<1>7. /\ stretches' \in [P!Bundles -> Stretch]
      /\ stretches'[f] = new
      /\ \A b \in P!Bundles : b # f => stretches'[b] = stretches[b]
    BY <1>2, <1>5, <1>6
<1>8. stretches[g].to = clock /\ stretches[g].known
    BY DEF OpenerInv, StretchesFollow, g
<1>9. OpenerTypes'
    BY <1>1, <1>7 DEF OpenerInv, OpenerTypes
<1>10. StretchesFollow'
    <2>1. \A b \in P!Bundles : stretches'[b].from <= stretches'[b].to /\ stretches'[b].to <= clock
        BY <1>2, <1>3, <1>5, <1>7
    <2>2. stretches'[f].known /\ stretches'[f].to = clock
        BY <1>5, <1>7
    <2> QED
        BY <1>1, <1>4, <2>1, <2>2 DEF StretchesFollow, P!Bundles
\* What was there was there.
<1>11. ASSUME NEW e \in P!Entry, WasThere(e, stretches) PROVE WasThere(e, stretches')
    <2>1. bundle[e.app] \in P!Bundles /\ e.seen \in Nat
        BY EntryFields
    <2>2. e.seen <= stretches[bundle[e.app]].to
        BY <1>11 DEF WasThere
    <2>3. stretches'[bundle[e.app]].known
        BY <1>5, <1>7, <1>11, <2>1 DEF WasThere
    <2>4. e.seen <= stretches'[bundle[e.app]].to
        BY <1>2, <1>3, <1>5, <1>7, <2>1, <2>2
    <2> QED
        BY <1>11, <2>3, <2>4 DEF WasThere
<1>12. EntriesWereThere'
    <2>1. \A i \in 1..Len(seenApps) : seenApps[i] \in P!Entry
        BY DEF OpenerInv, OpenerTypes
    <2>2. \A i \in 1..Len(seenApps) : WasThere(seenApps[i], stretches')
        BY <1>11, <2>1 DEF OpenerInv, EntriesWereThere
    <2>3. reading # P!Nothing => WasThere(reading, stretches') /\ reading.seen = clock
        BY <1>11 DEF OpenerInv, OpenerTypes, EntriesWereThere
    <2>4. P!Nothing' = P!Nothing
        BY DEF P!Nothing
    <2> QED
        BY <1>1, <2>2, <2>3, <2>4 DEF OpenerInv, EntriesWereThere
<1>13. PollerIsInTime'
    BY <1>1 DEF OpenerInv, PollerIsInTime
<1>14. FrontIsRead'
    <2>1. CASE f = g
        <3>1. stretches'[f].from = stretches[g].from
            BY <1>5, <1>7, <2>1
        <3> QED
            BY <1>1, <1>4, <2>1, <3>1 DEF OpenerInv, FrontIsRead, LastIs, P!Nothing, g
    <2>2. CASE f # g
        <3>1. stretches'[f].from = clock
            BY <1>5, <1>7, <2>2
        <3>2. ~(clock < clock) /\ ~(clock + PollInterval < wakeAt)
            BY <1>2, OpenerSizes DEF OpenerInv, PollerIsInTime
        <3> QED
            BY <1>1, <1>4, <3>1, <3>2 DEF FrontIsRead
    <2> QED
        BY <2>1, <2>2
<1>15. LongStayIsLast'
    <2> SUFFICES ASSUME NEW b \in P!Bundles \ {bundle[Self]}, LongAndLast(b)'
                 PROVE  LastIs(b, stretches[b].to - (PollInterval + MaxLate))'
        BY DEF LongStayIsLast, P!Bundles
    <2>1. /\ stretches'[b].known
          /\ \A c \in P!Bundles \ {b, bundle[Self]} :
                 ~stretches'[c].known \/ stretches'[c].to < stretches'[b].to
          /\ stretches'[b].to - stretches'[b].from > PollInterval + MaxLate
        BY DEF LongAndLast, P!Bundles
    <2>2. CASE f = b
        <3>1. f = g
            <4> SUFFICES ASSUME f # g PROVE FALSE
                OBVIOUS
            <4>1. stretches'[b].to = clock /\ stretches'[b].from = clock
                BY <1>5, <1>7, <2>2
            <4> QED
                BY <1>2, <2>1, <4>1, OpenerSizes
        <3>2. stretches'[b].from = stretches[b].from /\ stretches'[b].to = stretches[b].to
              /\ stretches[b].known
            BY <1>5, <1>7, <1>8, <2>2, <3>1
        <3>3. LongAndLast(b)
            BY <1>7, <2>1, <2>2, <3>2 DEF LongAndLast
        <3> QED
            BY <1>1, <3>2, <3>3 DEF OpenerInv, LongStayIsLast, LastIs
    <2>3. CASE f # b /\ f = bundle[Self]
        <3>1. stretches'[b] = stretches[b]
            BY <1>7, <2>3
        <3>2. LongAndLast(b)
            BY <1>7, <2>1, <2>3, <3>1 DEF LongAndLast
        <3> QED
            BY <1>1, <3>1, <3>2 DEF OpenerInv, LongStayIsLast, LastIs
    <2>4. CASE f # b /\ f # bundle[Self]
        <3>1. stretches'[f].known /\ stretches'[f].to = clock /\ stretches'[b] = stretches[b]
            BY <1>5, <1>7, <2>4
        <3>2. clock < stretches[b].to
            BY <1>2, <2>1, <2>4, <3>1
        <3> QED
            BY <1>2, <1>3, <3>2
    <2> QED
        BY <2>2, <2>3, <2>4
<1> QED
    BY <1>9, <1>10, <1>12, <1>13, <1>14, <1>15 DEF OpenerInv

\* Time passes, and the poller is not late.
LEMMA TickKeeps ==
    ASSUME OpenerInv, P!Tick
    PROVE  OpenerInv'
<1> DEFINE g == bundle[front]
           L == PollInterval + MaxLate
<1>1. /\ clock < MaxTime /\ reading = P!Nothing /\ clock < wakeAt + MaxLate
      /\ clock' = clock + 1
      /\ stretches' = [stretches EXCEPT ![g].to = clock + 1]
      /\ UNCHANGED <<front, seenApps, reading, wakeAt>>
    BY DEF P!Tick
<1>2. /\ clock \in 0..MaxTime /\ clock \in Nat /\ wakeAt \in Nat
      /\ stretches \in [P!Bundles -> Stretch] /\ g \in P!Bundles
    BY DEF OpenerInv, OpenerTypes, P!Bundles
<1>3. \A b \in P!Bundles : /\ stretches[b] \in Stretch
                           /\ stretches[b].from \in Nat /\ stretches[b].to \in Nat
                           /\ stretches[b].from <= stretches[b].to /\ stretches[b].to <= clock
    BY <1>2 DEF Stretch, OpenerInv, StretchesFollow
<1> DEFINE new == [stretches[g] EXCEPT !.to = clock + 1]
<1>4. new \in Stretch /\ new.to = clock + 1 /\ new.known = stretches[g].known
      /\ new.from = stretches[g].from
    <2>1. stretches[g] \in [from : Nat, to : Nat, known : BOOLEAN]
        BY <1>2, <1>3 DEF Stretch
    <2> QED
        BY <1>2, <2>1 DEF Stretch
<1>5. stretches' = [stretches EXCEPT ![g] = new]
    BY <1>1
<1>6. bundle[front'] = g
    BY <1>1
<1> HIDE DEF new, g
<1>7. /\ stretches' \in [P!Bundles -> Stretch]
      /\ stretches'[g] = new
      /\ \A b \in P!Bundles : b # g => stretches'[b] = stretches[b]
    BY <1>2, <1>4, <1>5
<1>8. stretches[g].to = clock /\ stretches[g].known
    BY DEF OpenerInv, StretchesFollow, g
<1>9. OpenerTypes'
    <2>1. clock' \in 0..MaxTime
        BY <1>1, <1>2, OpenerSizes
    <2> QED
        BY <1>1, <1>7, <2>1 DEF OpenerInv, OpenerTypes, P!Nothing
<1>10. StretchesFollow'
    <2>1. \A b \in P!Bundles :
              stretches'[b].from <= stretches'[b].to /\ stretches'[b].to <= clock + 1
        BY <1>2, <1>3, <1>4, <1>7
    <2>2. stretches'[g].known /\ stretches'[g].to = clock + 1
        BY <1>4, <1>7, <1>8
    <2> QED
        BY <1>1, <1>6, <2>1, <2>2 DEF StretchesFollow, P!Bundles
<1>11. EntriesWereThere'
    <2>1. ASSUME NEW e \in P!Entry, WasThere(e, stretches) PROVE WasThere(e, stretches')
        <3>1. bundle[e.app] \in P!Bundles /\ e.seen \in Nat
            BY EntryFields
        <3>2. e.seen <= stretches[bundle[e.app]].to
            BY <2>1 DEF WasThere
        <3>3. stretches'[bundle[e.app]].known
            BY <1>4, <1>7, <2>1, <3>1 DEF WasThere
        <3>4. e.seen <= stretches'[bundle[e.app]].to
            BY <1>2, <1>3, <1>4, <1>7, <3>1, <3>2
        <3> QED
            BY <2>1, <3>3, <3>4 DEF WasThere
    <2>2. \A i \in 1..Len(seenApps) : seenApps[i] \in P!Entry
        BY DEF OpenerInv, OpenerTypes
    <2>3. \A i \in 1..Len(seenApps) : WasThere(seenApps[i], stretches')
        BY <2>1, <2>2 DEF OpenerInv, EntriesWereThere
    <2>4. reading' = P!Nothing'
        BY <1>1 DEF P!Nothing
    <2> QED
        BY <1>1, <2>3, <2>4 DEF OpenerInv, EntriesWereThere
<1>12. PollerIsInTime'
    BY <1>1, <1>2, OpenerSizes DEF OpenerInv, PollerIsInTime
<1>13. FrontIsRead'
    <2>1. stretches'[g].from = stretches[g].from
        BY <1>4, <1>7
    <2>2. reading' = P!Nothing'
        BY <1>1 DEF P!Nothing
    <2> QED
        BY <1>1, <1>6, <2>1, <2>2 DEF OpenerInv, FrontIsRead, LastIs, g
<1>14. LongStayIsLast'
    <2> SUFFICES ASSUME NEW b \in P!Bundles \ {bundle[Self]}, LongAndLast(b)'
                 PROVE  LastIs(b, stretches[b].to - L)'
        BY DEF LongStayIsLast, P!Bundles
    <2>1. /\ stretches'[b].known
          /\ \A c \in P!Bundles \ {b, bundle[Self]} :
                 ~stretches'[c].known \/ stretches'[c].to < stretches'[b].to
          /\ stretches'[b].to - stretches'[b].from > L
        BY DEF LongAndLast, P!Bundles
    <2>2. CASE g = b
        <3>1. stretches'[b].to = clock + 1 /\ stretches'[b].from = stretches[b].from
            BY <1>4, <1>7, <2>2
        <3>2. stretches[b].from + PollInterval < wakeAt
              /\ (clock + 1) - L <= wakeAt - PollInterval
              /\ wakeAt - PollInterval \in Int /\ (clock + 1) - L \in Int
            BY <1>1, <1>2, <1>3, <2>1, <3>1, OpenerSizes
        <3>3. LastIs(b, wakeAt - PollInterval)
            BY <2>2, <3>2 DEF OpenerInv, FrontIsRead, g
        <3>4. seenApps[Len(seenApps)].seen \in Nat
            <4>1. seenApps # <<>> /\ seenApps \in Seq(P!Entry)
                BY <3>3 DEF LastIs, OpenerInv, OpenerTypes
            <4>2. seenApps[Len(seenApps)] \in P!Entry
                BY <4>1
            <4> QED
                BY <4>2, EntryFields
        <3>5. (clock + 1) - L <= seenApps[Len(seenApps)].seen
            <4>1. wakeAt - PollInterval <= seenApps[Len(seenApps)].seen
                BY <3>3 DEF LastIs
            <4> HIDE DEF L
            <4> QED
                BY <3>2, <3>4, <4>1
        <3> QED
            BY <1>1, <3>1, <3>3, <3>5 DEF LastIs
    <2>3. CASE g # b /\ g = bundle[Self]
        <3>1. stretches'[b] = stretches[b]
            BY <1>7, <2>3
        <3>2. LongAndLast(b)
            BY <1>7, <2>1, <2>3, <3>1 DEF LongAndLast
        <3> QED
            BY <1>1, <3>1, <3>2 DEF OpenerInv, LongStayIsLast, LastIs
    <2>4. CASE g # b /\ g # bundle[Self]
        <3>1. stretches'[g].known /\ stretches'[g].to = clock + 1 /\ stretches'[b] = stretches[b]
            BY <1>4, <1>7, <1>8, <2>4
        <3>2. clock + 1 < stretches[b].to
            BY <1>2, <2>1, <2>4, <3>1
        <3> QED
            BY <1>2, <1>3, <3>2
    <2> QED
        BY <2>2, <2>3, <2>4
<1> QED
    BY <1>9, <1>10, <1>11, <1>12, <1>13, <1>14 DEF OpenerInv

\* The poller reads who is in front.
LEMMA PollKeeps ==
    ASSUME OpenerInv, P!Poll
    PROVE  OpenerInv'
<1>1. reading = P!Nothing /\ clock >= wakeAt /\ UNCHANGED <<clock, front, seenApps, stretches>>
    BY DEF P!Poll
<1>2. clock \in 0..MaxTime /\ clock \in Nat /\ wakeAt \in Nat /\ front \in Apps
    BY DEF OpenerInv, OpenerTypes
<1>3. P!Nothing' = P!Nothing /\ P!Bundles' = P!Bundles
    BY DEF P!Nothing, P!Bundles
<1>4. StretchesFollow' /\ LongStayIsLast'
    <2>1. StretchesFollow'
        BY <1>1, <1>3 DEF OpenerInv, StretchesFollow
    <2>2. LongStayIsLast'
        BY <1>1, <1>3 DEF OpenerInv, LongStayIsLast, LongAndLast, LastIs
    <2> QED
        BY <2>1, <2>2
<1>5. CASE bundle[front] = bundle[Self]
    <2>1. wakeAt' = clock + PollInterval /\ reading' = reading
        BY <1>5 DEF P!Poll
    <2>2. wakeAt' \in Nat
        BY <1>2, <2>1, OpenerSizes
    <2>3. OpenerTypes'
        BY <1>1, <1>3, <2>1, <2>2 DEF OpenerInv, OpenerTypes
    <2>4. EntriesWereThere'
        BY <1>1, <1>3, <2>1 DEF OpenerInv, EntriesWereThere
    <2>5. PollerIsInTime'
        BY <1>1, <1>2, <2>1, OpenerSizes DEF PollerIsInTime
    <2>6. FrontIsRead'
        BY <1>1, <1>3, <1>5, <2>1 DEF FrontIsRead
    <2> QED
        BY <1>4, <2>3, <2>4, <2>5, <2>6 DEF OpenerInv
<1>6. CASE bundle[front] # bundle[Self]
    <2> DEFINE e == [app |-> front, seen |-> clock]
    <2>1. wakeAt' = wakeAt /\ reading' = e
        BY <1>6 DEF P!Poll
    <2>2. e \in P!Entry /\ e.app = front /\ e.seen = clock
        BY <1>2 DEF P!Entry
    <2> HIDE DEF e
    <2>3. WasThere(e, stretches)
        <3>1. stretches[bundle[front]].known /\ stretches[bundle[front]].to = clock
            BY DEF OpenerInv, StretchesFollow
        <3> QED
            BY <1>2, <1>6, <2>2, <3>1 DEF WasThere
    <2>4. OpenerTypes'
        BY <1>1, <1>3, <2>1, <2>2 DEF OpenerInv, OpenerTypes
    <2>5. EntriesWereThere'
        BY <1>1, <2>1, <2>2, <2>3 DEF OpenerInv, EntriesWereThere
    <2>6. PollerIsInTime'
        BY <1>1, <2>1 DEF OpenerInv, PollerIsInTime
    <2>7. FrontIsRead'
        <3>1. bundle[reading'.app] = bundle[front']
            BY <1>1, <2>1, <2>2
        <3> QED
            BY <1>1, <2>1, <3>1 DEF OpenerInv, FrontIsRead, LastIs
    <2> QED
        BY <1>4, <2>4, <2>5, <2>6, <2>7 DEF OpenerInv
<1> QED
    BY <1>5, <1>6

\* What was read becomes the last entry.
LEMMA PushKeeps ==
    ASSUME OpenerInv, P!PushUnique
    PROVE  OpenerInv'
<1> DEFINE e == reading
           n == Len(seenApps')
<1>1. /\ e # P!Nothing /\ seenApps' = P!WithEntry(e)
      /\ reading' = P!Nothing /\ wakeAt' = clock + PollInterval
      /\ UNCHANGED <<clock, front, stretches>>
    BY DEF P!PushUnique
<1>2. /\ OpenerTypes /\ e \in P!Entry /\ clock \in Nat
      /\ WasThere(e, stretches) /\ e.seen = clock
    BY <1>1 DEF OpenerInv, OpenerTypes, EntriesWereThere
<1>3. P!Nothing' = P!Nothing /\ P!Bundles' = P!Bundles
    BY DEF P!Nothing, P!Bundles
<1>4. \A b \in P!Bundles : /\ stretches[b].from \in Nat /\ stretches[b].to \in Nat
                           /\ stretches[b].to <= clock
    BY <1>2 DEF Stretch, OpenerInv, OpenerTypes, StretchesFollow
<1>5. /\ seenApps' \in Seq(P!Entry) /\ seenApps' # <<>> /\ n <= RingCapacity
      /\ bundle[seenApps'[n].app] = bundle[e.app] /\ seenApps'[n].seen = e.seen
      /\ \E s \in {0, 1} : \A i \in 1..(n - 1) :
             i + s \in 1..Len(seenApps) /\ seenApps'[i] = seenApps[i + s]
    BY <1>1, <1>2, PushedLast
<1>6. PICK s \in {0, 1} : \A i \in 1..(n - 1) :
          i + s \in 1..Len(seenApps) /\ seenApps'[i] = seenApps[i + s]
    BY <1>5
<1>7. n \in Nat /\ n >= 1 /\ \A i \in 1..n : i = n \/ i \in 1..(n - 1)
    BY <1>5
<1>8. bundle[e.app] \in P!Bundles
    BY <1>2, EntryFields
<1> HIDE DEF n
<1>9. OpenerTypes'
    <2>1. wakeAt' \in Nat
        BY <1>1, <1>2, OpenerSizes
    <2> QED
        BY <1>1, <1>3, <1>5, <2>1 DEF OpenerInv, OpenerTypes, n
<1>10. StretchesFollow'
    BY <1>1, <1>3 DEF OpenerInv, StretchesFollow
<1>11. EntriesWereThere'
    <2>1. ASSUME NEW i \in 1..n PROVE WasThere(seenApps'[i], stretches)
        <3>1. CASE i = n
            BY <1>2, <1>5, <3>1 DEF WasThere
        <3>2. CASE i \in 1..(n - 1)
            BY <1>6, <3>2 DEF OpenerInv, EntriesWereThere
        <3> QED
            BY <1>7, <3>1, <3>2
    <2>2. ASSUME NEW i \in 1..n, NEW j \in 1..n, i < j
          PROVE  seenApps'[i].seen <= seenApps'[j].seen
        <3>1. i \in 1..(n - 1)
            BY <1>7, <2>2
        <3>2. i + s \in 1..Len(seenApps) /\ seenApps'[i] = seenApps[i + s]
            BY <1>6, <3>1
        <3>3. CASE j = n
            <4>1. seenApps[i + s] \in P!Entry /\ WasThere(seenApps[i + s], stretches)
                BY <1>2, <3>2 DEF OpenerInv, OpenerTypes, EntriesWereThere
            <4> DEFINE x == seenApps[i + s]
            <4>2. x.seen \in Nat /\ bundle[x.app] \in P!Bundles
                BY <4>1, EntryFields
            <4>3. x.seen <= stretches[bundle[x.app]].to
                BY <4>1 DEF WasThere
            <4>4. x.seen <= clock
                BY <1>2, <1>4, <4>2, <4>3
            <4> QED
                BY <1>2, <1>5, <3>2, <3>3, <4>4
        <3>4. CASE j \in 1..(n - 1)
            <4>1. j + s \in 1..Len(seenApps) /\ seenApps'[j] = seenApps[j + s]
                BY <1>6, <3>4
            <4>2. i + s < j + s
                BY <2>2
            <4> QED
                BY <3>2, <4>1, <4>2 DEF OpenerInv, EntriesWereThere
        <3> QED
            BY <1>7, <3>3, <3>4
    <2> QED
        BY <1>1, <1>3, <2>1, <2>2 DEF EntriesWereThere, n
<1>12. PollerIsInTime'
    BY <1>1, <1>2, OpenerSizes DEF PollerIsInTime
<1>13. FrontIsRead'
    <2> SUFFICES ASSUME stretches[bundle[front]].from + PollInterval < wakeAt'
                 PROVE  LastIs(bundle[front], wakeAt - PollInterval)'
        BY <1>1, <1>3 DEF FrontIsRead
    <2>1. bundle[front] \in P!Bundles
        BY <1>2 DEF OpenerTypes, P!Bundles
    <2>2. stretches[bundle[front]].from < clock
        BY <1>1, <1>2, <1>4, <2>1, OpenerSizes
    <2>3. bundle[e.app] = bundle[front]
        BY <1>1, <2>2 DEF OpenerInv, FrontIsRead
    <2>4. wakeAt' - PollInterval <= clock
        BY <1>1, <1>2, OpenerSizes
    <2> QED
        BY <1>1, <1>2, <1>5, <2>3, <2>4 DEF LastIs, n
<1>14. LongStayIsLast'
    <2> SUFFICES ASSUME NEW b \in P!Bundles \ {bundle[Self]}, LongAndLast(b)
                 PROVE  LastIs(b, stretches[b].to - (PollInterval + MaxLate))'
        BY <1>1, <1>3 DEF LongStayIsLast, LongAndLast
    <2>1. CASE b = bundle[e.app]
        <3>1. stretches[b].to - (PollInterval + MaxLate) <= clock
            BY <1>2, <1>4, OpenerSizes
        <3> QED
            BY <1>1, <1>2, <1>5, <2>1, <3>1 DEF LastIs, n
    <2>2. CASE b # bundle[e.app]
        <3>1. stretches[bundle[e.app]].known /\ clock <= stretches[bundle[e.app]].to
              /\ bundle[e.app] # bundle[Self]
            BY <1>2 DEF WasThere
        <3>2. stretches[bundle[e.app]].to < stretches[b].to
            BY <1>8, <2>2, <3>1 DEF LongAndLast
        <3> QED
            BY <1>2, <1>4, <1>8, <3>1, <3>2
    <2> QED
        BY <2>1, <2>2
<1> QED
    BY <1>9, <1>10, <1>11, <1>12, <1>13, <1>14 DEF OpenerInv

\* Every step keeps the invariant.
LEMMA OpenerInvKept ==
    ASSUME OpenerInv, [P!OpenerNext]_(P!openerVars)
    PROVE  OpenerInv'
<1>1. CASE UNCHANGED P!openerVars
    BY <1>1 DEF P!openerVars, OpenerInv, OpenerTypes, StretchesFollow, EntriesWereThere,
        PollerIsInTime, FrontIsRead, LongStayIsLast, LongAndLast, LastIs, WasThere, Stretch,
        P!Bundles, P!Entry, P!Nothing
<1> QED
    BY <1>1, SwitchKeeps, TickKeeps, PollKeeps, PushKeeps DEF P!OpenerNext

\* The invariant holds at the start.
LEMMA OpenerInvAtFirst ==
    ASSUME P!OpenerInit
    PROVE  OpenerInv
<1>1. /\ clock = 0 /\ front = Self /\ seenApps = <<>> /\ reading = P!Nothing /\ wakeAt = 0
      /\ stretches = [b \in P!Bundles |-> [from |-> 0, to |-> 0, known |-> b = bundle[Self]]]
    BY DEF P!OpenerInit
<1>2. bundle[Self] \in P!Bundles
    BY OpenerSizes DEF P!Bundles
<1>3. \A b \in P!Bundles : /\ stretches[b] \in Stretch
                           /\ stretches[b].from = 0 /\ stretches[b].to = 0
    <2> TAKE b \in P!Bundles
    <2>1. stretches[b] = [from |-> 0, to |-> 0, known |-> b = bundle[Self]]
        BY <1>1
    <2>2. (b = bundle[Self]) \in BOOLEAN
        OBVIOUS
    <2> QED
        BY <2>1, <2>2 DEF Stretch
<1>4. stretches[bundle[Self]].known
    BY <1>1, <1>2
<1>5. OpenerTypes
    <2>1. stretches \in [P!Bundles -> Stretch]
        BY <1>1, <1>3
    <2>2. <<>> \in Seq(P!Entry) /\ Len(<<>>) = 0 /\ 0 \in 0..MaxTime
        BY OpenerSizes
    <2> QED
        BY <1>1, <2>1, <2>2, OpenerSizes DEF OpenerTypes
<1>6. StretchesFollow
    BY <1>1, <1>2, <1>3, <1>4 DEF StretchesFollow
<1>7. EntriesWereThere
    BY <1>1 DEF EntriesWereThere
<1>8. PollerIsInTime
    BY <1>1, OpenerSizes DEF PollerIsInTime
<1>9. FrontIsRead
    BY <1>1 DEF FrontIsRead
<1>10. LongStayIsLast
    <2> SUFFICES ASSUME NEW b \in P!Bundles PROVE ~LongAndLast(b)
        BY DEF LongStayIsLast
    <2> QED
        BY <1>3, OpenerSizes DEF LongAndLast
<1> QED
    BY <1>5, <1>6, <1>7, <1>8, <1>9, <1>10 DEF OpenerInv

\* detect() takes the last entry, if any is fresh.
LEMMA DetectsTheLast ==
    ASSUME OpenerInv
    PROVE  /\ P!Detected # P!Nothing =>
                  /\ seenApps # <<>> /\ P!Detected = [app |-> seenApps[Len(seenApps)].app]
                  /\ clock < seenApps[Len(seenApps)].seen + StaleAfter
           /\ seenApps # <<>> /\ clock < seenApps[Len(seenApps)].seen + StaleAfter
                  => /\ P!Detected = [app |-> seenApps[Len(seenApps)].app]
                     /\ P!Detected # P!Nothing
<1> DEFINE n == Len(seenApps)
           isLast(i) == \A j \in P!Fresh : j <= i
<1>1. /\ seenApps \in Seq(P!Entry) /\ n \in Nat /\ clock \in Nat /\ DOMAIN seenApps = 1..n
      /\ \A i \in 1..n : seenApps[i] \in P!Entry
    BY DEF OpenerInv, OpenerTypes
<1>2. \A i \in 1..n : seenApps[i].seen \in Nat
    BY <1>1, EntryFields
<1>3. P!Fresh \subseteq 1..n
    BY <1>1 DEF P!Fresh
<1>4. ASSUME P!Fresh # {} PROVE n \in P!Fresh
    <2>1. PICK i \in P!Fresh : TRUE
        BY <1>4
    <2>2. i \in 1..n /\ n \in 1..n /\ clock < seenApps[i].seen + StaleAfter
        BY <1>1, <1>3, <2>1 DEF P!Fresh
    <2>3. seenApps[i].seen <= seenApps[n].seen
        <3>1. CASE i = n
            BY <1>2, <2>2, <3>1
        <3>2. CASE i # n
            <4> HIDE DEF n
            <4>1. n \in Nat /\ i \in 1..n /\ i # n
                BY <1>1, <2>2, <3>2
            <4>2. i < n
                BY <4>1
            <4> QED
                BY <2>2, <4>2 DEF OpenerInv, EntriesWereThere, n
        <3> QED
            BY <3>1, <3>2
    <2>4. clock < seenApps[n].seen + StaleAfter
        BY <1>1, <1>2, <2>2, <2>3, OpenerSizes
    <2> QED
        BY <1>1, <2>2, <2>4 DEF P!Fresh
<1>5. ASSUME n \in P!Fresh
      PROVE  P!Detected = [app |-> seenApps[n].app] /\ P!Detected # P!Nothing
    <2> DEFINE c == CHOOSE i \in P!Fresh : isLast(i)
    <2>1. \A j \in P!Fresh : j <= n /\ j \in Nat
        BY <1>1, <1>3
    <2>2. isLast(n)
        BY <2>1
    <2>3. c \in P!Fresh /\ isLast(c)
        <3> HIDE DEF isLast
        <3> QED
            BY <1>5, <2>2
    <2>4. c = n
        BY <1>1, <1>5, <2>1, <2>3
    <2>5. P!Fresh # {}
        BY <1>5
    <2>6. P!Detected = [app |-> seenApps[c].app]
        BY <2>5 DEF P!Detected
    <2> HIDE DEF c
    <2>7. P!Detected = [app |-> seenApps[n].app]
        BY <2>4, <2>6
    <2>8. DOMAIN P!Detected = {"app"} /\ DOMAIN P!Nothing = {"none"}
        BY <2>7 DEF P!Nothing
    <2>9. "app" # "none"
        OBVIOUS
    <2> QED
        BY <2>7, <2>8, <2>9
<1>6. n \in P!Fresh <=> seenApps # <<>> /\ clock < seenApps[n].seen + StaleAfter
    <2>1. n \in 1..n <=> seenApps # <<>>
        BY <1>1
    <2> QED
        BY <1>1, <2>1 DEF P!Fresh
<1>7. P!Fresh = {} => P!Detected = P!Nothing
    BY DEF P!Detected
<1> QED
    BY <1>4, <1>5, <1>6, <1>7

\* Types, and that an answer was in front not long ago.
LEMMA OpenerInvReports ==
    ASSUME OpenerInv
    PROVE  P!OpenerTypeOK /\ P!ReportsRecentOther
<1>1. P!OpenerTypeOK
    <2>1. P!ToSet(seenApps) \subseteq P!Entry
        BY DEF OpenerInv, OpenerTypes, P!ToSet
    <2>2. wakeAt \in 0..(MaxTime + PollInterval + MaxLate)
        BY OpenerSizes DEF OpenerInv, OpenerTypes, PollerIsInTime
    <2> QED
        BY <2>1, <2>2 DEF OpenerInv, OpenerTypes, P!OpenerTypeOK
<1>2. P!ReportsRecentOther
    <2> SUFFICES ASSUME P!Detected # P!Nothing
                 PROVE  /\ bundle[P!Detected.app] # bundle[Self]
                        /\ stretches[bundle[P!Detected.app]].known
                        /\ clock < stretches[bundle[P!Detected.app]].to + StaleAfter
        BY DEF P!ReportsRecentOther
    <2> DEFINE x == seenApps[Len(seenApps)]
    <2>1. seenApps # <<>> /\ P!Detected.app = x.app /\ clock < x.seen + StaleAfter
        BY DetectsTheLast
    <2>2. x \in P!Entry /\ WasThere(x, stretches)
        <3>1. Len(seenApps) \in 1..Len(seenApps)
            BY <2>1 DEF OpenerInv, OpenerTypes
        <3> QED
            BY <3>1 DEF OpenerInv, OpenerTypes, EntriesWereThere
    <2> HIDE DEF x
    <2>3. x.seen \in Nat /\ bundle[x.app] \in P!Bundles
        BY <2>2, EntryFields
    <2>4. stretches[bundle[x.app]].to \in Nat /\ clock \in Nat
        BY <2>3 DEF OpenerInv, OpenerTypes, Stretch
    <2>5. bundle[x.app] # bundle[Self] /\ stretches[bundle[x.app]].known
          /\ x.seen <= stretches[bundle[x.app]].to
        BY <2>2 DEF WasThere
    <2>6. clock < stretches[bundle[x.app]].to + StaleAfter
        BY <2>1, <2>3, <2>4, <2>5, OpenerSizes
    <2> QED
        BY <2>1, <2>5, <2>6
<1> QED
    BY <1>1, <1>2

\* That who was there last and long enough is the one named.
LEMMA OpenerInvFinds ==
    ASSUME OpenerInv
    PROVE  P!FindsOpener
<1> SUFFICES ASSUME NEW b \in P!Bundles \ {bundle[Self]}, LongAndLast(b),
                    clock < stretches[b].to + StaleAfter - (PollInterval + MaxLate)
             PROVE  P!Detected # P!Nothing /\ bundle[P!Detected.app] = b
    BY DEF P!FindsOpener, LongAndLast
<1> DEFINE x == seenApps[Len(seenApps)]
<1>1. LastIs(b, stretches[b].to - (PollInterval + MaxLate))
    BY DEF OpenerInv, LongStayIsLast
<1>2. seenApps # <<>> /\ bundle[x.app] = b
      /\ stretches[b].to - (PollInterval + MaxLate) <= x.seen
    BY <1>1 DEF LastIs
<1>3. x.seen \in Nat
    <2>1. Len(seenApps) \in 1..Len(seenApps)
        BY <1>2 DEF OpenerInv, OpenerTypes
    <2>2. x \in P!Entry
        BY <2>1 DEF OpenerInv, OpenerTypes
    <2> QED
        BY <2>2, EntryFields
<1>4. stretches[b].to \in Nat /\ clock \in Nat
    BY DEF OpenerInv, OpenerTypes, Stretch
<1>5. clock < x.seen + StaleAfter
    BY <1>2, <1>3, <1>4, OpenerSizes, SMTT(60)
<1>6. P!Detected = [app |-> x.app] /\ P!Detected # P!Nothing
    BY <1>2, <1>5, DetectsTheLast
<1> QED
    BY <1>2, <1>6

\* detect() names the application the user came from, and only one that was in
\* front not long ago and is not LinkPilot, whatever the poller's delays.
THEOREM OpenerAlwaysFound == DesktopSpec => []OpenerIsFound
<1>1. DesktopInit => OpenerInv
    BY OpenerInvAtFirst DEF DesktopInit
<1>2. OpenerInv /\ [DesktopNext]_<<part, vars, obsVars, openerVars, trayVars>> => OpenerInv'
    <2> SUFFICES ASSUME OpenerInv, [DesktopNext]_<<part, vars, obsVars, openerVars, trayVars>>
                 PROVE  OpenerInv'
        OBVIOUS
    <2>1. [P!OpenerNext]_(P!openerVars)
        BY DEF DesktopNext, openerVars, P!openerVars
    <2> QED
        BY <2>1, OpenerInvKept
<1>3. OpenerInv => OpenerIsFound
    BY OpenerInvReports, OpenerInvFinds DEF OpenerIsFound
<1> QED
    BY <1>1, <1>2, <1>3, PTL DEF DesktopSpec

-----------------------------------------------------------------------------
(* The tray.                                                               *)

\* An event of the queue opens the popover or closes it, if all is as expected.
Opens(e) == e.kind = "show" \/ (e.kind = "click" /\ ~e.open)
Closes(e) == e.kind \in {"blur", "main"} \/ (e.kind = "click" /\ e.open)

AnyCloses(q) == \E i \in DOMAIN q : Closes(q[i])
AnyShow(q) == \E i \in DOMAIN q : q[i].kind = "show"
NoBlur(q) == \A i \in DOMAIN q : q[i].kind # "blur"

\* No event opens it but after one that closes it.
Guarded(q) == \A j \in DOMAIN q : Opens(q[j]) => \E k \in 1..(j - 1) : Closes(q[k])

\* What opens it is closed again before it is opened again.
Alternates(q) ==
    \A i, j \in DOMAIN q : i < j /\ Opens(q[i]) /\ Opens(q[j]) =>
        \E k \in (i + 1)..(j - 1) : Closes(q[k])

\* It is left open by what is queued.
EndsOpen(q) ==
    \E i \in DOMAIN q : Opens(q[i]) /\ \A k \in (i + 1)..Len(q) : ~Closes(q[k])

\* Only pre-warms are queued before a show.
ShowsFirst(q) ==
    \A i \in DOMAIN q : q[i].kind = "show" =>
        \A j \in 1..(i - 1) : q[j].kind = "prewarm"

\* Every event closes, opens, or is a pre-warm.
LEMMA EventKinds ==
    ASSUME NEW e \in T!Event
    PROVE  /\ Opens(e) \/ Closes(e) \/ e.kind = "prewarm"
           /\ ~(Opens(e) /\ Closes(e))
           /\ e.kind = "prewarm" => ~Opens(e) /\ ~Closes(e)
           /\ e.kind = "show" => Opens(e)
           /\ e.kind \in {"blur", "main"} => Closes(e)
           /\ e.kind = "click" => (e.open <=> Closes(e)) /\ (~e.open <=> Opens(e))
           /\ e.kind = "click" => e.open \in BOOLEAN
<1>1. CASE e \in [kind : {"blur", "prewarm", "show", "main"}]
    BY <1>1 DEF Opens, Closes
<1>2. CASE e \in [kind : {"click"}, open : BOOLEAN]
    BY <1>2 DEF Opens, Closes
<1> QED
    BY <1>1, <1>2 DEF T!Event

\* What an event at the end of the queue changes.
LEMMA Appended ==
    ASSUME NEW q \in Seq(T!Event), NEW e \in T!Event
    PROVE  LET r == Append(q, e) IN
           /\ r \in Seq(T!Event)
           /\ NoBlur(r) <=> NoBlur(q) /\ e.kind # "blur"
           /\ AnyShow(r) <=> AnyShow(q) \/ e.kind = "show"
           /\ AnyCloses(r) <=> AnyCloses(q) \/ Closes(e)
           /\ Guarded(r) <=> Guarded(q) /\ (Opens(e) => AnyCloses(q))
           /\ EndsOpen(r) <=> Opens(e) \/ (EndsOpen(q) /\ ~Closes(e))
           /\ Alternates(r) <=> Alternates(q) /\ (Opens(e) => ~EndsOpen(q))
           /\ ShowsFirst(r) <=> /\ ShowsFirst(q)
                                /\ e.kind = "show" =>
                                       \A i \in DOMAIN q : q[i].kind = "prewarm"
<1> DEFINE r == Append(q, e)
           n == Len(q)
<1>1. /\ n \in Nat /\ DOMAIN q = 1..n
      /\ r \in Seq(T!Event) /\ Len(r) = n + 1 /\ DOMAIN r = 1..(n + 1)
      /\ r[n + 1] = e /\ \A i \in 1..n : r[i] = q[i]
    OBVIOUS
<1>2. \A i \in 1..(n + 1) : i \in 1..n \/ i = n + 1
    BY <1>1
<1>3. \A i \in 1..n : i \in 1..(n + 1) /\ i # n + 1
    BY <1>1
<1>4. n + 1 \in 1..(n + 1) /\ 1..((n + 1) - 1) = 1..n
    BY <1>1
<1>5. ~(Opens(e) /\ Closes(e))
    BY EventKinds
<1> HIDE DEF r, n
<1>6. NoBlur(r) <=> NoBlur(q) /\ e.kind # "blur"
    BY <1>1, <1>2, <1>3, <1>4 DEF NoBlur
<1>7. AnyShow(r) <=> AnyShow(q) \/ e.kind = "show"
    BY <1>1, <1>2, <1>3, <1>4 DEF AnyShow
<1>8. AnyCloses(r) <=> AnyCloses(q) \/ Closes(e)
    BY <1>1, <1>2, <1>3, <1>4 DEF AnyCloses
<1>9. Guarded(r) <=> Guarded(q) /\ (Opens(e) => AnyCloses(q))
    <2>1. \A j \in 1..n : \A k \in 1..(j - 1) : k \in 1..n
        BY <1>1
    <2>2. ASSUME Guarded(r) PROVE Guarded(q)
        BY <1>1, <1>3, <2>1, <2>2 DEF Guarded
    <2>3. ASSUME Guarded(r), Opens(e) PROVE AnyCloses(q)
        BY <1>1, <1>4, <2>3 DEF Guarded, AnyCloses
    <2>4. ASSUME Guarded(q), Opens(e) => AnyCloses(q) PROVE Guarded(r)
        <3> SUFFICES ASSUME NEW j \in 1..(n + 1), Opens(r[j])
                     PROVE  \E k \in 1..(j - 1) : Closes(r[k])
            BY <1>1 DEF Guarded
        <3>1. CASE j = n + 1
            BY <1>1, <1>4, <2>4, <3>1 DEF AnyCloses
        <3>2. CASE j \in 1..n
            BY <1>1, <2>1, <2>4, <3>2 DEF Guarded
        <3> QED
            BY <1>2, <3>1, <3>2
    <2> QED
        BY <2>2, <2>3, <2>4
<1>10. EndsOpen(r) <=> Opens(e) \/ (EndsOpen(q) /\ ~Closes(e))
    <2>1. ASSUME Opens(e) PROVE EndsOpen(r)
        <3>1. (n + 1 + 1)..(n + 1) = {}
            BY <1>1
        <3> QED
            BY <1>1, <1>4, <2>1, <3>1 DEF EndsOpen
    <2>2. ASSUME EndsOpen(q), ~Closes(e) PROVE EndsOpen(r)
        <3>1. PICK i \in 1..n : Opens(q[i]) /\ \A k \in (i + 1)..n : ~Closes(q[k])
            BY <1>1, <2>2 DEF EndsOpen, n
        <3>2. \A k \in (i + 1)..(n + 1) : k = n + 1 \/ (k \in (i + 1)..n /\ k \in 1..n)
            BY <1>1
        <3>3. \A k \in (i + 1)..(n + 1) : ~Closes(r[k])
            BY <1>1, <2>2, <3>1, <3>2
        <3> QED
            BY <1>1, <1>3, <3>1, <3>3 DEF EndsOpen
    <2>3. ASSUME EndsOpen(r), ~Opens(e) PROVE EndsOpen(q) /\ ~Closes(e)
        <3>1. PICK i \in 1..(n + 1) : Opens(r[i]) /\ \A k \in (i + 1)..(n + 1) : ~Closes(r[k])
            BY <1>1, <2>3 DEF EndsOpen
        <3>2. i \in 1..n
            BY <1>1, <1>2, <2>3, <3>1
        <3>3. /\ n + 1 \in (i + 1)..(n + 1)
              /\ \A k \in (i + 1)..n : k \in (i + 1)..(n + 1) /\ k \in 1..n
            BY <1>1, <3>2
        <3>4. ~Closes(e) /\ Opens(q[i]) /\ \A k \in (i + 1)..n : ~Closes(q[k])
            BY <1>1, <3>1, <3>2, <3>3
        <3> QED
            BY <1>1, <3>2, <3>4 DEF EndsOpen, n
    <2> QED
        BY <1>5, <2>1, <2>2, <2>3
<1>11. Alternates(r) <=> Alternates(q) /\ (Opens(e) => ~EndsOpen(q))
    <2>1. \A i, j \in 1..n : \A k \in (i + 1)..(j - 1) : k \in 1..n
        BY <1>1
    <2>2. ASSUME Alternates(r) PROVE Alternates(q)
        BY <1>1, <1>3, <2>1, <2>2 DEF Alternates
    <2>3. \A i \in 1..n : i < n + 1 /\ (i + 1)..((n + 1) - 1) = (i + 1)..n
        BY <1>1
    <2>4. \A i \in 1..n : \A k \in (i + 1)..n : k \in 1..n
        BY <1>1
    <2>5. ASSUME Alternates(r), Opens(e) PROVE ~EndsOpen(q)
        <3> SUFFICES ASSUME NEW i \in 1..n, Opens(q[i])
                     PROVE  \E k \in (i + 1)..n : Closes(q[k])
            BY <1>1 DEF EndsOpen, n
        <3>1. Opens(r[i]) /\ Opens(r[n + 1]) /\ i < n + 1 /\ i \in DOMAIN r /\ n + 1 \in DOMAIN r
            BY <1>1, <1>3, <1>4, <2>3, <2>5
        <3>2. \E k \in (i + 1)..((n + 1) - 1) : Closes(r[k])
            BY <2>5, <3>1 DEF Alternates
        <3> QED
            BY <1>1, <2>3, <2>4, <3>2
    <2>6. ASSUME Alternates(q), Opens(e) => ~EndsOpen(q) PROVE Alternates(r)
        <3> SUFFICES ASSUME NEW i \in 1..(n + 1), NEW j \in 1..(n + 1), i < j,
                            Opens(r[i]), Opens(r[j])
                     PROVE  \E k \in (i + 1)..(j - 1) : Closes(r[k])
            BY <1>1 DEF Alternates
        <3>1. i \in 1..n
            BY <1>1
        <3>2. CASE j = n + 1
            <4>1. \E k \in (i + 1)..n : Closes(q[k])
                BY <1>1, <2>6, <3>1, <3>2 DEF EndsOpen, n
            <4> QED
                BY <1>1, <2>3, <2>4, <3>1, <3>2, <4>1
        <3>3. CASE j \in 1..n
            <4>1. \E k \in (i + 1)..(j - 1) : Closes(q[k])
                BY <1>1, <2>6, <3>1, <3>3 DEF Alternates
            <4> QED
                BY <1>1, <2>1, <3>1, <3>3, <4>1
        <3> QED
            BY <1>2, <3>2, <3>3
    <2> QED
        BY <2>2, <2>5, <2>6
<1>12. ShowsFirst(r) <=> /\ ShowsFirst(q)
                         /\ e.kind = "show" => \A i \in DOMAIN q : q[i].kind = "prewarm"
    <2>1. \A j \in 1..n : \A k \in 1..(j - 1) : k \in 1..n
        BY <1>1
    <2>2. ASSUME ShowsFirst(r) PROVE ShowsFirst(q)
        BY <1>1, <1>3, <2>1, <2>2 DEF ShowsFirst
    <2>3. ASSUME ShowsFirst(r), e.kind = "show" PROVE \A i \in DOMAIN q : q[i].kind = "prewarm"
        BY <1>1, <1>4, <2>3 DEF ShowsFirst
    <2>4. ASSUME ShowsFirst(q), e.kind = "show" => \A i \in DOMAIN q : q[i].kind = "prewarm"
          PROVE  ShowsFirst(r)
        <3> SUFFICES ASSUME NEW i \in 1..(n + 1), r[i].kind = "show", NEW j \in 1..(i - 1)
                     PROVE  r[j].kind = "prewarm"
            BY <1>1 DEF ShowsFirst
        <3>1. CASE i = n + 1
            BY <1>1, <1>4, <2>4, <3>1
        <3>2. CASE i \in 1..n
            BY <1>1, <2>1, <2>4, <3>2 DEF ShowsFirst
        <3> QED
            BY <1>2, <3>1, <3>2
    <2> QED
        BY <2>2, <2>3, <2>4
<1> QED
    BY <1>1, <1>6, <1>7, <1>8, <1>9, <1>10, <1>11, <1>12 DEF r

\* What is left when the first event is taken from the queue.
LEMMA Taken ==
    ASSUME NEW q \in Seq(T!Event), q # <<>>
    PROVE  LET e == Head(q) r == Tail(q) IN
           /\ e \in T!Event /\ r \in Seq(T!Event)
           /\ NoBlur(q) <=> NoBlur(r) /\ e.kind # "blur"
           /\ AnyShow(q) <=> AnyShow(r) \/ e.kind = "show"
           /\ AnyCloses(q) <=> AnyCloses(r) \/ Closes(e)
           /\ Guarded(q) <=> ~Opens(e) /\ (Closes(e) \/ Guarded(r))
           /\ EndsOpen(q) <=> EndsOpen(r) \/ (Opens(e) /\ ~AnyCloses(r))
           /\ Alternates(q) <=> Alternates(r) /\ (Opens(e) => Guarded(r))
           /\ ShowsFirst(q) <=> ShowsFirst(r) /\ (e.kind # "prewarm" => ~AnyShow(r))
<1> DEFINE e == Head(q)
           r == Tail(q)
           n == Len(r)
<1>1. /\ n \in Nat /\ DOMAIN r = 1..n
      /\ r \in Seq(T!Event) /\ Len(q) = n + 1 /\ DOMAIN q = 1..(n + 1)
      /\ e \in T!Event /\ q[1] = e /\ \A i \in 1..n : r[i] = q[i + 1]
    OBVIOUS
<1>2. \A i \in 1..(n + 1) : i = 1 \/ (i - 1 \in 1..n /\ (i - 1) + 1 = i)
    BY <1>1
<1>3. \A i \in 1..n : i + 1 \in 1..(n + 1) /\ i + 1 # 1 /\ 1 \in 1..((i + 1) - 1)
    BY <1>1
<1>4. 1 \in 1..(n + 1) /\ 1..(1 - 1) = {}
    BY <1>1
<1>5. ~(Opens(e) /\ Closes(e))
    BY <1>1, EventKinds
<1>6. \A i \in 1..(n + 1) : i = 1 \/ \E k \in 1..n : i = k + 1 /\ q[i] = r[k]
    BY <1>1, <1>2
<1>7. \A j \in 1..n : \A k \in 1..(j - 1) : k \in 1..n /\ k + 1 \in 1..((j + 1) - 1)
    BY <1>1
<1>8. \A j \in 1..n : \A k \in 1..((j + 1) - 1) :
          k = 1 \/ (k - 1 \in 1..(j - 1) /\ k - 1 \in 1..n /\ (k - 1) + 1 = k)
    BY <1>1
<1>9. \A i, j \in 1..n : \A k \in (i + 1)..(j - 1) :
          k \in 1..n /\ k + 1 \in ((i + 1) + 1)..((j + 1) - 1)
    BY <1>1
<1>10. \A i, j \in 1..n : \A k \in ((i + 1) + 1)..((j + 1) - 1) :
          k - 1 \in (i + 1)..(j - 1) /\ k - 1 \in 1..n /\ (k - 1) + 1 = k
    BY <1>1
<1> HIDE DEF e, r, n
<1>11. NoBlur(q) <=> NoBlur(r) /\ e.kind # "blur"
    <2> DEFINE blurs(x) == x.kind = "blur"
    <2>1. NoBlur(q) <=> \A i \in 1..(n + 1) : ~blurs(q[i])
        BY <1>1 DEF NoBlur
    <2>2. NoBlur(r) <=> \A i \in 1..n : ~blurs(r[i])
        BY <1>1 DEF NoBlur
    <2> HIDE DEF blurs
    <2>3. NoBlur(q) <=> NoBlur(r) /\ ~blurs(e)
        BY <1>1, <1>3, <1>4, <1>6, <2>1, <2>2
    <2> QED
        BY <2>3 DEF blurs
<1>12. AnyShow(q) <=> AnyShow(r) \/ e.kind = "show"
    <2> DEFINE shows(x) == x.kind = "show"
    <2>1. AnyShow(q) <=> \E i \in 1..(n + 1) : shows(q[i])
        BY <1>1 DEF AnyShow
    <2>2. AnyShow(r) <=> \E i \in 1..n : shows(r[i])
        BY <1>1 DEF AnyShow
    <2> HIDE DEF shows
    <2>3. AnyShow(q) <=> AnyShow(r) \/ shows(e)
        BY <1>1, <1>3, <1>4, <1>6, <2>1, <2>2
    <2> QED
        BY <2>3 DEF shows
<1>13. AnyCloses(q) <=> AnyCloses(r) \/ Closes(e)
    BY <1>1, <1>3, <1>4, <1>6 DEF AnyCloses
<1>14. Guarded(q) <=> ~Opens(e) /\ (Closes(e) \/ Guarded(r))
    <2>1. ASSUME Guarded(q) PROVE ~Opens(e)
        BY <1>1, <1>4, <2>1 DEF Guarded
    <2>2. ASSUME Guarded(q), ~Closes(e) PROVE Guarded(r)
        <3> SUFFICES ASSUME NEW j \in 1..n, Opens(r[j])
                     PROVE  \E k \in 1..(j - 1) : Closes(r[k])
            BY <1>1 DEF Guarded
        <3>1. j + 1 \in DOMAIN q /\ Opens(q[j + 1])
            BY <1>1, <1>3
        <3>2. PICK k \in 1..((j + 1) - 1) : Closes(q[k])
            BY <2>2, <3>1 DEF Guarded
        <3>3. k - 1 \in 1..(j - 1) /\ k - 1 \in 1..n /\ (k - 1) + 1 = k
            BY <1>1, <1>8, <2>2, <3>2
        <3>4. r[k - 1] = q[k]
            BY <1>1, <3>3
        <3> QED
            BY <3>2, <3>3, <3>4
    <2>3. ASSUME ~Opens(e), Closes(e) \/ Guarded(r) PROVE Guarded(q)
        <3> SUFFICES ASSUME NEW j \in 1..(n + 1), Opens(q[j])
                     PROVE  \E k \in 1..(j - 1) : Closes(q[k])
            BY <1>1 DEF Guarded
        <3>1. PICK i \in 1..n : j = i + 1 /\ q[j] = r[i]
            BY <1>1, <1>6, <2>3
        <3>2. CASE Closes(e)
            BY <1>1, <1>3, <3>1, <3>2
        <3>3. CASE Guarded(r)
            <4>1. PICK k \in 1..(i - 1) : Closes(r[k])
                BY <1>1, <3>1, <3>3 DEF Guarded
            <4>2. k \in 1..n /\ k + 1 \in 1..((i + 1) - 1)
                BY <1>7
            <4>3. q[k + 1] = r[k]
                BY <1>1, <4>2
            <4> QED
                BY <3>1, <4>1, <4>2, <4>3
        <3> QED
            BY <2>3, <3>2, <3>3
    <2> QED
        BY <2>1, <2>2, <2>3
<1>15. EndsOpen(q) <=> EndsOpen(r) \/ (Opens(e) /\ ~AnyCloses(r))
    <2>1. /\ \A i \in 1..n : \A k \in (i + 1)..n : k \in 1..n /\ k + 1 \in ((i + 1) + 1)..(n + 1)
          /\ \A i \in 1..n : \A k \in ((i + 1) + 1)..(n + 1) :
                 k - 1 \in (i + 1)..n /\ k - 1 \in 1..n /\ (k - 1) + 1 = k
        BY <1>1
    <2>2. /\ \A k \in (1 + 1)..(n + 1) : k - 1 \in 1..n /\ (k - 1) + 1 = k
          /\ \A k \in 1..n : k + 1 \in (1 + 1)..(n + 1)
        BY <1>1
    <2>3. ASSUME EndsOpen(r) PROVE EndsOpen(q)
        <3>1. PICK i \in 1..n : Opens(r[i]) /\ \A k \in (i + 1)..n : ~Closes(r[k])
            BY <1>1, <2>3 DEF EndsOpen, n
        <3>2. ASSUME NEW k \in ((i + 1) + 1)..(n + 1) PROVE ~Closes(q[k])
            <4>1. k - 1 \in (i + 1)..n /\ k - 1 \in 1..n /\ (k - 1) + 1 = k
                BY <2>1
            <4>2. q[k] = r[k - 1]
                BY <1>1, <4>1
            <4> QED
                BY <3>1, <4>1, <4>2
        <3>3. i + 1 \in 1..(n + 1) /\ Opens(q[i + 1])
            BY <1>1, <1>3, <3>1
        <3> QED
            BY <1>1, <3>2, <3>3 DEF EndsOpen
    <2>4. ASSUME Opens(e), ~AnyCloses(r) PROVE EndsOpen(q)
        <3>1. ASSUME NEW k \in (1 + 1)..(n + 1) PROVE ~Closes(q[k])
            <4>1. k - 1 \in 1..n /\ (k - 1) + 1 = k
                BY <2>2
            <4>2. q[k] = r[k - 1]
                BY <1>1, <4>1
            <4> QED
                BY <1>1, <2>4, <4>1, <4>2 DEF AnyCloses
        <3> QED
            BY <1>1, <1>4, <2>4, <3>1 DEF EndsOpen
    <2>5. ASSUME EndsOpen(q), ~EndsOpen(r) PROVE Opens(e) /\ ~AnyCloses(r)
        <3>1. PICK i \in 1..(n + 1) : Opens(q[i]) /\ \A k \in (i + 1)..(n + 1) : ~Closes(q[k])
            BY <1>1, <2>5 DEF EndsOpen
        <3>2. CASE i = 1
            <4>1. \A k \in 1..n : ~Closes(r[k])
                BY <1>1, <2>2, <3>1, <3>2
            <4> QED
                BY <1>1, <3>1, <3>2, <4>1 DEF AnyCloses
        <3>3. CASE i # 1
            <4>1. PICK j \in 1..n : i = j + 1 /\ q[i] = r[j]
                BY <1>6, <3>3
            <4>2. ASSUME NEW k \in (j + 1)..n PROVE ~Closes(r[k])
                <5>1. k \in 1..n /\ k + 1 \in ((j + 1) + 1)..(n + 1)
                    BY <2>1
                <5>2. r[k] = q[k + 1]
                    BY <1>1, <5>1
                <5> QED
                    BY <3>1, <4>1, <5>1, <5>2
            <4> QED
                BY <1>1, <2>5, <3>1, <4>1, <4>2 DEF EndsOpen, n
        <3> QED
            BY <3>2, <3>3
    <2> QED
        BY <2>3, <2>4, <2>5
<1>16. Alternates(q) <=> Alternates(r) /\ (Opens(e) => Guarded(r))
    <2>1. ASSUME Alternates(q) PROVE Alternates(r)
        <3> SUFFICES ASSUME NEW i \in 1..n, NEW j \in 1..n, i < j, Opens(r[i]), Opens(r[j])
                     PROVE  \E k \in (i + 1)..(j - 1) : Closes(r[k])
            BY <1>1 DEF Alternates
        <3>1. i + 1 < j + 1 /\ Opens(q[i + 1]) /\ Opens(q[j + 1])
              /\ i + 1 \in DOMAIN q /\ j + 1 \in DOMAIN q
            BY <1>1, <1>3
        <3>2. PICK k \in ((i + 1) + 1)..((j + 1) - 1) : Closes(q[k])
            BY <2>1, <3>1 DEF Alternates
        <3>3. k - 1 \in (i + 1)..(j - 1) /\ k - 1 \in 1..n /\ (k - 1) + 1 = k
            BY <1>10
        <3>4. r[k - 1] = q[k]
            BY <1>1, <3>3
        <3> QED
            BY <3>2, <3>3, <3>4
    <2>2. ASSUME Alternates(q), Opens(e) PROVE Guarded(r)
        <3> SUFFICES ASSUME NEW j \in 1..n, Opens(r[j])
                     PROVE  \E k \in 1..(j - 1) : Closes(r[k])
            BY <1>1 DEF Guarded
        <3>1. 1 < j + 1 /\ Opens(q[1]) /\ Opens(q[j + 1]) /\ 1 \in DOMAIN q /\ j + 1 \in DOMAIN q
            BY <1>1, <1>3, <1>4, <2>2
        <3>2. PICK k \in (1 + 1)..((j + 1) - 1) : Closes(q[k])
            BY <2>2, <3>1 DEF Alternates
        <3>3. k - 1 \in 1..(j - 1) /\ k - 1 \in 1..n /\ (k - 1) + 1 = k
            BY <1>1
        <3>4. r[k - 1] = q[k]
            BY <1>1, <3>3
        <3> QED
            BY <3>2, <3>3, <3>4
    <2>3. ASSUME Alternates(r), Opens(e) => Guarded(r) PROVE Alternates(q)
        <3> SUFFICES ASSUME NEW i \in 1..(n + 1), NEW j \in 1..(n + 1), i < j,
                            Opens(q[i]), Opens(q[j])
                     PROVE  \E k \in (i + 1)..(j - 1) : Closes(q[k])
            BY <1>1 DEF Alternates
        <3>1. PICK b \in 1..n : j = b + 1 /\ q[j] = r[b]
            BY <1>1, <1>6
        <3>2. CASE i = 1
            <4>1. PICK k \in 1..(b - 1) : Closes(r[k])
                BY <1>1, <2>3, <3>1, <3>2 DEF Guarded
            <4>2. k \in 1..n /\ k + 1 \in (1 + 1)..((b + 1) - 1)
                BY <1>1
            <4>3. q[k + 1] = r[k]
                BY <1>1, <4>2
            <4> QED
                BY <3>1, <3>2, <4>1, <4>2, <4>3
        <3>3. CASE i # 1
            <4>1. PICK a \in 1..n : i = a + 1 /\ q[i] = r[a]
                BY <1>6, <3>3
            <4>2. a < b
                BY <1>1, <3>1, <4>1
            <4>3. PICK k \in (a + 1)..(b - 1) : Closes(r[k])
                BY <1>1, <2>3, <3>1, <4>1, <4>2 DEF Alternates
            <4>4. k \in 1..n /\ k + 1 \in ((a + 1) + 1)..((b + 1) - 1)
                BY <1>9
            <4>5. q[k + 1] = r[k]
                BY <1>1, <4>4
            <4> QED
                BY <3>1, <4>1, <4>3, <4>4, <4>5
        <3> QED
            BY <3>2, <3>3
    <2> QED
        BY <2>1, <2>2, <2>3
<1>17. ShowsFirst(q) <=> ShowsFirst(r) /\ (e.kind # "prewarm" => ~AnyShow(r))
    <2>1. ASSUME ShowsFirst(q) PROVE ShowsFirst(r)
        <3> SUFFICES ASSUME NEW i \in 1..n, r[i].kind = "show", NEW j \in 1..(i - 1)
                     PROVE  r[j].kind = "prewarm"
            BY <1>1 DEF ShowsFirst
        <3>1. j \in 1..n /\ j + 1 \in 1..((i + 1) - 1) /\ i + 1 \in DOMAIN q
            BY <1>1, <1>3, <1>7
        <3>2. q[j + 1] = r[j] /\ q[i + 1] = r[i]
            BY <1>1, <3>1
        <3> QED
            BY <2>1, <3>1, <3>2 DEF ShowsFirst
    <2>2. ASSUME ShowsFirst(q), AnyShow(r) PROVE e.kind = "prewarm"
        <3>1. PICK i \in 1..n : r[i].kind = "show"
            BY <1>1, <2>2 DEF AnyShow
        <3>2. 1 \in 1..((i + 1) - 1) /\ i + 1 \in DOMAIN q /\ q[i + 1].kind = "show"
            BY <1>1, <1>3, <3>1
        <3> QED
            BY <1>1, <2>2, <3>2 DEF ShowsFirst
    <2>3. ASSUME ShowsFirst(r), e.kind # "prewarm" => ~AnyShow(r) PROVE ShowsFirst(q)
        <3> SUFFICES ASSUME NEW i \in 1..(n + 1), q[i].kind = "show", NEW j \in 1..(i - 1)
                     PROVE  q[j].kind = "prewarm"
            BY <1>1 DEF ShowsFirst
        <3>1. i # 1
            BY <1>4
        <3>2. PICK a \in 1..n : i = a + 1 /\ q[i] = r[a]
            BY <1>6, <3>1
        <3>3. AnyShow(r)
            BY <1>1, <3>2 DEF AnyShow
        <3>4. j \in 1..((a + 1) - 1)
            BY <3>2
        <3>5. j = 1 \/ (j - 1 \in 1..(a - 1) /\ j - 1 \in 1..n /\ (j - 1) + 1 = j)
            BY <1>8, <3>4
        <3>6. CASE j = 1
            BY <1>1, <2>3, <3>3, <3>6
        <3>7. CASE j # 1
            <4>1. q[j] = r[j - 1]
                BY <1>1, <3>5, <3>7
            <4>2. r[a].kind = "show"
                BY <3>2
            <4> QED
                BY <1>1, <2>3, <3>5, <3>7, <4>1, <4>2 DEF ShowsFirst
        <3> QED
            BY <3>6, <3>7
    <2> QED
        BY <2>1, <2>2, <2>3
<1> QED
    BY <1>1, <1>11, <1>12, <1>13, <1>14, <1>15, <1>16, <1>17 DEF e, r

\* With nothing that closes it queued, guarded means that only pre-warms are.
LEMMA GuardedOpen ==
    ASSUME NEW q \in Seq(T!Event), Guarded(q), ~AnyCloses(q)
    PROVE  (\A i \in DOMAIN q : q[i].kind = "prewarm") /\ ~EndsOpen(q)
<1>1. \A i \in DOMAIN q : q[i] \in T!Event /\ ~Closes(q[i])
    BY DEF AnyCloses
<1>2. \A j \in DOMAIN q : \A k \in 1..(j - 1) : k \in DOMAIN q
    OBVIOUS
<1>3. \A i \in DOMAIN q : ~Opens(q[i])
    BY <1>1, <1>2 DEF Guarded
<1>4. \A i \in DOMAIN q : q[i].kind = "prewarm"
    BY <1>1, <1>3, EventKinds
<1> QED
    BY <1>3, <1>4 DEF EndsOpen

\* The popover will be open when the queue has been served.
WillOpen == (popover = "shown" /\ ~AnyCloses(queue)) \/ EndsOpen(queue)

\* The main window overtook the show of a cold build: something odd is next.
Overtaken ==
    /\ popover = "hidden" /\ hidAt = T!Never
    /\ AnyShow(queue) /\ NoBlur(queue) /\ Guarded(queue)

\* Otherwise the queue leads to what the clicks ask for.  While the button is
\* down the popover may be on its way to be closed before the click says so.
OnCourse ==
    /\ popover = "shown" => ~T!Recently
    /\ popover = "none" => hidAt = T!Never /\ ~AnyShow(queue) /\ NoBlur(queue)
    /\ AnyShow(queue) => popover = "hidden" /\ hidAt = T!Never /\ NoBlur(queue)
    /\ ShowsFirst(queue) /\ Alternates(queue)
    /\ popover = "shown" => Guarded(queue)
    /\ WillOpen => wish
    /\ wish /\ ~pressed => WillOpen

TrayInv ==
    /\ T!TrayTypeOK
    /\ lastHidden = hidAt
    /\ ~duplicate
    /\ odd \/ Overtaken \/ OnCourse

\* The events that are queued.
LEMMA TheEvents ==
    /\ \A k \in {"blur", "prewarm", "show", "main"} : [kind |-> k] \in T!Event
    /\ \A b \in BOOLEAN : [kind |-> "click", open |-> b] \in T!Event
BY DEF T!Event

\* The clock and the mark that stands for never.
LEMMA TheClock ==
    /\ MaxNow \in Nat /\ Suppress \in Nat /\ MaxUserActs \in Nat
    /\ T!Never \in Nat /\ T!Never \notin 0..MaxNow /\ T!Never >= Suppress
BY DesktopAssumption DEF T!Never

\* Every step keeps the types.
LEMMA TrayTypeKept ==
    ASSUME T!TrayTypeOK, T!TrayNext
    PROVE  T!TrayTypeOK'
<1> USE DEF T!TrayTypeOK
<1>1. /\ now \in 0..MaxNow /\ popover \in {"none", "hidden", "shown"}
      /\ lastHidden \in 0..MaxNow \cup {T!Never} /\ hidAt \in 0..MaxNow \cup {T!Never}
      /\ prewarm \in {"sleeping", "done"} /\ queue \in Seq(T!Event)
      /\ acts \in 0..MaxUserActs
      /\ focused \in BOOLEAN /\ pressed \in BOOLEAN /\ wish \in BOOLEAN
      /\ odd \in BOOLEAN /\ duplicate \in BOOLEAN
      /\ focused => popover = "shown"
    OBVIOUS
<1>2. now' \in 0..MaxNow
    BY <1>1, TheClock DEF T!TrayNext, T!Press, T!Release, T!ClickElsewhere, T!OpenMain,
        T!PrewarmWakes, T!Tick, T!Blur, T!ShowMain, T!Prewarm, T!ShowBuilt, T!LeftClick
<1>3. acts' \in 0..MaxUserActs
    BY <1>1, TheClock DEF T!TrayNext, T!Press, T!Release, T!ClickElsewhere, T!OpenMain,
        T!PrewarmWakes, T!Tick, T!Blur, T!ShowMain, T!Prewarm, T!ShowBuilt, T!LeftClick, T!Act
<1>4. queue' \in Seq(T!Event)
    <2>1. \A e \in T!Event : Append(queue, e) \in Seq(T!Event)
        BY <1>1
    <2>2. queue # <<>> => /\ Tail(queue) \in Seq(T!Event)
                          /\ \A e \in T!Event : Append(Tail(queue), e) \in Seq(T!Event)
        BY <1>1
    <2>3. CASE T!Press \/ T!Release \/ T!ClickElsewhere \/ T!OpenMain
        BY <1>1, <2>1, <2>3, TheEvents
        DEF T!Press, T!Release, T!ClickElsewhere, T!OpenMain, T!LoseFocus
    <2>4. CASE T!PrewarmWakes \/ T!Tick
        BY <1>1, <2>1, <2>4, TheEvents DEF T!PrewarmWakes, T!Tick
    <2>5. CASE T!Blur \/ T!ShowMain \/ T!Prewarm \/ T!ShowBuilt \/ T!LeftClick
        BY <1>1, <2>2, <2>5, TheEvents
        DEF T!Blur, T!ShowMain, T!Prewarm, T!ShowBuilt, T!LeftClick, T!IsNext
    <2> QED
        BY <2>3, <2>4, <2>5 DEF T!TrayNext
<1>5. CASE T!Press \/ T!Release \/ T!ClickElsewhere \/ T!OpenMain \/ T!PrewarmWakes \/ T!Tick
    <2> USE DEF T!Press, T!Release, T!ClickElsewhere, T!OpenMain, T!PrewarmWakes, T!Tick,
            T!LoseFocus
    <2>1. popover' = popover /\ lastHidden' = lastHidden /\ hidAt' = hidAt
          /\ prewarm' \in {"sleeping", "done"}
        BY <1>1, <1>5
    <2>2. focused' \in BOOLEAN
        BY <1>1, <1>5
    <2>6. focused' => popover' = "shown"
        BY <1>1, <1>5
    <2>3. pressed' \in BOOLEAN
        BY <1>1, <1>5
    <2>4. wish' \in BOOLEAN
        BY <1>1, <1>5
    <2>5. odd' \in BOOLEAN /\ duplicate' \in BOOLEAN
        BY <1>1, <1>5
    <2> QED
        BY <1>1, <1>2, <1>3, <1>4, <2>1, <2>2, <2>3, <2>4, <2>5, <2>6
<1>6. CASE T!Blur \/ T!ShowMain \/ T!Prewarm \/ T!ShowBuilt \/ T!LeftClick
    <2> USE DEF T!Blur, T!ShowMain, T!Prewarm, T!ShowBuilt, T!LeftClick, T!Stamp, T!Hidden,
            T!Built
    <2>1. popover' \in {"none", "hidden", "shown"}
        BY <1>1, <1>6
    <2>2. lastHidden' \in {lastHidden, now} /\ hidAt' \in {hidAt, now}
        BY <1>6
    <2>3. focused' \in BOOLEAN
        BY <1>1, <1>6
    <2>4. focused' => popover' = "shown"
        BY <1>1, <1>6
    <2>5. pressed' = pressed /\ wish' = wish /\ duplicate' = duplicate /\ prewarm' = prewarm
        BY <1>6
    <2>6. odd' \in BOOLEAN
        BY <1>1, <1>6
    <2> QED
        BY <1>1, <1>2, <1>3, <1>4, <2>1, <2>2, <2>3, <2>4, <2>5, <2>6
<1> QED
    BY <1>5, <1>6 DEF T!TrayNext

\* A hide that never was is not recent, and time only makes a hide older.
LEMMA RecentHides ==
    ASSUME T!TrayTypeOK, lastHidden = hidAt
    PROVE  /\ hidAt = T!Never => ~T!Recently
           /\ now # T!Never
           /\ (T!Since(hidAt) < Suppress) <=> T!Recently
           /\ T!Tick /\ ~T!Recently => ~T!Recently'
<1>1. now \in 0..MaxNow /\ lastHidden \in 0..MaxNow \cup {T!Never}
    BY DEF T!TrayTypeOK
<1>2. hidAt = T!Never => ~T!Recently
    BY TheClock DEF T!Recently, T!Since
<1>3. now # T!Never
    BY <1>1, TheClock
<1>4. (T!Since(hidAt) < Suppress) <=> T!Recently
    BY DEF T!Recently
<1>5. ASSUME T!Tick, ~T!Recently PROVE ~T!Recently'
    <2>1. now' = now + 1 /\ lastHidden' = lastHidden
        BY <1>5 DEF T!Tick
    <2>2. CASE lastHidden = T!Never
        BY <2>1, <2>2, TheClock DEF T!Recently, T!Since, T!Never
    <2>3. CASE lastHidden # T!Never
        <3>1. lastHidden \in Nat /\ now \in Nat /\ Suppress \in Nat
            BY <1>1, <2>3, TheClock
        <3>2. ~(now - lastHidden < Suppress)
            BY <1>5, <2>3 DEF T!Recently, T!Since
        <3>3. ~(now' - lastHidden < Suppress)
            BY <2>1, <3>1, <3>2
        <3>4. T!Never' = T!Never
            BY DEF T!Never
        <3> QED
            BY <2>1, <2>3, <3>3, <3>4 DEF T!Recently, T!Since
    <2> QED
        BY <2>2, <2>3
<1> QED
    BY <1>2, <1>3, <1>4, <1>5

\* The user's steps.
LEMMA UserKeepsCourse ==
    ASSUME TrayInv, T!Press \/ T!Release \/ T!ClickElsewhere \/ T!OpenMain \/ T!PrewarmWakes,
           Overtaken \/ OnCourse
    PROVE  Overtaken' \/ OnCourse'
<1> DEFINE q == queue
<1>1. q \in Seq(T!Event) /\ (focused => popover = "shown") /\ wish \in BOOLEAN
    BY DEF TrayInv, T!TrayTypeOK
<1>2. /\ popover' = popover /\ hidAt' = hidAt
      /\ T!Recently' <=> T!Recently
      /\ T!Never' = T!Never
    BY DEF T!Press, T!Release, T!ClickElsewhere, T!OpenMain, T!PrewarmWakes, T!Recently, T!Since,
        T!Never
<1>3. Overtaken => ~focused
    BY <1>1 DEF Overtaken
<1>4. Overtaken => AnyCloses(q)
    <2>1. Overtaken /\ ~AnyCloses(q) => \A i \in DOMAIN q : q[i].kind = "prewarm"
        BY <1>1, GuardedOpen DEF Overtaken
    <2> QED
        BY <2>1 DEF Overtaken, AnyShow
<1>5. popover = "shown" /\ OnCourse => ~AnyShow(q) /\ Guarded(q)
    BY DEF OnCourse
\* What an event that closes the popover adds.
<1>6. ASSUME NEW e \in T!Event, e.kind \in {"blur", "main"} \/ (e.kind = "click" /\ e.open),
             queue' = Append(q, e), pressed' \/ ~wish', ~wish' \/ e.kind = "blur",
             e.kind = "blur" => popover = "shown"
      PROVE  Overtaken' \/ OnCourse'
    <2>1. Closes(e) /\ ~Opens(e) /\ e.kind # "show"
        BY <1>6, EventKinds DEF Closes
    <2>2. /\ NoBlur(queue') <=> NoBlur(q) /\ e.kind # "blur"
          /\ AnyShow(queue') <=> AnyShow(q)
          /\ AnyCloses(queue')
          /\ Guarded(queue') <=> Guarded(q)
          /\ ~EndsOpen(queue')
          /\ Alternates(queue') <=> Alternates(q)
          /\ ShowsFirst(queue') <=> ShowsFirst(q)
        BY <1>1, <1>6, <2>1, Appended
    <2>3. ~WillOpen'
        BY <2>2 DEF WillOpen
    <2>4. CASE Overtaken
        BY <1>2, <1>6, <2>2, <2>4 DEF Overtaken
    <2>5. CASE OnCourse
        BY <1>2, <1>5, <1>6, <2>2, <2>3, <2>5 DEF OnCourse
    <2> QED
        BY <2>4, <2>5
\* What changes neither the queue nor the wish.
<1>7. ASSUME queue' = queue, wish' = wish, pressed' \/ pressed' = pressed
      PROVE  Overtaken' \/ OnCourse'
    <2>1. WillOpen' <=> WillOpen
        BY <1>2, <1>7 DEF WillOpen
    <2> QED
        BY <1>2, <1>7, <2>1 DEF Overtaken, OnCourse
<1>8. CASE T!Press
    <2>1. pressed' = TRUE /\ wish' = wish
        BY <1>8 DEF T!Press
    <2>2. CASE focused
        <3>1. queue' = Append(q, [kind |-> "blur"])
            BY <1>8, <2>2 DEF T!Press, T!LoseFocus
        <3> QED
            BY <1>1, <1>6, <2>1, <2>2, <3>1, TheEvents
    <2>3. CASE ~focused
        BY <1>7, <1>8, <2>1, <2>3 DEF T!Press, T!LoseFocus
    <2> QED
        BY <2>2, <2>3
<1>9. CASE T!Release
    <2>1. wish' = ~wish /\ pressed' = FALSE
        BY <1>9 DEF T!Release
    <2>2. CASE wish = TRUE
        <3>1. queue' = Append(q, [kind |-> "click", open |-> TRUE])
            BY <1>9, <2>2 DEF T!Release
        <3> QED
            BY <1>6, <2>1, <2>2, <3>1, TheEvents
    <2>3. CASE wish = FALSE
        <3> DEFINE e == [kind |-> "click", open |-> FALSE]
        <3>1. queue' = Append(q, e) /\ e \in T!Event /\ Opens(e) /\ ~Closes(e)
              /\ e.kind = "click"
            BY <1>9, <2>3, TheEvents DEF T!Release, Opens, Closes
        <3> HIDE DEF e
        <3>2. /\ NoBlur(queue') <=> NoBlur(q)
              /\ AnyShow(queue') <=> AnyShow(q)
              /\ Guarded(queue') <=> Guarded(q) /\ AnyCloses(q)
              /\ EndsOpen(queue')
              /\ Alternates(queue') <=> Alternates(q) /\ ~EndsOpen(q)
              /\ ShowsFirst(queue') <=> ShowsFirst(q)
            BY <1>1, <3>1, Appended
        <3>3. CASE Overtaken
            BY <1>2, <1>4, <3>2, <3>3 DEF Overtaken
        <3>4. CASE OnCourse
            <4>1. ~EndsOpen(q) /\ (popover = "shown" => AnyCloses(q))
                BY <2>3, <3>4 DEF OnCourse, WillOpen
            <4>2. WillOpen' /\ wish'
                BY <2>1, <2>3, <3>2 DEF WillOpen
            <4> QED
                BY <1>2, <3>2, <3>4, <4>1, <4>2 DEF OnCourse
        <3> QED
            BY <3>3, <3>4
    <2> QED
        BY <1>1, <2>2, <2>3
<1>10. CASE T!ClickElsewhere
    <2>1. queue' = Append(q, [kind |-> "blur"]) /\ wish' = FALSE /\ focused
        BY <1>10 DEF T!ClickElsewhere, T!LoseFocus
    <2> QED
        BY <1>1, <1>6, <2>1, TheEvents
<1>11. CASE T!OpenMain
    <2>1. queue' = Append(q, [kind |-> "main"]) /\ wish' = FALSE
        BY <1>11 DEF T!OpenMain
    <2> QED
        BY <1>6, <2>1, TheEvents
<1>12. CASE T!PrewarmWakes
    <2>1. wish' = wish /\ pressed' = pressed
        BY <1>12 DEF T!PrewarmWakes
    <2>2. CASE popover = "none"
        <3> DEFINE e == [kind |-> "prewarm"]
        <3>1. queue' = Append(q, e) /\ e \in T!Event /\ ~Opens(e) /\ ~Closes(e)
              /\ e.kind = "prewarm"
            BY <1>12, <2>2, TheEvents DEF T!PrewarmWakes, Opens, Closes
        <3> HIDE DEF e
        <3>2. /\ NoBlur(queue') <=> NoBlur(q)
              /\ AnyShow(queue') <=> AnyShow(q)
              /\ AnyCloses(queue') <=> AnyCloses(q)
              /\ Guarded(queue') <=> Guarded(q)
              /\ EndsOpen(queue') <=> EndsOpen(q)
              /\ Alternates(queue') <=> Alternates(q)
              /\ ShowsFirst(queue') <=> ShowsFirst(q)
            BY <1>1, <3>1, Appended
        <3>3. WillOpen' <=> WillOpen
            BY <1>2, <3>2 DEF WillOpen
        <3> QED
            BY <1>2, <2>1, <2>2, <3>2, <3>3 DEF Overtaken, OnCourse
    <2>3. CASE popover # "none"
        BY <1>7, <1>12, <2>1, <2>3 DEF T!PrewarmWakes
    <2> QED
        BY <2>2, <2>3
<1> QED
    BY <1>8, <1>9, <1>10, <1>11, <1>12

\* The main thread's steps.
LEMMA MainThreadKeepsCourse ==
    ASSUME TrayInv, T!Blur \/ T!ShowMain \/ T!Prewarm \/ T!ShowBuilt \/ T!LeftClick,
           Overtaken \/ OnCourse, ~odd'
    PROVE  Overtaken' \/ OnCourse'
<1> DEFINE e == Head(queue)
           r == Tail(queue)
<1>1. /\ queue \in Seq(T!Event) /\ queue # <<>>
      /\ popover \in {"none", "hidden", "shown"}
      /\ focused => popover = "shown"
      /\ T!TrayTypeOK /\ lastHidden = hidAt
    BY DEF TrayInv, T!TrayTypeOK, T!Blur, T!ShowMain, T!Prewarm, T!ShowBuilt, T!LeftClick,
        T!IsNext
<1>2. /\ e \in T!Event /\ r \in Seq(T!Event)
      /\ NoBlur(queue) <=> NoBlur(r) /\ e.kind # "blur"
      /\ AnyShow(queue) <=> AnyShow(r) \/ e.kind = "show"
      /\ AnyCloses(queue) <=> AnyCloses(r) \/ Closes(e)
      /\ Guarded(queue) <=> ~Opens(e) /\ (Closes(e) \/ Guarded(r))
      /\ EndsOpen(queue) <=> EndsOpen(r) \/ (Opens(e) /\ ~AnyCloses(r))
      /\ Alternates(queue) <=> Alternates(r) /\ (Opens(e) => Guarded(r))
      /\ ShowsFirst(queue) <=> ShowsFirst(r) /\ (e.kind # "prewarm" => ~AnyShow(r))
    BY <1>1, Taken
<1>3. /\ ~(Opens(e) /\ Closes(e))
      /\ e.kind = "prewarm" => ~Opens(e) /\ ~Closes(e)
      /\ e.kind = "show" => Opens(e)
      /\ e.kind \in {"blur", "main"} => Closes(e)
      /\ e.kind = "click" => (e.open <=> Closes(e)) /\ (~e.open <=> Opens(e))
    BY <1>2, EventKinds
<1>4. /\ hidAt = T!Never => ~T!Recently
      /\ now # T!Never
      /\ (T!Since(hidAt) < Suppress) <=> T!Recently
    BY <1>1, RecentHides
<1>5. T!Never' = T!Never
    BY DEF T!Never
<1>6. wish' = wish /\ pressed' = pressed /\ now' = now
    BY DEF T!Blur, T!ShowMain, T!Prewarm, T!ShowBuilt, T!LeftClick
<1> HIDE DEF e, r
<1>7. CASE T!Blur
    <2>1. e.kind = "blur" /\ queue' = r /\ hidAt' = now /\ popover' \in {"none", "hidden"}
        BY <1>7 DEF T!Blur, T!IsNext, T!Hidden, e, r
    <2>2. popover = "none" <=> popover' = "none"
        BY <1>7 DEF T!Blur, T!Hidden
    <2>3. ~Overtaken
        BY <1>2, <2>1 DEF Overtaken
    <2>4. popover # "none" /\ ~AnyShow(queue)
        BY <1>2, <2>1, <2>3 DEF OnCourse
    <2>5. WillOpen' <=> WillOpen
        BY <1>2, <1>3, <2>1 DEF WillOpen
    <2> QED
        BY <1>2, <1>6, <2>1, <2>2, <2>3, <2>4, <2>5 DEF OnCourse
<1>8. CASE T!ShowMain
    <2>1. e.kind = "main" /\ queue' = r /\ popover' \in {"none", "hidden"}
        BY <1>8 DEF T!ShowMain, T!IsNext, T!Hidden, e, r
    <2>2. popover = "none" <=> popover' = "none"
        BY <1>8 DEF T!ShowMain, T!Hidden
    <2>3. ~AnyShow(queue)
        BY <1>8 DEF T!ShowMain, AnyShow
    <2>4. OnCourse
        BY <2>3 DEF Overtaken
    <2>5. popover = "none" => hidAt' = hidAt
        BY <1>1, <1>8 DEF T!ShowMain
    <2>6. WillOpen' <=> WillOpen
        BY <1>2, <1>3, <2>1 DEF WillOpen
    <2> QED
        BY <1>2, <1>5, <1>6, <2>1, <2>2, <2>3, <2>4, <2>5, <2>6 DEF OnCourse
<1>9. CASE T!Prewarm
    <2>1. e.kind = "prewarm" /\ queue' = r /\ hidAt' = hidAt /\ lastHidden' = lastHidden
        BY <1>9 DEF T!Prewarm, T!IsNext, e, r
    <2>2. T!Recently' <=> T!Recently
        BY <1>6, <2>1 DEF T!Recently, T!Since, T!Never
    <2>3. CASE popover = "none"
        <3>1. popover' \in {"none", "hidden"}
            BY <1>9, <2>3 DEF T!Prewarm, T!Built
        <3>2. OnCourse
            BY <2>3 DEF Overtaken
        <3>3. WillOpen' <=> WillOpen
            BY <1>2, <1>3, <2>1, <2>3, <3>1 DEF WillOpen
        <3> QED
            BY <1>2, <1>5, <1>6, <2>1, <2>3, <3>1, <3>2, <3>3 DEF OnCourse
    <2>4. CASE popover # "none"
        <3>1. popover' = popover
            BY <1>9, <2>4 DEF T!Prewarm
        <3>2. WillOpen' <=> WillOpen
            BY <1>2, <1>3, <2>1, <3>1 DEF WillOpen
        <3>3. CASE Overtaken
            BY <1>2, <1>3, <1>5, <2>1, <3>1, <3>3 DEF Overtaken
        <3>4. CASE OnCourse
            BY <1>2, <1>3, <1>5, <1>6, <2>1, <2>2, <2>4, <3>1, <3>2, <3>4 DEF OnCourse
        <3> QED
            BY <3>3, <3>4
    <2> QED
        BY <2>3, <2>4
<1>10. CASE T!ShowBuilt
    <2>1. e.kind = "show" /\ queue' = r /\ hidAt' = hidAt /\ lastHidden' = lastHidden
          /\ popover' = "shown"
        BY <1>10 DEF T!ShowBuilt, T!IsNext, e, r
    <2>2. T!Recently' <=> T!Recently
        BY <1>6, <2>1 DEF T!Recently, T!Since, T!Never
    <2>3. OnCourse
        BY <1>2, <1>3, <2>1 DEF Overtaken
    <2>4. popover = "hidden" /\ hidAt = T!Never /\ Guarded(r) /\ ~AnyShow(r)
        BY <1>2, <1>3, <2>1, <2>3 DEF OnCourse
    <2>5. WillOpen' <=> WillOpen
        BY <1>2, <1>3, <2>1, <2>4 DEF WillOpen
    <2> QED
        BY <1>2, <1>4, <1>6, <2>1, <2>2, <2>3, <2>4, <2>5 DEF OnCourse
<1>11. CASE T!LeftClick
    <2>1. e.kind = "click" /\ hidAt' \in {hidAt, now} /\ popover' # "none"
        BY <1>11 DEF T!LeftClick, T!IsNext, e
    <2>2. T!Recently <=> e.open
        BY <1>4, <1>11 DEF T!LeftClick, T!AsExpected, e
    <2>3. OnCourse
        BY <1>2, <1>3, <1>4, <2>1, <2>2 DEF Overtaken
    <2>4. CASE T!Recently
        <3>1. queue' = r /\ popover' = popover /\ hidAt' = hidAt /\ lastHidden' = lastHidden
            BY <1>11, <2>4 DEF T!LeftClick, r
        <3>2. popover = "hidden"
            BY <1>1, <2>1, <2>3, <2>4, <3>1 DEF OnCourse
        <3>3. WillOpen' <=> WillOpen
            BY <1>2, <1>3, <2>1, <2>2, <2>4, <3>1, <3>2 DEF WillOpen
        <3> QED
            BY <1>2, <1>5, <1>6, <2>3, <3>1, <3>2, <3>3 DEF OnCourse
    <2>5. CASE ~T!Recently
        <3>1. Opens(e) /\ ~Closes(e)
            BY <1>3, <2>1, <2>2, <2>5
        <3>2. popover # "shown"
            BY <1>2, <2>3, <3>1 DEF OnCourse
        <3>3. hidAt' = hidAt /\ lastHidden' = lastHidden
            BY <1>11, <2>5, <3>2 DEF T!LeftClick
        <3>4. ~T!Recently'
            BY <1>6, <2>5, <3>3 DEF T!Recently, T!Since, T!Never
        <3>5. Guarded(r) /\ ~AnyShow(r) /\ Alternates(r) /\ ShowsFirst(r)
            BY <1>2, <2>1, <2>3, <3>1 DEF OnCourse
        <3>6. CASE popover = "hidden"
            <4>1. queue' = r /\ popover' = "shown"
                BY <1>11, <2>5, <3>6 DEF T!LeftClick, r
            <4>2. WillOpen' <=> WillOpen
                BY <1>2, <3>1, <3>6, <4>1 DEF WillOpen
            <4> QED
                BY <1>6, <2>3, <3>4, <3>5, <4>1, <4>2 DEF OnCourse
        <3>7. CASE popover = "none"
            <4> DEFINE s == [kind |-> "show"]
            <4>1. popover' = "hidden" /\ queue' = Append(r, s)
                BY <1>11, <2>1, <2>5, <3>7 DEF T!LeftClick, T!Built, r
            <4>2. s \in T!Event /\ s.kind = "show" /\ Opens(s) /\ ~Closes(s)
                BY TheEvents DEF Opens, Closes
            <4> HIDE DEF s
            <4>3. /\ NoBlur(queue') <=> NoBlur(r)
                  /\ AnyShow(queue')
                  /\ Guarded(queue') <=> Guarded(r) /\ AnyCloses(r)
                  /\ EndsOpen(queue')
                  /\ Alternates(queue') <=> Alternates(r) /\ ~EndsOpen(r)
                  /\ ShowsFirst(queue') <=> /\ ShowsFirst(r)
                                            /\ \A i \in DOMAIN r : r[i].kind = "prewarm"
                BY <1>2, <4>1, <4>2, Appended
            <4>4. hidAt = T!Never /\ NoBlur(r)
                BY <1>2, <2>3, <3>7 DEF OnCourse
            <4>5. CASE AnyCloses(r)
                BY <1>5, <3>3, <3>5, <4>1, <4>3, <4>4, <4>5 DEF Overtaken
            <4>6. CASE ~AnyCloses(r)
                <5>1. (\A i \in DOMAIN r : r[i].kind = "prewarm") /\ ~EndsOpen(r)
                    BY <1>2, <3>5, <4>6, GuardedOpen
                <5>2. WillOpen /\ WillOpen'
                    BY <1>2, <3>1, <4>3, <4>6 DEF WillOpen
                <5> QED
                    BY <1>5, <1>6, <2>3, <3>3, <3>5, <4>1, <4>3, <4>4, <5>1, <5>2 DEF OnCourse
            <4> QED
                BY <4>5, <4>6
        <3> QED
            BY <1>1, <3>2, <3>6, <3>7
    <2> QED
        BY <2>4, <2>5
<1> QED
    BY <1>7, <1>8, <1>9, <1>10, <1>11

\* Every step keeps the invariant.
LEMMA TrayInvKept ==
    ASSUME TrayInv, [T!TrayNext]_(T!trayVars)
    PROVE  TrayInv'
<1>1. CASE UNCHANGED T!trayVars
    BY <1>1 DEF T!trayVars, TrayInv, T!TrayTypeOK, T!Event, T!Never, Overtaken, OnCourse,
        WillOpen, T!Recently, T!Since
<1>2. CASE T!TrayNext
    <2>1. T!TrayTypeOK'
        BY <1>2, TrayTypeKept DEF TrayInv
    <2>2. lastHidden' = hidAt'
        BY <1>2 DEF TrayInv, T!TrayNext, T!Press, T!Release, T!ClickElsewhere, T!OpenMain,
            T!PrewarmWakes, T!Tick, T!Blur, T!ShowMain, T!Prewarm, T!ShowBuilt, T!LeftClick,
            T!Stamp
    <2>3. odd => odd'
        BY <1>2 DEF TrayInv, T!TrayTypeOK, T!TrayNext, T!Press, T!Release, T!ClickElsewhere,
            T!OpenMain, T!PrewarmWakes, T!Tick, T!Blur, T!ShowMain, T!Prewarm, T!ShowBuilt,
            T!LeftClick
    <2>4. ASSUME ~odd' PROVE Overtaken' \/ OnCourse'
        <3>1. Overtaken \/ OnCourse
            BY <2>3, <2>4 DEF TrayInv
        <3>2. CASE T!Tick
            <4>1. UNCHANGED <<popover, hidAt, queue, wish, pressed>>
                BY <3>2 DEF T!Tick
            <4>2. T!Never' = T!Never /\ (WillOpen' <=> WillOpen)
                BY <4>1 DEF T!Never, WillOpen
            <4>3. ~T!Recently => ~T!Recently'
                BY <3>2, RecentHides DEF TrayInv
            <4> QED
                BY <3>1, <4>1, <4>2, <4>3 DEF Overtaken, OnCourse
        <3> QED
            BY <1>2, <2>4, <3>1, <3>2, UserKeepsCourse, MainThreadKeepsCourse DEF T!TrayNext
    <2>5. ~duplicate'
        BY <1>2 DEF TrayInv, T!TrayNext, T!Press, T!Release, T!ClickElsewhere, T!OpenMain,
            T!PrewarmWakes, T!Tick, T!Blur, T!ShowMain, T!Prewarm, T!ShowBuilt, T!LeftClick
    <2> QED
        BY <2>1, <2>2, <2>4, <2>5 DEF TrayInv
<1> QED
    BY <1>1, <1>2

\* The invariant holds at the start.
LEMMA TrayInvAtFirst ==
    ASSUME T!TrayInit
    PROVE  TrayInv
<1>1. queue = <<>> /\ DOMAIN queue = {} /\ queue \in Seq(T!Event)
    BY DEF T!TrayInit
<1>2. T!TrayTypeOK
    <2>1. /\ now = 0 /\ popover = "none" /\ lastHidden = T!Never /\ hidAt = T!Never
          /\ prewarm = "sleeping" /\ acts = 0
        BY DEF T!TrayInit
    <2>2. /\ focused = FALSE /\ pressed = FALSE /\ wish = FALSE /\ odd = FALSE
          /\ duplicate = FALSE
        BY DEF T!TrayInit
    <2>3. 0 \in 0..MaxNow /\ 0 \in 0..MaxUserActs
        BY TheClock
    <2> QED
        BY <1>1, <2>1, <2>2, <2>3 DEF T!TrayTypeOK
<1>3. /\ ~AnyShow(queue) /\ NoBlur(queue) /\ ShowsFirst(queue) /\ Alternates(queue)
      /\ ~EndsOpen(queue)
    BY <1>1 DEF AnyShow, NoBlur, ShowsFirst, Alternates, EndsOpen
<1>4. popover = "none" /\ hidAt = T!Never /\ lastHidden = T!Never /\ ~wish
    BY DEF T!TrayInit
<1>5. OnCourse
    BY <1>3, <1>4 DEF OnCourse, WillOpen
<1>6. ~duplicate
    BY DEF T!TrayInit
<1> QED
    BY <1>2, <1>4, <1>5, <1>6 DEF TrayInv

\* A queue that has been served left the popover as the clicks asked.
LEMMA TrayInvToggles ==
    ASSUME TrayInv
    PROVE  T!ClickToggles
<1> SUFFICES ASSUME queue = <<>>, ~pressed, ~odd
             PROVE  (popover = "shown") = wish
    BY DEF T!ClickToggles
<1>1. ~AnyShow(queue) /\ ~AnyCloses(queue) /\ ~EndsOpen(queue)
    BY DEF AnyShow, AnyCloses, EndsOpen
<1>2. OnCourse
    BY <1>1 DEF TrayInv, Overtaken
<1>3. (popover = "shown") <=> wish
    BY <1>1, <1>2 DEF OnCourse, WillOpen
<1>4. wish \in BOOLEAN
    BY DEF TrayInv, T!TrayTypeOK
<1> QED
    BY <1>3, <1>4

\* "Click the tray icon to dismiss the popover": whatever happens in between,
\* the popover ends up as the clicks asked for, and it is built once.
THEOREM PopoverAlwaysObeys == DesktopSpec => []PopoverObeys
<1>1. DesktopInit => TrayInv
    BY TrayInvAtFirst DEF DesktopInit
<1>2. TrayInv /\ [DesktopNext]_<<part, vars, obsVars, openerVars, trayVars>> => TrayInv'
    <2> SUFFICES ASSUME TrayInv, [DesktopNext]_<<part, vars, obsVars, openerVars, trayVars>>
                 PROVE  TrayInv'
        OBVIOUS
    <2>1. [T!TrayNext]_(T!trayVars)
        BY DEF DesktopNext, trayVars, T!trayVars
    <2> QED
        BY <2>1, TrayInvKept
<1>3. TrayInv => PopoverObeys
    BY TrayInvToggles DEF TrayInv, PopoverObeys, T!BuiltOnce
<1> QED
    BY <1>1, <1>2, <1>3, PTL DEF DesktopSpec
=============================================================================
