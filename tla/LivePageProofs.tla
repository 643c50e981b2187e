--------------------------- MODULE LivePageProofs ----------------------------
(***************************************************************************)
(* What the page of flights shows, for any flights and tracks and whatever *)
(* order clicks, answers and frames come in.                               *)
(*                                                                         *)
(* PageInv says that planes and rows are what SetTime computes from the    *)
(* time and the flights of the page, and that these are in the collection  *)
(* once; every handler recomputes them from what it changes.  Asked adds   *)
(* that the requests are counted.                                          *)
(*                                                                         *)
(* LiveInv says of the page of live tracks that what it misses between its *)
(* first fix and its last is never two in a row, that older fixes are too  *)
(* old for any answer, and that every answer goes on from its last one or, *)
(* if times are not whole seconds, perhaps from the next (GoesOn).  Where  *)
(* the last one may be too old, RisingInv still holds: the request that is *)
(* under way asks for what follows it.                                     *)
(***************************************************************************)
EXTENDS MCLivePage, FiniteSetTheorems, SequenceTheorems, WellFoundedInduction, TLAPS

------------------------------------------------------------------------------
(* Sets of numbers *)

LEMMA Least ==
  ASSUME NEW S \in SUBSET Nat, S # {}
  PROVE  Min(S) \in S /\ \A n \in S : Min(S) <= n
  <1> DEFINE R == {pair \in Nat \X Nat : pair[1] < pair[2]}
  <1>1. IsWellFoundedOn(R, Nat)
    BY NatLessThanWellFounded, Zenon DEF OpToRel
  <1> HIDE DEF R
  <1>2. PICK m \in S : \A n \in S : <<n, m>> \notin R
    BY <1>1, WFMin
  <1>3. ASSUME NEW n \in S PROVE m <= n
    <2>1. n < m => <<n, m>> \in R
      BY DEF R
    <2> QED BY <1>2, <2>1
  <1> QED BY <1>3 DEF Min

LEMMA Greatest ==
  ASSUME NEW n \in Nat, NEW S \in SUBSET (0 .. n), S # {}
  PROVE  Max(S) \in S /\ \A i \in S : i <= Max(S)
  <1> DEFINE T == {n - i : i \in S}
  <1>1. T \in SUBSET Nat /\ T # {}
    <2>1. PICK i \in S : TRUE
      OBVIOUS
    <2>2. n - i \in T
      OBVIOUS
    <2>3. \A j \in S : n - j \in Nat
      OBVIOUS
    <2> QED BY <2>2, <2>3
  <1>2. PICK k \in T : \A j \in T : k <= j
    <2> HIDE DEF T
    <2> QED BY <1>1, Least
  <1>3. PICK m \in S : k = n - m
    OBVIOUS
  <1>4. \A i \in S : i <= m
    <2> SUFFICES ASSUME NEW i \in S PROVE i <= m
      OBVIOUS
    <2>1. n - i \in T
      OBVIOUS
    <2>2. n - m <= n - i
      BY <1>2, <1>3, <2>1
    <2> HIDE DEF T
    <2> QED BY <2>2
  <1> QED BY <1>4 DEF Max

------------------------------------------------------------------------------
(* The collection of flights *)

OnePage(list) == list \in Seq(PageFlights) /\ IsInjective(list)

LEMMA OnList ==
  ASSUME NEW list, OnePage(list)
  PROVE  /\ Len(list) \in Nat /\ DOMAIN list = 1 .. Len(list)
         /\ On(list) = {list[i] : i \in 1 .. Len(list)}
         /\ On(list) \subseteq PageFlights
  BY LenProperties, ElementOfSeq DEF OnePage, On, ToSet

(* Flights behind those on the page. *)
LEMMA ListJoined ==
  ASSUME NEW list, NEW new, OnePage(list), OnePage(new), On(list) \intersect On(new) = {}
  PROVE  /\ OnePage(list \o new) /\ Len(list \o new) = Len(list) + Len(new)
         /\ On(list \o new) = On(list) \union On(new)
         /\ list # <<>> => (list \o new)[1] = list[1]
  <1> DEFINE both == list \o new  m == Len(list)  n == Len(new)
  <1>1. /\ list \in Seq(PageFlights) /\ new \in Seq(PageFlights)
        /\ m \in Nat /\ n \in Nat /\ DOMAIN list = 1 .. m /\ DOMAIN new = 1 .. n
    BY OnList DEF OnePage
  <1>2. /\ both \in Seq(PageFlights) /\ Len(both) = m + n
        /\ \A i \in 1 .. m + n : both[i] = IF i <= m THEN list[i] ELSE new[i - m]
    BY <1>1, ConcatProperties
  <1>3. DOMAIN both = 1 .. m + n
    BY <1>2, LenProperties
  <1> HIDE DEF both, m, n
  <1>4. \A i \in 1 .. m : both[i] = list[i]
    BY <1>1, <1>2
  <1>5. \A i \in 1 .. n : m + i \in 1 .. m + n /\ both[m + i] = new[i]
    BY <1>1, <1>2
  <1>6. \A i \in 1 .. m + n : i \in 1 .. m \/ \E k \in 1 .. n : i = m + k
    <2> SUFFICES ASSUME NEW i \in 1 .. m + n, i \notin 1 .. m PROVE \E k \in 1 .. n : i = m + k
      OBVIOUS
    <2>1. i - m \in 1 .. n /\ i = m + (i - m)
      BY <1>1
    <2> QED BY <2>1
  <1>7. \A i \in 1 .. m : i \in 1 .. m + n
    BY <1>1
  <1>8. \A i \in 1 .. m, k \in 1 .. n : list[i] # new[k]
    BY <1>1 DEF On, ToSet
  <1>9. IsInjective(list) /\ IsInjective(new)
    BY DEF OnePage
  <1>10. ASSUME NEW i \in 1 .. m + n, NEW k \in 1 .. m + n, both[i] = both[k] PROVE i = k
    <2>1. CASE i \in 1 .. m /\ k \in 1 .. m
      BY <1>1, <1>4, <1>9, <1>10, <2>1 DEF IsInjective
    <2>2. ASSUME NEW p \in 1 .. n, NEW q \in 1 .. n, i = m + p, k = m + q PROVE i = k
      BY <1>1, <1>5, <1>9, <1>10, <2>2 DEF IsInjective
    <2>3. ASSUME NEW p \in 1 .. n, i = m + p, k \in 1 .. m PROVE FALSE
      BY <1>4, <1>5, <1>8, <1>10, <2>3
    <2>4. ASSUME NEW p \in 1 .. n, k = m + p, i \in 1 .. m PROVE FALSE
      BY <1>4, <1>5, <1>8, <1>10, <2>4
    <2> QED BY <1>6, <2>1, <2>2, <2>3, <2>4
  <1>11. On(both) = On(list) \union On(new)
    <2>1. ASSUME NEW f \in On(both) PROVE f \in On(list) \union On(new)
      <3>1. PICK i \in 1 .. m + n : f = both[i]
        BY <1>3 DEF On, ToSet
      <3>2. CASE i \in 1 .. m
        BY <1>1, <1>4, <3>1, <3>2 DEF On, ToSet
      <3>3. ASSUME NEW k \in 1 .. n, i = m + k PROVE f \in On(new)
        BY <1>1, <1>5, <3>1, <3>3 DEF On, ToSet
      <3> QED BY <1>6, <3>2, <3>3
    <2>2. On(list) \subseteq On(both)
      BY <1>1, <1>3, <1>4, <1>7 DEF On, ToSet
    <2>3. On(new) \subseteq On(both)
      BY <1>1, <1>3, <1>5 DEF On, ToSet
    <2> QED BY <2>1, <2>2, <2>3
  <1>12. list # <<>> => both[1] = list[1]
    BY <1>1, <1>4, EmptySeq
  <1> QED BY <1>2, <1>3, <1>10, <1>11, <1>12 DEF OnePage, IsInjective, both, m, n

(* A flight of the page removed, other than the first. *)
LEMMA ListWithout ==
  ASSUME NEW list, OnePage(list), NEW f \in On(list), f # list[1]
  PROVE  LET rest == RemoveFirst(list, f) IN
         /\ OnePage(rest) /\ Len(rest) = Len(list) - 1
         /\ On(rest) = On(list) \ {f}
         /\ rest # <<>> /\ rest[1] = list[1]
  <1> DEFINE n == Len(list)  rest == RemoveFirst(list, f)
  <1>1. list \in Seq(PageFlights) /\ n \in Nat /\ DOMAIN list = 1 .. n /\ IsInjective(list)
    BY OnList DEF OnePage
  <1>2. PICK p \in 1 .. n : list[p] = f
    BY <1>1 DEF On, ToSet
  <1>3. {i \in 1 .. n : list[i] = f} = {p}
    BY <1>1, <1>2 DEF IsInjective
  <1>4. SelectInSeq(list, LAMBDA v : v = f) = p
    <2>1. Min({p}) = p
      BY <1>2 DEF Min
    <2> QED BY <1>3, <2>1 DEF SelectInSeq
  <1>5. rest = SubSeq(list, 1, p - 1) \o SubSeq(list, p + 1, n)
    BY <1>2, <1>4 DEF RemoveFirst, RemoveAt
  <1>6. p \in 2 .. n
    BY <1>1, <1>2
  <1> DEFINE before == SubSeq(list, 1, p - 1)  after == SubSeq(list, p + 1, n)
  <1>7. \A i \in 1 .. n : list[i] \in PageFlights
    BY <1>1
  <1>8. /\ before \in Seq(PageFlights) /\ Len(before) = p - 1
        /\ \A i \in 1 .. p - 1 : before[i] = list[i]
    <2>1. \A i \in 1 .. p - 1 : list[i] \in PageFlights
      BY <1>1, <1>6, <1>7
    <2>2. /\ before \in Seq(PageFlights)
          /\ Len(before) = IF 1 <= p - 1 THEN (p - 1) - 1 + 1 ELSE 0
          /\ \A i \in 1 .. (p - 1) - 1 + 1 : before[i] = list[1 + i - 1]
      BY <1>1, <1>6, <2>1, SubSeqProperties
    <2> QED BY <1>1, <1>6, <2>2
  <1>9. /\ after \in Seq(PageFlights) /\ Len(after) = n - p
        /\ \A i \in 1 .. n - p : after[i] = list[p + i]
    <2>1. \A i \in p + 1 .. n : list[i] \in PageFlights
      BY <1>1, <1>6, <1>7
    <2>2. /\ after \in Seq(PageFlights)
          /\ Len(after) = IF p + 1 <= n THEN n - (p + 1) + 1 ELSE 0
          /\ \A i \in 1 .. n - (p + 1) + 1 : after[i] = list[(p + 1) + i - 1]
      BY <1>1, <1>6, <2>1, SubSeqProperties
    <2>3. n - (p + 1) + 1 = n - p /\ \A i \in 1 .. n - p : (p + 1) + i - 1 = p + i
      BY <1>1, <1>6
    <2> HIDE DEF n, after
    <2>4. Len(after) = n - p
      <3>1. CASE p + 1 <= n
        BY <2>2, <2>3, <3>1
      <3>2. CASE ~(p + 1 <= n)
        <4>1. n - p = 0
          BY <1>1, <1>6, <3>2
        <4> QED BY <2>2, <3>2, <4>1
      <3> QED BY <3>1, <3>2
    <2>5. \A i \in 1 .. n - p : after[i] = list[p + i]
      BY <2>2, <2>3
    <2> QED BY <2>2, <2>4, <2>5
  <1> HIDE DEF before, after
  <1>10. /\ rest \in Seq(PageFlights) /\ Len(rest) = n - 1
         /\ \A i \in 1 .. n - 1 : rest[i] = IF i <= p - 1 THEN before[i] ELSE after[i - (p - 1)]
    <2>1. rest = before \o after
      BY <1>5 DEF before, after
    <2>2. (p - 1) + (n - p) = n - 1
      BY <1>1, <1>6
    <2>3. /\ before \o after \in Seq(PageFlights)
          /\ Len(before \o after) = Len(before) + Len(after)
          /\ \A i \in 1 .. Len(before) + Len(after) : (before \o after)[i] =
               IF i <= Len(before) THEN before[i] ELSE after[i - Len(before)]
      BY <1>8, <1>9, ConcatProperties
    <2>4. Len(before) + Len(after) = n - 1
      BY <1>8, <1>9, <2>2
    <2> QED BY <1>8, <2>1, <2>3, <2>4
  <1>11. DOMAIN rest = 1 .. n - 1
    BY <1>10, LenProperties
  <1> HIDE DEF rest, n
  <1>12. ASSUME NEW i \in 1 .. n - 1
         PROVE  /\ i < p => rest[i] = list[i]
                /\ ~(i < p) => rest[i] = list[i + 1]
    <2>1. CASE i <= p - 1
      <3>1. i \in 1 .. p - 1 /\ i < p
        BY <1>1, <1>6, <2>1
      <3> QED BY <1>8, <1>10, <2>1, <3>1
    <2>2. CASE ~(i <= p - 1)
      <3>1. i - (p - 1) \in 1 .. n - p /\ p + (i - (p - 1)) = i + 1 /\ ~(i < p)
        BY <1>1, <1>6, <2>2
      <3>2. rest[i] = after[i - (p - 1)]
        BY <1>10, <2>2
      <3> QED BY <1>9, <3>1, <3>2
    <2> QED BY <2>1, <2>2
  <1>13. ASSUME NEW i \in 1 .. n - 1, NEW k \in 1 .. n - 1, rest[i] = rest[k] PROVE i = k
    <2> DEFINE place(j) == IF j < p THEN j ELSE j + 1
    <2>1. place(i) \in 1 .. n /\ place(k) \in 1 .. n
      BY <1>1, <1>6
    <2>2. list[place(i)] = list[place(k)]
      <3>1. rest[i] = list[place(i)] /\ rest[k] = list[place(k)]
        BY <1>12
      <3> QED BY <1>13, <3>1
    <2>3. place(i) = place(k)
      <3> HIDE DEF place
      <3> QED BY <1>1, <2>1, <2>2 DEF IsInjective
    <2> QED BY <1>1, <1>6, <2>3
  <1>14. On(rest) = On(list) \ {f}
    <2>1. ASSUME NEW g \in On(rest) PROVE g \in On(list) \ {f}
      <3>1. PICK i \in 1 .. n - 1 : g = rest[i]
        BY <1>11 DEF On, ToSet
      <3>2. PICK k \in 1 .. n : k # p /\ g = list[k]
        <4>1. CASE i < p
          BY <1>1, <1>6, <1>12, <3>1, <4>1
        <4>2. CASE ~(i < p)
          <5>1. i + 1 \in 1 .. n /\ i + 1 # p
            BY <1>1, <1>6, <4>2
          <5> QED BY <1>12, <3>1, <4>2, <5>1
        <4> QED BY <4>1, <4>2
      <3>3. list[k] # list[p]
        BY <1>1, <3>2 DEF IsInjective
      <3> QED BY <1>1, <1>2, <3>2, <3>3 DEF On, ToSet
    <2>2. ASSUME NEW g \in On(list), g # f PROVE g \in On(rest)
      <3>1. PICK k \in 1 .. n : g = list[k] /\ k # p
        BY <1>1, <1>2, <2>2 DEF On, ToSet
      <3>2. \E i \in 1 .. n - 1 : rest[i] = g
        <4>1. CASE k < p
          <5>1. k \in 1 .. n - 1
            BY <1>1, <1>6, <4>1
          <5> QED BY <1>12, <3>1, <4>1, <5>1
        <4>2. CASE ~(k < p)
          <5>1. k - 1 \in 1 .. n - 1 /\ ~(k - 1 < p) /\ (k - 1) + 1 = k
            BY <1>1, <1>6, <3>1, <4>2
          <5>2. rest[k - 1] = list[k]
            BY <1>12, <5>1
          <5> QED BY <3>1, <5>1, <5>2
        <4> QED BY <4>1, <4>2
      <3> QED BY <1>11, <3>2 DEF On, ToSet
    <2> QED BY <2>1, <2>2
  <1>15. rest[1] = list[1] /\ n - 1 # 0
    <2>1. 1 \in 1 .. n - 1 /\ 1 < p
      BY <1>1, <1>6
    <2> QED BY <1>1, <1>12, <2>1
  <1>16. rest # <<>>
    BY <1>10, <1>15, EmptySeq
  <1> QED BY <1>10, <1>11, <1>13, <1>14, <1>15, <1>16 DEF OnePage, IsInjective, rest, n

------------------------------------------------------------------------------
(* What the page shows *)

ListTyped == OnePage(page) /\ page # <<>> /\ page[1] = FirstFlight
PageTyped ==
  /\ ListTyped /\ globalTime \in Int
  /\ fixes \in [PageFlights -> Nat]
  /\ \A f \in PageFlights : fixes[f] \in 1 .. Len(TrackTimes[f])
PageShown ==
  /\ planes = PlanesAt(globalTime, page, fixes) /\ rows = planes
  /\ selection \in On(page) \union {NoFlight}
  /\ traces = Traces(page, selection, fixes)
PageInv == PageTyped /\ PageShown

(* Whoever sets the time sets it for all flights on the page. *)
LEMMA TimeSet ==
  ASSUME NEW t, NEW list, NEW fx, PageShown, On(page) \subseteq On(list), SetTime(t, list, fx)
  PROVE  planes' = PlanesAt(t, list, fx) /\ rows' = planes'
  <1>1. DOMAIN rows = On(page)
    BY DEF PageShown, PlanesAt
  <1>2. RowsAt(t, list, fx) = PlanesAt(t, list, fx)
    BY <1>1 DEF RowsAt, PlanesAt
  <1> QED BY <1>2 DEF SetTime

(* A flight in the air is shown at the fixes before and after the time. *)
LEMMA ShownSpans ==
  ASSUME NEW f \in PageFlights, NEW t \in Int, NEW fx, fx[f] \in 1 .. Len(TrackTimes[f]),
         t # LatestTime, ShownAt(f, t, fx) # NoFix
  PROVE  LET i == ShownAt(f, t, fx) IN TrackTimes[f][i] <= t /\ t <= TrackTimes[f][i + 1]
  <1> DEFINE n == fx[f]  times == TrackTimes[f]
             seen == {i \in 1 .. n - 1 : times[i] <= t}
  <1>1. times \in Seq(Nat) /\ Len(times) \in Nat /\ \A i \in 1 .. Len(times) : times[i] \in Nat
    BY TracksAssumption, LenProperties, ElementOfSeq
  <1> HIDE DEF times
  <1>2. n \in Nat /\ 2 <= n /\ n <= Len(times) /\ times[1] <= t /\ t <= times[n]
    BY <1>1 DEF ShownAt, FixAt, NoFix, times
  <1>3. ShownAt(f, t, fx) = Max({1} \union seen)
    BY DEF ShownAt, FixAt, NoFix, times
  <1> HIDE DEF n
  <1>4. Max({1} \union seen) \in {1} \union seen /\ \A i \in {1} \union seen : i <= Max({1} \union seen)
    <2>1. {1} \union seen \in SUBSET (0 .. n - 1) /\ n - 1 \in Nat /\ {1} \union seen # {}
      BY <1>2
    <2> HIDE DEF seen
    <2> QED BY <2>1, Greatest
  <1> DEFINE i == Max({1} \union seen)
  <1>5. i \in 1 .. n - 1 /\ (i = 1 \/ times[i] <= t) /\ \A j \in 1 .. n - 1 : times[j] <= t => j <= i
    <2>1. 1 \in 1 .. n - 1
      BY <1>2
    <2> QED BY <1>4, <2>1
  <1> HIDE DEF i, seen
  <1>6. times[i] <= t
    BY <1>2, <1>5
  <1>7. t <= times[i + 1]
    <2>1. CASE i = n - 1
      BY <1>2, <2>1
    <2>2. CASE i # n - 1
      <3>1. i + 1 \in 1 .. n - 1 /\ ~(i + 1 <= i) /\ i + 1 \in 1 .. Len(times)
        BY <1>1, <1>2, <1>5, <2>2
      <3>2. ~(times[i + 1] <= t)
        BY <1>5, <3>1
      <3> QED BY <1>1, <3>1, <3>2
    <2> QED BY <2>1, <2>2
  <1> QED BY <1>3, <1>6, <1>7 DEF i, times

LEMMA PageInvImplies == PageInv => PageConsistent
  <1> SUFFICES ASSUME PageInv PROVE PageConsistent
    OBVIOUS
  <1>1. planes = [f \in On(page) |-> ShownAt(f, globalTime, fixes)]
    BY DEF PageInv, PageShown, PlanesAt
  <1>2. ASSUME NEW f \in On(page), planes[f] # NoFix, globalTime # LatestTime
        PROVE  TrackTimes[f][planes[f]] <= globalTime /\ globalTime <= TrackTimes[f][planes[f] + 1]
    <2>1. f \in PageFlights /\ planes[f] = ShownAt(f, globalTime, fixes)
      BY <1>1, OnList DEF PageInv, PageTyped, ListTyped
    <2> QED BY <1>2, <2>1, ShownSpans DEF PageInv, PageTyped
  <1> QED BY <1>1, <1>2 DEF PageInv, PageTyped, ListTyped, PageShown, OnePage, PageConsistent

(* The flights of a set, one after the other. *)
LEMMA SeqsOfSet ==
  ASSUME NEW S \in SUBSET PageFlights, NEW new \in SetToSeqs(S)
  PROVE  OnePage(new) /\ On(new) \subseteq S
  <1> DEFINE n == Cardinality(S)
  <1>1. n \in Nat
    BY FlightsAssumption, FS_Subset, FS_CardinalityType
  <1>2. new \in [1 .. n -> S] /\ \A i, j \in 1 .. n : i # j => new[i] # new[j]
    BY DEF SetToSeqs
  <1> HIDE DEF n
  <1>3. new \in Seq(PageFlights)
    BY <1>1, <1>2
  <1> QED BY <1>2, <1>3 DEF OnePage, IsInjective, On, ToSet

LEMMA SingleFlight ==
  ASSUME NEW f \in PageFlights
  PROVE  OnePage(<<f>>) /\ On(<<f>>) = {f} /\ Len(<<f>>) = 1 /\ <<f>>[1] = f
  BY DEF OnePage, IsInjective, On, ToSet

LEMMA NoFlights == OnePage(<<>>) /\ On(<<>>) = {}
  BY DEF OnePage, IsInjective, On, ToSet

LEMMA PageInvInit == PageInit => PageInv
  <1> SUFFICES ASSUME PageInit PROVE PageInv
    OBVIOUS
  <1>1. PICK others \in SUBSET (PageFlights \ {FirstFlight}) :
          \E list \in SetToSeqs(others) : page = <<FirstFlight>> \o list
    BY DEF PageInit
  <1>2. PICK list \in SetToSeqs(others) : page = <<FirstFlight>> \o list
    BY <1>1
  <1>3. OnePage(list) /\ FirstFlight \notin On(list)
    BY SeqsOfSet
  <1>4. OnePage(<<FirstFlight>>) /\ On(<<FirstFlight>>) = {FirstFlight} /\ Len(<<FirstFlight>>) = 1
        /\ <<FirstFlight>>[1] = FirstFlight /\ <<FirstFlight>> # <<>>
    BY SingleFlight, FlightsAssumption
  <1>5. OnePage(page) /\ page[1] = FirstFlight /\ Len(page) = 1 + Len(list) /\ Len(list) \in Nat
    BY <1>2, <1>3, <1>4, ListJoined, OnList
  <1>6. page # <<>>
    BY <1>5, EmptySeq
  <1>7. \A f \in PageFlights : Len(TrackTimes[f]) \in Nat /\ 1 <= Len(TrackTimes[f])
    BY TracksAssumption, EmptySeq
  <1>8. fixes \in [PageFlights -> Nat] /\ \A f \in PageFlights : fixes[f] \in 1 .. Len(TrackTimes[f])
    BY <1>7 DEF PageInit
  <1>9. globalTime \in Int
    BY DEF PageInit, DefaultTime, LatestTime, NoTime
  <1>10. PageShown
    BY DEF PageInit, PageShown, PlanesAt
  <1> QED BY <1>5, <1>6, <1>8, <1>9, <1>10 DEF PageInv, PageTyped, ListTyped

LEMMA AddedStep ==
  ASSUME PageInv, NEW new, OnePage(new), On(page) \intersect On(new) = {}, Added(new)
  PROVE  PageInv'
  <1> DEFINE list == page \o new
  <1>1. OnePage(list) /\ Len(list) = Len(page) + Len(new) /\ On(page) \subseteq On(list)
        /\ list[1] = FirstFlight
    BY ListJoined DEF PageInv, PageTyped, ListTyped
  <1>2. Len(list) # 0
    BY <1>1, OnList, EmptySeq DEF PageInv, PageTyped, ListTyped, OnePage
  <1>3. /\ page' = list /\ traces' = Traces(list, selection, fixes)
        /\ SetTime(globalTime, list, fixes) /\ fixes' = fixes /\ selection' = selection
    BY DEF Added
  <1> HIDE DEF list
  <1>4. globalTime' = globalTime
    BY <1>3 DEF SetTime
  <1>5. planes' = PlanesAt(globalTime, list, fixes) /\ rows' = planes'
    BY <1>1, <1>3, TimeSet DEF PageInv
  <1>6. PageTyped'
    BY <1>1, <1>2, <1>3, <1>4, EmptySeq DEF PageInv, PageTyped, ListTyped, OnePage
  <1>7. PageShown'
    BY <1>1, <1>3, <1>4, <1>5 DEF PageInv, PageShown
  <1> QED BY <1>6, <1>7 DEF PageInv

LEMMA RemovedStep ==
  ASSUME PageInv, NEW f, Removed(f), UNCHANGED <<fixes, globalTime>>
  PROVE  PageInv'
  <1>1. CASE f = page[1] \/ f \notin On(page)
    BY <1>1 DEF Removed, PageInv, PageTyped, ListTyped, PageShown
  <1>2. CASE f # page[1] /\ f \in On(page)
    <2> DEFINE list == RemoveFirst(page, f)
               selected == IF selection = f THEN NoFlight ELSE selection
    <2>1. OnePage(list) /\ On(list) = On(page) \ {f} /\ list # <<>> /\ list[1] = page[1]
      BY <1>2, ListWithout DEF PageInv, PageTyped, ListTyped
    <2>2. /\ page' = list /\ selection' = selected /\ traces' = Traces(list, selected, fixes)
          /\ planes' = [g \in (DOMAIN planes) \ {f} |-> planes[g]]
          /\ rows' = [g \in (DOMAIN rows) \ {f} |-> rows[g]]
      BY <1>2 DEF Removed
    <2> HIDE DEF list
    <2>3. PageTyped'
      BY <2>1, <2>2 DEF PageInv, PageTyped, ListTyped
    <2>4. planes' = PlanesAt(globalTime, list, fixes) /\ rows' = planes'
      BY <2>1, <2>2 DEF PageInv, PageShown, PlanesAt
    <2>5. selected \in On(list) \union {NoFlight}
      BY <2>1 DEF PageInv, PageShown
    <2>6. PageShown'
      BY <2>2, <2>4, <2>5 DEF PageShown
    <2> QED BY <2>3, <2>6 DEF PageInv
  <1> QED BY <1>1, <1>2

LEMMA LookStep ==
  ASSUME PageInv, NEW t \in Int, SetTime(t, page, fixes), UNCHANGED <<page, fixes, selection, traces>>
  PROVE  PageInv'
  <1>1. globalTime' = t /\ planes' = PlanesAt(t, page, fixes) /\ rows' = planes'
    BY TimeSet DEF PageInv, SetTime
  <1> QED BY <1>1 DEF PageInv, PageTyped, ListTyped, PageShown

LEMMA AdvanceStep ==
  ASSUME PageInv, NEW t \in Int, NEW scheduled, Advance(t, scheduled), UNCHANGED <<page, fixes, tableVars>>
  PROVE  PageInv'
  BY LookStep DEF Advance, tableVars

LEMMA StartIsTime == PageInv => StartTime \in Int
  <1> SUFFICES ASSUME PageInv PROVE StartTime \in Int
    OBVIOUS
  <1> DEFINE S == {TrackTimes[f][1] : f \in On(page)}
  <1>1. On(page) \subseteq PageFlights /\ page[1] \in On(page)
    BY OnList, EmptySeq DEF PageInv, PageTyped, ListTyped, OnePage
  <1>2. \A f \in PageFlights : TrackTimes[f][1] \in Nat
    BY TracksAssumption, EmptySeq, ElementOfSeq
  <1>3. S \in SUBSET Nat /\ S # {}
    BY <1>1, <1>2
  <1> HIDE DEF S
  <1>4. Min(S) \in Nat
    BY <1>3, Least
  <1> QED BY <1>4 DEF StartTime, S

LEMMA ClickRowStep ==
  ASSUME PageInv, NEW f, ClickRow(f)
  PROVE  PageInv'
  <1>1. DOMAIN rows = On(page)
    BY DEF PageInv, PageShown, PlanesAt
  <1> QED BY <1>1 DEF ClickRow, PageInv, PageTyped, ListTyped, PageShown, viewVars

LEMMA ExtendStep ==
  ASSUME PageInv, NEW f \in PageFlights, Extend(f)
  PROVE  PageInv'
  <1>1. /\ fixes' = [fixes EXCEPT ![f] = @ + 1] /\ fixes[f] < Len(TrackTimes[f])
        /\ SetTime(globalTime, page, fixes') /\ traces' = Traces(page, selection, fixes')
        /\ page' = page /\ selection' = selection
    BY DEF Extend
  <1>2. Len(TrackTimes[f]) \in Nat
    BY TracksAssumption, LenProperties
  <1>3. /\ fixes' \in [PageFlights -> Nat]
        /\ \A g \in PageFlights : fixes'[g] \in 1 .. Len(TrackTimes[g])
    BY <1>1, <1>2 DEF PageInv, PageTyped
  <1>4. globalTime' = globalTime
    BY <1>1 DEF SetTime
  <1>5. planes' = PlanesAt(globalTime, page, fixes') /\ rows' = planes'
    BY <1>1, TimeSet DEF PageInv
  <1>6. PageTyped'
    BY <1>1, <1>3, <1>4 DEF PageInv, PageTyped, ListTyped
  <1>7. PageShown'
    BY <1>1, <1>4, <1>5 DEF PageInv, PageShown
  <1> QED BY <1>6, <1>7 DEF PageInv

LEMMA NearStep ==
  ASSUME PageInv, NearAnswered
  PROVE  PageInv'
  <1>1. PICK query \in near : \E found \in SUBSET InTheAir(query[1], query[2]) :
          \E new \in SetToSeqs(found \ On(page)) : Added(new)
    BY DEF NearAnswered
  <1>2. PICK found \in SUBSET InTheAir(query[1], query[2]) :
          \E new \in SetToSeqs(found \ On(page)) : Added(new)
    BY <1>1
  <1>3. PICK new \in SetToSeqs(found \ On(page)) : Added(new)
    BY <1>2
  <1>4. found \ On(page) \in SUBSET PageFlights
    BY <1>2 DEF InTheAir
  <1>5. OnePage(new) /\ On(new) \subseteq found \ On(page)
    BY <1>4, SeqsOfSet
  <1> QED BY <1>3, <1>5, AddedStep

LEMMA PageInvStep == PageInv /\ [PageNext]_pageVars => PageInv'
  <1> SUFFICES ASSUME PageInv, [PageNext]_pageVars PROVE PageInv'
    OBVIOUS
  <1>1. ASSUME UNCHANGED <<page, fixes, viewVars, tableVars>> PROVE PageInv'
    BY <1>1 DEF PageInv, PageTyped, ListTyped, PageShown, viewVars, tableVars
  <1>2. CASE UNCHANGED pageVars
    BY <1>1, <1>2 DEF pageVars
  <1>3. ASSUME NEW f \in PageFlights, FlightAnswered(f) PROVE PageInv'
    <2>1. CASE f \in On(page)
      BY <1>3, <2>1, NoFlights, AddedStep DEF FlightAnswered
    <2>2. CASE f \notin On(page)
      BY <1>3, <2>2, SingleFlight, AddedStep DEF FlightAnswered
    <2> QED BY <2>1, <2>2
  <1>4. ASSUME NEW f \in PageFlights, ClickRemove(f) PROVE PageInv'
    BY <1>4, RemovedStep DEF ClickRemove
  <1>5. ASSUME NEW f \in PageFlights, ClickWingman(f) PROVE PageInv'
    <2>1. CASE Removed(f)
      BY <1>5, <2>1, RemovedStep DEF ClickWingman
    <2>2. CASE UNCHANGED <<page, planes, rows, selection, traces>>
      BY <1>5, <2>2 DEF ClickWingman, PageInv, PageTyped, ListTyped, PageShown
    <2> QED BY <1>5, <2>1, <2>2 DEF ClickWingman
  <1>6. ASSUME NEW f \in PageFlights, FlightFailed(f) \/ \E t \in Times : ClickNear(f, t) PROVE PageInv'
    BY <1>1, <1>6 DEF FlightFailed, ClickNear
  <1>7. CASE ClickPin \/ NearFailed \/ Stop
    BY <1>1, <1>7 DEF ClickPin, NearFailed, Stop
  <1>8. ASSUME NEW t, Hover(t) \/ ClickBarogram(t) PROVE PageInv'
    <2>1. t \in Int
      BY <1>8 DEF Hover, ClickBarogram, DefaultTime, LatestTime, NoTime
    <2> QED BY <1>8, <2>1, LookStep DEF Hover, ClickBarogram, Look, tableVars
  <1>9. CASE Play
    BY <1>9, StartIsTime, AdvanceStep DEF Play, PageInv, PageTyped
  <1>10. CASE Frame
    BY <1>1, <1>10, AdvanceStep DEF Frame, PageInv, PageTyped
  <1> QED BY <1>2, <1>3, <1>4, <1>5, <1>6, <1>7, <1>8, <1>9, <1>10, ClickRowStep, ExtendStep, NearStep
      DEF PageNext

(* Map, fix table and barogram show the flights on the page, each there     *)
(* once, at the time of the page, in whatever order answers, clicks, frames *)
(* and fixes come (addFlight, removeFlight, setTime, updateBaroData).       *)
THEOREM PageStaysConsistent == PageSpec => []PageConsistent
  BY PageInvInit, PageInvStep, PageInvImplies, PTL DEF PageSpec

------------------------------------------------------------------------------
(* The flights that are pinned *)

Asked ==
  /\ pinned \in SUBSET PageFlights
  /\ loading \in [PageFlights -> Nat]
  /\ \A f \in pinned : f \in On(page) \/ loading[f] > 0 \/ f \in missing

LEMMA AskedInit == PageInit => Asked
  <1> SUFFICES ASSUME PageInit PROVE Asked
    OBVIOUS
  <1>1. PageInv
    BY PageInvInit
  <1>2. FirstFlight \in On(page)
    BY <1>1, OnList, EmptySeq DEF PageInv, PageTyped, ListTyped, OnePage
  <1> QED BY <1>2 DEF PageInit, Asked

(* Flights that are added come to those on the page. *)
LEMMA AddedKeeps ==
  ASSUME PageInv, NEW new, OnePage(new), On(page) \intersect On(new) = {}, Added(new)
  PROVE  On(page') = On(page) \union On(new) /\ UNCHANGED <<pinned, missing>>
  <1>1. On(page \o new) = On(page) \union On(new)
    BY ListJoined DEF PageInv, PageTyped, ListTyped
  <1>2. page' = page \o new /\ UNCHANGED <<pinned, missing>>
    BY DEF Added
  <1> QED BY <1>1, <1>2

(* Removing a flight leaves the others on the page. *)
LEMMA RemovedKeeps ==
  ASSUME PageInv, NEW f, Removed(f)
  PROVE  On(page) \ {f} \subseteq On(page')
  <1>1. CASE f = page[1] \/ f \notin On(page)
    <2>1. page' = page
      BY <1>1 DEF Removed
    <2> QED BY <2>1
  <1>2. CASE f # page[1] /\ f \in On(page)
    <2>1. On(RemoveFirst(page, f)) = On(page) \ {f}
      BY <1>2, ListWithout DEF PageInv, PageTyped, ListTyped
    <2>2. page' = RemoveFirst(page, f)
      BY <1>2 DEF Removed
    <2> QED BY <2>1, <2>2
  <1> QED BY <1>1, <1>2

LEMMA AskedStep == PageInv /\ Asked /\ [PageNext]_pageVars => Asked'
  <1> SUFFICES ASSUME PageInv, Asked, [PageNext]_pageVars PROVE Asked'
    OBVIOUS
  <1>1. ASSUME UNCHANGED <<page, pinned, loading, missing>> PROVE Asked'
    BY <1>1 DEF Asked
  <1>2. CASE UNCHANGED pageVars
    BY <1>1, <1>2 DEF pageVars, requestVars
  <1>3. ASSUME NEW f \in PageFlights, FlightAnswered(f) PROVE Asked'
    <2>1. On(page') = On(page) \union {f} /\ UNCHANGED <<pinned, missing>>
      <3>1. CASE f \in On(page)
        BY <1>3, <3>1, NoFlights, AddedKeeps DEF FlightAnswered
      <3>2. CASE f \notin On(page)
        BY <1>3, <3>2, SingleFlight, AddedKeeps DEF FlightAnswered
      <3> QED BY <3>1, <3>2
    <2>2. loading' = [loading EXCEPT ![f] = @ - 1] /\ loading[f] > 0
      BY <1>3 DEF FlightAnswered
    <2> QED BY <2>1, <2>2 DEF Asked
  <1>4. ASSUME NEW f \in PageFlights, FlightFailed(f) PROVE Asked'
    BY <1>4 DEF FlightFailed, Asked
  <1>5. ASSUME NEW f \in PageFlights, ClickRemove(f) PROVE Asked'
    BY <1>5, RemovedKeeps DEF ClickRemove, Asked
  <1>6. ASSUME NEW f \in PageFlights, ClickWingman(f) PROVE Asked'
    <2>1. CASE f \in On(page)
      BY <1>6, <2>1, RemovedKeeps DEF ClickWingman, Asked
    <2>2. CASE f \notin On(page)
      BY <1>6, <2>2 DEF ClickWingman, Asked
    <2> QED BY <2>1, <2>2
  <1>7. ASSUME NEW f \in PageFlights, ClickRow(f) \/ Extend(f) \/ \E t \in Times : ClickNear(f, t)
        PROVE  Asked'
    BY <1>1, <1>7 DEF ClickRow, Extend, ClickNear, requestVars
  <1>8. ASSUME NEW t, Hover(t) \/ ClickBarogram(t) PROVE Asked'
    BY <1>1, <1>8 DEF Hover, ClickBarogram, Look, requestVars
  <1>9. CASE ClickPin
    <2>1. FirstFlight \in On(page)
      BY OnList, EmptySeq DEF PageInv, PageTyped, ListTyped, OnePage
    <2> QED BY <1>9, <2>1, FlightsAssumption DEF ClickPin, Asked
  <1>10. CASE NearAnswered
    <2>1. PICK query \in near : \E found \in SUBSET InTheAir(query[1], query[2]) :
            \E new \in SetToSeqs(found \ On(page)) : Added(new)
      BY <1>10 DEF NearAnswered
    <2>2. PICK found \in SUBSET InTheAir(query[1], query[2]) :
            \E new \in SetToSeqs(found \ On(page)) : Added(new)
      BY <2>1
    <2>3. PICK new \in SetToSeqs(found \ On(page)) : Added(new)
      BY <2>2
    <2>4. found \ On(page) \in SUBSET PageFlights
      BY <2>2 DEF InTheAir
    <2>5. OnePage(new) /\ On(new) \subseteq found \ On(page)
      BY <2>4, SeqsOfSet
    <2>6. On(page) \subseteq On(page') /\ UNCHANGED <<pinned, missing>>
      BY <2>3, <2>5, AddedKeeps
    <2>7. loading' = loading
      BY <1>10 DEF NearAnswered
    <2> QED BY <2>6, <2>7 DEF Asked
  <1>11. CASE NearFailed \/ Play \/ Stop \/ Frame
    BY <1>1, <1>11 DEF NearFailed, Play, Stop, Frame, requestVars
  <1> QED BY <1>2, <1>3, <1>4, <1>5, <1>6, <1>7, <1>8, <1>9, <1>10, <1>11 DEF PageNext

(* A pinned flight is on the page, is being asked for, or has failed to     *)
(* load, whatever is clicked while requests are under way (pinFlight,       *)
(* unpinFlight, addFlightFromJSON, the click on a wingman).                 *)
THEOREM PinnedStayLoaded == PageSpec => []PinnedLoaded
  <1>1. Asked => PinnedLoaded
    BY DEF Asked, PinnedLoaded
  <1> QED BY <1>1, AskedInit, AskedStep, PageInvInit, PageInvStep, PTL DEF PageSpec

------------------------------------------------------------------------------
(* Fixes in order *)

UpTo(S, f) == {g \in S : g <= f}

LEMMA InOrder ==
  ASSUME NEW S \in SUBSET Nat, IsFiniteSet(S)
  PROVE  /\ Sorted(S) \in [1 .. Cardinality(S) -> S]
         /\ \A i, j \in 1 .. Cardinality(S) : i < j => Sorted(S)[i] < Sorted(S)[j]
         /\ \A f \in S : \E i \in 1 .. Cardinality(S) : Sorted(S)[i] = f
  <1> DEFINE n == Cardinality(S)
             rank == [f \in S |-> Cardinality(UpTo(S, f))]
  <1>1. n \in Nat /\ IsFiniteSet(1 .. n) /\ Cardinality(1 .. n) = n
    <2>1. n \in Nat
      BY FS_CardinalityType
    <2>2. IsFiniteSet(1 .. n) /\ Cardinality(1 .. n) = IF 1 > n THEN 0 ELSE n - 1 + 1
      BY <2>1, FS_Interval
    <2> QED BY <2>1, <2>2
  <1>2. ASSUME NEW f \in S
        PROVE  rank[f] \in 1 .. n /\ IsFiniteSet(UpTo(S, f))
    <2>1. UpTo(S, f) \subseteq S /\ f \in UpTo(S, f)
      BY DEF UpTo
    <2>2. /\ IsFiniteSet(UpTo(S, f)) /\ Cardinality(UpTo(S, f)) <= n
          /\ Cardinality(UpTo(S, f)) \in Nat /\ Cardinality(UpTo(S, f)) # 0
      BY <2>1, FS_Subset, FS_CardinalityType, FS_EmptySet
    <2> QED BY <2>2, <1>1
  <1>3. ASSUME NEW f \in S, NEW g \in S, f < g
        PROVE  rank[f] < rank[g]
    <2>1. UpTo(S, f) \subseteq UpTo(S, g) /\ g \in UpTo(S, g) /\ g \notin UpTo(S, f)
      <3>1. f \in Nat /\ g \in Nat /\ \A h \in S : h \in Nat /\ (h <= f => h <= g)
        BY <1>3
      <3>2. g <= g /\ ~(g <= f)
        BY <3>1, <1>3
      <3> QED BY <3>1, <3>2 DEF UpTo
    <2>2. UpTo(S, f) # UpTo(S, g)
      BY <2>1
    <2>3. Cardinality(UpTo(S, f)) < Cardinality(UpTo(S, g))
      BY <1>2, <2>1, <2>2, FS_Subset
    <2> QED BY <2>3
  <1>4. rank \in Injection(S, 1 .. n)
    <2>1. rank \in [S -> 1 .. n]
      BY <1>2
    <2>2. \A f, g \in S : rank[f] = rank[g] => f = g
      <3> SUFFICES ASSUME NEW f \in S, NEW g \in S, rank[f] = rank[g], f # g PROVE FALSE
        OBVIOUS
      <3>1. f < g \/ g < f
        OBVIOUS
      <3>2. rank[f] \in Nat /\ rank[g] \in Nat /\ (rank[f] < rank[g] \/ rank[g] < rank[f])
        BY <3>1, <1>2, <1>3
      <3> HIDE DEF rank
      <3> QED BY <3>2
    <2> HIDE DEF rank
    <2> QED BY <2>1, <2>2 DEF Injection, IsInjective
  <1>5. \A i \in 1 .. n : \E f \in S : rank[f] = i
    <2>1. rank \in Surjection(S, 1 .. n)
      BY <1>1, <1>4, FS_Injection
    <2> QED BY <2>1 DEF Surjection
  <1> HIDE DEF rank
  <1> DEFINE s == [i \in 1 .. n |-> CHOOSE f \in S : rank[f] = i]
  <1>6. \A i \in 1 .. n : s[i] \in S /\ rank[s[i]] = i
    BY <1>5
  <1>7. s \in [1 .. n -> S]
    BY <1>6
  <1> HIDE DEF s
  <1>8. \A i, j \in DOMAIN s : i < j => s[i] < s[j]
    <2> SUFFICES ASSUME NEW i \in 1 .. n, NEW j \in 1 .. n, i < j PROVE s[i] < s[j]
      BY <1>7
    <2>1. s[i] \in Nat /\ s[j] \in Nat /\ rank[s[i]] = i /\ rank[s[j]] = j
      BY <1>6
    <2>2. s[j] < s[i] => j < i
      BY <1>6, <1>3, <2>1
    <2>3. s[i] # s[j]
      BY <2>1
    <2> QED BY <2>1, <2>2, <2>3
  <1> DEFINE r == Sorted(S)
  <1>9. r \in [1 .. n -> S] /\ \A i, j \in DOMAIN r : i < j => r[i] < r[j]
    BY <1>7, <1>8 DEF Sorted
  <1> HIDE DEF r
  <1>10. ASSUME NEW f \in S
         PROVE  \E i \in 1 .. n : r[i] = f
    <2>1. \A i, j \in 1 .. n : r[i] = r[j] => i = j
      <3>1. \A i, j \in 1 .. n : r[i] \in Nat /\ (i < j => r[i] < r[j])
        BY <1>9
      <3> QED BY <3>1
    <2>2. r \in Injection(1 .. n, S)
      BY <1>9, <2>1 DEF Injection, IsInjective
    <2>3. r \in Surjection(1 .. n, S)
      BY <1>1, <2>2, FS_Injection
    <2> QED BY <2>3 DEF Surjection
  <1> QED BY <1>9, <1>10 DEF r

LEMMA Earliest ==
  ASSUME NEW S \in SUBSET Nat, S # {}
  PROVE  First(S) \in S /\ \A g \in S : First(S) <= g
  <1>1. \E f \in S : \A g \in S : f <= g
    BY Least
  <1> QED BY <1>1 DEF First

LEMMA LastOf ==
  ASSUME NEW n \in Nat, NEW S \in SUBSET (0 .. n), S # {}
  PROVE  Newest(S) \in S /\ \A g \in S : g <= Newest(S)
  <1>1. \E f \in S : \A g \in S : g <= f
    BY Greatest
  <1> QED BY <1>1 DEF Newest

------------------------------------------------------------------------------
(* Midnights and seconds *)

OfDay(f) == f % Day
Midnight(f) == f - OfDay(f)

(* The midnights before two fixes are the same or a day apart. *)
LEMMA Midnights ==
  ASSUME NEW f \in Nat, NEW g \in Nat, f <= g
  PROVE  /\ OfDay(f) \in 0 .. f /\ OfDay(g) \in 0 .. g
         /\ Midnight(f) \in Nat /\ Midnight(g) \in Nat
         /\ Midnight(g) = Midnight(f) \/ Midnight(g) >= Midnight(f) + Day
  <1>1. ASSUME NEW t \in Nat
        PROVE  /\ t % Day \in 0 .. Day - 1
               /\ t \div Day \in Int /\ t = (Day * (t \div Day)) + (t % Day)
    <2>1. t % Day \in 0 .. Day - 1
      BY ClockAssumption, SMT
    <2>2. t \div Day \in Int /\ t = (Day * (t \div Day)) + (t % Day)
      BY ClockAssumption, SMT
    <2> QED BY <2>1, <2>2
  <1> DEFINE p == f \div Day
             q == g \div Day
  <1>2. /\ p \in Int /\ q \in Int /\ f % Day \in 0 .. Day - 1 /\ g % Day \in 0 .. Day - 1
        /\ f = (Day * p) + (f % Day) /\ g = (Day * q) + (g % Day)
    BY <1>1
  <1> HIDE DEF p, q
  <1> DEFINE u == Day * p
             v == Day * q
  <1>3. /\ u \in Int /\ v \in Int /\ f = u + (f % Day) /\ g = v + (g % Day)
        /\ OfDay(f) = f % Day /\ OfDay(g) = g % Day
    BY <1>2, ClockAssumption DEF OfDay
  <1>7. p >= 0 /\ q >= 0
    <2>1. \A m \in Int : m < 0 => Day * m <= -Day
      <3> SUFFICES ASSUME NEW m \in Int, m < 0 PROVE Day * m <= -Day
        OBVIOUS
      <3>1. PICK k \in Nat : m = -1 - k
        <4>1. -1 - m \in Nat /\ m = -1 - (-1 - m)
          OBVIOUS
        <4> QED BY <4>1
      <3>2. Day * m = -Day - (Day * k) /\ Day * k \in Nat
        BY <3>1, ClockAssumption
      <3> QED BY <3>2, ClockAssumption
    <2>2. (p < 0 => u <= -Day) /\ (q < 0 => v <= -Day)
      BY <2>1, <1>2
    <2> HIDE DEF u, v
    <2> QED BY <2>2, <1>2, <1>3, ClockAssumption
  <1>8. u >= 0 /\ v >= 0
    BY <1>2, <1>7, ClockAssumption
  <1>9. OfDay(f) \in 0 .. f /\ OfDay(g) \in 0 .. g
    <2> HIDE DEF u, v
    <2> QED BY <1>2, <1>3, <1>8, ClockAssumption
  <1>10. OfDay(f) \in Int /\ OfDay(g) \in Int
         /\ f - OfDay(f) = u /\ g - OfDay(g) = v
    <2> HIDE DEF u, v
    <2> QED BY <1>2, <1>3, ClockAssumption
  <1>4. CASE q < p
    <2>1. PICK k \in Nat : p = q + 1 + k
      <3>1. p - q - 1 \in Nat /\ p = q + 1 + (p - q - 1)
        BY <1>2, <1>4
      <3> QED BY <3>1
    <2>2. u = v + Day + (Day * k) /\ Day * k \in Nat
      BY <2>1, <1>2, ClockAssumption
    <2> HIDE DEF u, v
    <2>3. u >= v + Day
      BY <2>2, <1>3, ClockAssumption
    <2> QED BY <2>3, <1>2, <1>3, ClockAssumption
  <1>5. CASE q = p
    <2>1. u = v
      BY <1>5
    <2> HIDE DEF u, v
    <2> QED BY <2>1, <1>8, <1>9, <1>10 DEF Midnight
  <1>6. CASE q > p
    <2>1. PICK k \in Nat : q = p + 1 + k
      <3>1. q - p - 1 \in Nat /\ q = p + 1 + (q - p - 1)
        BY <1>2, <1>6
      <3> QED BY <3>1
    <2>2. v = u + Day + (Day * k) /\ Day * k \in Nat
      BY <2>1, <1>2, ClockAssumption
    <2> HIDE DEF u, v
    <2>3. v >= u + Day
      BY <2>2, <1>3, ClockAssumption
    <2> QED BY <2>3, <1>3, <1>8, <1>9, <1>10 DEF Midnight
  <1> QED BY <1>2, <1>4, <1>5, <1>6

(* What is cut off is less than a second. *)
LEMMA Cut ==
  ASSUME NEW t \in Nat
  PROVE  /\ Truncated(t) \in Nat /\ Truncated(t) <= t /\ t < Truncated(t) + Second
         /\ Second \in Nat \ {0}
  <1>1. Second \in Nat \ {0}
    BY ClockAssumption
  <1>2. t % Second \in 0 .. Second - 1
    BY <1>1, SMT
  <1>3. t \div Second \in Int /\ t = (Second * (t \div Second)) + (t % Second)
    BY <1>1, SMT
  <1>4. t % Second <= t
    <2> DEFINE m == t \div Second
    <2>1. m < 0 => Second * m <= -Second
      <3> SUFFICES ASSUME m < 0 PROVE Second * m <= -Second
        OBVIOUS
      <3> HIDE DEF m
      <3>1. m \in Int
        BY <1>3 DEF m
      <3>2. PICK k \in Nat : m = -1 - k
        <4>1. -1 - m \in Nat /\ m = -1 - (-1 - m)
          BY <3>1
        <4> QED BY <4>1
      <3>3. Second * m = -Second - (Second * k) /\ Second * k \in Nat
        BY <3>2, <1>1
      <3> QED BY <3>3, <1>1
    <2>2. m >= 0 => Second * m >= 0
      <3> HIDE DEF m
      <3>1. m \in Int
        BY <1>3 DEF m
      <3> QED BY <1>1, <3>1
    <2> DEFINE u == Second * m
    <2>3. u \in Int /\ m \in Int /\ t = u + (t % Second)
      BY <1>1, <1>3
    <2>4. (m < 0 => u <= -Second) /\ (m >= 0 => u >= 0)
      BY <2>1, <2>2
    <2> HIDE DEF u, m
    <2> QED BY <2>3, <2>4, <1>1, <1>2
  <1> DEFINE rest == t % Second
  <1>5. rest \in 0 .. Second - 1 /\ rest <= t /\ Truncated(t) = t - rest
    BY <1>2, <1>4 DEF Truncated
  <1> HIDE DEF rest
  <1> QED BY <1>1, <1>5

(* The second that fix f is shown at while the track starts at s. *)
ShownAtSecond(s, f) == SecondsOfDay(s) + Truncated(f - s)

LEMMA Seconds ==
  ASSUME NEW s \in Nat, NEW f \in Nat, s <= f
  PROVE  /\ SecondsOfDay(s) \in Nat /\ ShownAtSecond(s, f) \in Nat
         /\ Midnight(s) + SecondsOfDay(s) <= s /\ s < Midnight(s) + SecondsOfDay(s) + Second
         /\ ShownAtSecond(s, f) <= f - Midnight(s)
         /\ f - Midnight(s) + 2 <= ShownAtSecond(s, f) + Second + Second
         /\ Midnight(s) \in Nat /\ Midnight(s) <= s
  <1>1. OfDay(s) \in 0 .. s /\ Midnight(s) = s - OfDay(s)
    BY Midnights DEF Midnight
  <1>2. SecondsOfDay(s) = Truncated(OfDay(s))
    BY DEF SecondsOfDay, OfDay
  <1>3. /\ Truncated(OfDay(s)) \in Nat /\ Truncated(OfDay(s)) <= OfDay(s)
        /\ OfDay(s) < Truncated(OfDay(s)) + Second
    BY <1>1, Cut
  <1>4. /\ Truncated(f - s) \in Nat /\ Truncated(f - s) <= f - s
        /\ f - s < Truncated(f - s) + Second /\ Second \in Nat \ {0}
    <2>1. f - s \in Nat
      OBVIOUS
    <2> QED BY <2>1, Cut
  <1> QED BY <1>1, <1>2, <1>3, <1>4 DEF ShownAtSecond

------------------------------------------------------------------------------
(* The track of the page *)

FixesOf(r) == {r[i].fix : i \in DOMAIN r}

(* The seconds of a fix since base are those that it is shown at, but for   *)
(* less than two seconds.                                                   *)
Nearly(shown, base) ==
  shown.t <= shown.fix - base /\ shown.fix - base + 2 <= shown.t + Second + Second

(* r shows the fixes of S in their order, in seconds since base. *)
Holds(r, S, base) ==
  /\ r \in Seq(Shown)
  /\ \A i \in DOMAIN r : r[i].fix \in S /\ Nearly(r[i], base)
  /\ \A i, j \in DOMAIN r : i < j => r[i].fix < r[j].fix
  /\ \A f \in S : \E i \in DOMAIN r : r[i].fix = f

Base == Midnight(track[1].fix)

Request ==
  [state : {"idle", "asked", "answered"}, last : Nat, reply : Seq(Shown), left : SUBSET Time]

LiveTyped ==
  /\ now \in Time /\ air \subseteq Start .. now /\ stored \subseteq Start .. now
  /\ track \in Seq(Shown)
  /\ poll \in [Polls -> Request]

Spaced == \A f, g \in air \union stored : f < g => f + Apart <= g

(* Fixes come in after those that are stored. *)
Arriving == \A f \in stored, g \in air : f < g

(* What the page misses is never two in a row; what is older than what it   *)
(* shows is too old for any answer, and its last fix is not.                *)
TrackInv ==
  track # <<>> =>
    /\ Holds(track, ShownFixes, Base) /\ ShownFixes \subseteq stored
    /\ Second = 1 => Missing = {}
    /\ \A f, g \in Missing : f < g => \E h \in ShownFixes : f < h /\ h < g
    /\ \A f \in stored : f < track[1].fix => f < now - MaxAge
    /\ now - MaxAge <= Latest.fix /\ Latest.fix <= now - Delay

(* Answer r goes on from the last fix of the page, or, if devices do not    *)
(* send whole seconds, perhaps from the next one; it leaves nothing out but *)
(* left.                                                                    *)
GoesOn(r, left) ==
  /\ Holds(r, FixesOf(r), Base)
  /\ \A f \in FixesOf(r) : f \in stored /\ Latest.fix <= f
  /\ Second = 1 => r[1].fix = Latest.fix
  /\ \A f \in stored : Latest.fix < f /\ f <= r[Len(r)].fix =>
       f \in FixesOf(r) \/ (f \in left /\ r[1].fix < f)
  /\ r[Len(r)].fix <= now - Delay

PollInv ==
  /\ \A p, q \in Polls : poll[p].state # "idle" /\ poll[q].state # "idle" => p = q
  /\ \A p \in Polls : poll[p].state # "idle" => track # <<>>
  /\ \A p \in Polls : poll[p].state = "asked" => poll[p].last = Latest.t
  /\ \A p \in Polls : poll[p].state = "answered" /\ poll[p].reply # <<>> =>
       GoesOn(poll[p].reply, poll[p].left)

LiveInv == LiveTyped /\ Spaced /\ Arriving /\ TrackInv /\ PollInv

LEMMA Fixes ==
  ASSUME LiveTyped
  PROVE  /\ now \in Nat /\ stored \in SUBSET Nat /\ Visible \in SUBSET Nat /\ Visible \subseteq Time
         /\ \A S \in SUBSET Visible : IsFiniteSet(S) /\ S \in SUBSET (0 .. now)
         /\ MaxAge \in Nat /\ Delay \in Nat /\ Day \in Nat /\ Second \in Nat \ {0}
         /\ Apart \in Nat /\ Apart + 1 >= Second + Second
         /\ \A f \in stored : f \in Nat /\ f <= now
         /\ \A f \in air : f \in Nat /\ f <= now
  <1>1. /\ Start \in Nat /\ End \in Nat /\ now \in Start .. End /\ stored \subseteq Start .. now
        /\ air \subseteq Start .. now
    BY ClockAssumption DEF LiveTyped, Time
  <1>2. /\ now \in Nat /\ \A f \in stored : f \in Nat /\ f <= now /\ f \in Start .. End
        /\ \A f \in air : f \in Nat /\ f <= now
    BY <1>1
  <1>3. Visible \subseteq stored
    BY DEF Visible
  <1>4. IsFiniteSet(Start .. End)
    BY <1>1, FS_Interval
  <1>5. \A S \in SUBSET Visible : IsFiniteSet(S) /\ S \in SUBSET (0 .. now)
    <2> SUFFICES ASSUME NEW S \in SUBSET Visible PROVE IsFiniteSet(S) /\ S \in SUBSET (0 .. now)
      OBVIOUS
    <2>1. S \subseteq Start .. End
      BY <1>2, <1>3
    <2>2. IsFiniteSet(S)
      BY <1>4, <2>1, FS_Subset
    <2>3. \A f \in S : f \in 0 .. now
      BY <1>2, <1>3
    <2> QED BY <2>2, <2>3
  <1> QED BY <1>2, <1>3, <1>5, ClockAssumption, DeviceAssumption DEF Time

(* What the server answers. *)
LEMMA PathIs ==
  ASSUME LiveTyped, NEW kept \in SUBSET Visible
  PROVE  LET r == Path(kept)
             s == First(Visible)
         IN /\ r \in Seq(Shown)
            /\ \A i \in DOMAIN r :
                 /\ r[i].fix \in kept /\ r[i].fix \in Nat /\ s \in Nat /\ s <= r[i].fix
                 /\ r[i].t = ShownAtSecond(s, r[i].fix) /\ Nearly(r[i], Midnight(s))
            /\ \A i, j \in DOMAIN r : i < j => r[i].fix < r[j].fix
            /\ FixesOf(r) = kept
  <1> DEFINE s == First(Visible)
             n == Cardinality(kept)
             o == Sorted(kept)
             r == [i \in DOMAIN o |-> [fix |-> o[i], t |-> SecondsOfDay(s) + Truncated(o[i] - s)]]
  <1>1. Path(kept) = r
    BY DEF Path
  <1>2. IsFiniteSet(kept) /\ kept \in SUBSET Nat /\ n \in Nat
    <2>1. IsFiniteSet(kept) /\ kept \in SUBSET Nat
      BY Fixes
    <2> QED BY <2>1, FS_CardinalityType
  <1>3. /\ o \in [1 .. n -> kept] /\ \A i, j \in 1 .. n : i < j => o[i] < o[j]
        /\ \A f \in kept : \E i \in 1 .. n : o[i] = f
    BY <1>2, InOrder
  <1> HIDE DEF o
  <1>4. ASSUME NEW i \in 1 .. n
        PROVE  /\ r[i] \in Shown /\ r[i].fix = o[i] /\ r[i].fix \in kept
               /\ r[i].fix \in Nat /\ s \in Nat /\ s <= r[i].fix
               /\ r[i].t = ShownAtSecond(s, r[i].fix) /\ Nearly(r[i], Midnight(s))
    <2>1. o[i] \in kept /\ o[i] \in Visible /\ o[i] \in Time /\ o[i] \in Nat
      BY <1>2, <1>3, Fixes
    <2>2. s \in Nat /\ s <= o[i]
      <3>1. Visible \in SUBSET Nat
        BY Fixes
      <3> QED BY <2>1, <3>1, Earliest
    <2>3. r[i] = [fix |-> o[i], t |-> ShownAtSecond(s, o[i])]
      BY <1>3 DEF ShownAtSecond
    <2> HIDE DEF r, s
    <2>4. /\ ShownAtSecond(s, o[i]) \in Nat /\ ShownAtSecond(s, o[i]) <= o[i] - Midnight(s)
          /\ o[i] - Midnight(s) + 2 <= ShownAtSecond(s, o[i]) + Second + Second
      BY <2>1, <2>2, Seconds
    <2>5. r[i].fix = o[i] /\ r[i].t = ShownAtSecond(s, o[i]) /\ r[i] \in Shown
      BY <2>1, <2>3, <2>4 DEF Shown
    <2> QED BY <2>1, <2>2, <2>4, <2>5 DEF Nearly
  <1>5. DOMAIN r = 1 .. n
    BY <1>3
  <1>6. r \in Seq(Shown)
    <2>1. r = [i \in 1 .. n |-> r[i]]
      BY <1>5
    <2> HIDE DEF r
    <2>2. r \in [1 .. n -> Shown]
      BY <1>4, <2>1
    <2> QED BY <1>2, <2>2
  <1> HIDE DEF r
  <1>7. \A i, j \in 1 .. n : i < j => r[i].fix < r[j].fix
    BY <1>3, <1>4
  <1>8. FixesOf(r) = kept
    <2>1. \A f \in kept : \E i \in 1 .. n : r[i].fix = f
      BY <1>3, <1>4
    <2> QED BY <1>4, <1>5, <2>1 DEF FixesOf
  <1> QED BY <1>1, <1>4, <1>5, <1>6, <1>7, <1>8 DEF s

LEMMA PathHolds ==
  ASSUME LiveTyped, NEW kept \in SUBSET Visible
  PROVE  Holds(Path(kept), kept, Midnight(First(Visible)))
  <1> DEFINE r == Path(kept)
  <1>1. FixesOf(r) = kept
    BY PathIs
  <1>2. \A f \in kept : \E i \in DOMAIN r : r[i].fix = f
    BY <1>1 DEF FixesOf
  <1> QED BY <1>2, PathIs DEF Holds

(* What reduce leaves. *)
LEMMA Kept ==
  ASSUME LiveTyped, NEW S \in SUBSET Visible, NEW kept \in Reduced(S)
  PROVE  /\ kept \in SUBSET S
         /\ S # {} => /\ First(S) \in kept /\ Newest(S) \in kept
                      /\ \A f \in S : First(S) <= f /\ f <= Newest(S)
  <1>1. S \in SUBSET (0 .. now) /\ now \in Nat
    BY Fixes
  <1> QED BY <1>1, Earliest, LastOf DEF Reduced

LEMMA HoldsFixes ==
  ASSUME NEW r, NEW S, NEW base, Holds(r, S, base)
  PROVE  FixesOf(r) = S
  BY DEF Holds, FixesOf

(* The first and the last of the fixes that are shown. *)
LEMMA HoldsEnds ==
  ASSUME NEW r, NEW S, NEW base, Holds(r, S, base), r # <<>>, Time \subseteq Nat
  PROVE  /\ Len(r) \in Nat \ {0} /\ DOMAIN r = 1 .. Len(r)
         /\ r[1].fix \in S /\ r[Len(r)].fix \in S /\ S \subseteq Nat
         /\ \A f \in S : r[1].fix <= f /\ f <= r[Len(r)].fix
         /\ r[Len(r)] \in Shown /\ r[1] \in Shown
  <1>1. /\ r \in Seq(Shown) /\ Len(r) \in Nat \ {0} /\ DOMAIN r = 1 .. Len(r)
        /\ 1 \in 1 .. Len(r) /\ Len(r) \in 1 .. Len(r)
    BY DEF Holds
  <1>2. \A i \in 1 .. Len(r) : r[i] \in Shown /\ r[i].fix \in Nat /\ r[i].fix \in S
    <2> SUFFICES ASSUME NEW i \in 1 .. Len(r)
                 PROVE  r[i] \in Shown /\ r[i].fix \in Nat /\ r[i].fix \in S
      OBVIOUS
    <2>1. r[i] \in Shown
      BY <1>1, ElementOfSeq
    <2> QED BY <2>1, <1>1 DEF Shown, Holds
  <1>3. ASSUME NEW f \in S
        PROVE  f \in Nat /\ r[1].fix <= f /\ f <= r[Len(r)].fix
    <2>1. PICK i \in 1 .. Len(r) : r[i].fix = f
      BY <1>1 DEF Holds
    <2>2. (1 < i => r[1].fix < r[i].fix) /\ (i < Len(r) => r[i].fix < r[Len(r)].fix)
      BY <1>1 DEF Holds
    <2>3. r[1].fix \in Nat /\ r[i].fix \in Nat /\ r[Len(r)].fix \in Nat
      BY <1>1, <1>2
    <2>4. i = 1 \/ 1 < i
      BY <1>1
    <2>5. i = Len(r) \/ i < Len(r)
      <3>1. \A n \in Nat : \A k \in 1 .. n : k = n \/ k < n
        OBVIOUS
      <3> QED BY <3>1, <1>1
    <2> QED BY <2>1, <2>2, <2>3, <2>4, <2>5
  <1> QED BY <1>1, <1>2, <1>3

(* An answer that does not go back is appended behind its first fix.        *)
LEMMA HoldsJoined ==
  ASSUME NEW s, NEW S, NEW r, NEW R, NEW base, Time \subseteq Nat,
         Holds(s, S, base), Holds(r, R, base),
         s # <<>>, Len(r) > 1, s[Len(s)].fix <= r[1].fix
  PROVE  /\ Holds(s \o Tail(r), S \union (R \ {r[1].fix}), base)
         /\ (s \o Tail(r))[Len(s \o Tail(r))] = r[Len(r)]
         /\ (s \o Tail(r))[1] = s[1] /\ s \o Tail(r) # <<>>
  <1> DEFINE u == s \o Tail(r)
             m == Len(s)
             n == Len(r)
             Q == R \ {r[1].fix}
  <1>1. /\ m \in Nat \ {0} /\ n \in Nat \ {0} /\ DOMAIN s = 1 .. m /\ DOMAIN r = 1 .. n
        /\ s \in Seq(Shown) /\ r \in Seq(Shown)
    BY HoldsEnds, EmptySeq DEF Holds
  <1>2. /\ u \in Seq(Shown) /\ Len(u) = m + n - 1 /\ DOMAIN u = 1 .. m + n - 1
        /\ \A i \in 1 .. m : u[i] = s[i]
        /\ \A i \in m + 1 .. m + n - 1 : u[i] = r[i - m + 1]
    <2>1. /\ Tail(r) \in Seq(Shown) /\ Len(Tail(r)) = n - 1
          /\ \A i \in 1 .. n - 1 : Tail(r)[i] = r[i + 1]
      BY <1>1, HeadTailProperties
    <2>2. /\ u \in Seq(Shown) /\ Len(u) = m + Len(Tail(r))
          /\ \A i \in 1 .. m + Len(Tail(r)) : u[i] = IF i <= m THEN s[i] ELSE Tail(r)[i - m]
      BY <1>1, <2>1, ConcatProperties
    <2> HIDE DEF u
    <2>3. \A i \in 1 .. m : u[i] = s[i]
      BY <2>1, <2>2, <1>1
    <2>4. ASSUME NEW i \in m + 1 .. m + n - 1
          PROVE  u[i] = r[i - m + 1]
      <3>1. i - m \in 1 .. n - 1 /\ i \in 1 .. m + (n - 1) /\ ~(i <= m) /\ i - m + 1 = (i - m) + 1
        BY <1>1
      <3> QED BY <3>1, <2>1, <2>2
    <2> QED BY <2>1, <2>2, <2>3, <2>4, <1>1
  <1> HIDE DEF u
  <1>3. /\ s[m].fix \in S /\ r[1].fix \in R /\ S \subseteq Nat /\ R \subseteq Nat
        /\ \A f \in S : f <= s[m].fix
        /\ \A f \in R : r[1].fix <= f
    BY HoldsEnds
  <1>4. ASSUME NEW i \in 1 .. m + n - 1
        PROVE  /\ u[i].fix \in S \union Q /\ Nearly(u[i], base)
               /\ i \in 1 .. m \/ (i \in m + 1 .. m + n - 1 /\ i - m + 1 \in 2 .. n)
    <2>1. i \in 1 .. m \/ (i \in m + 1 .. m + n - 1 /\ i - m + 1 \in 2 .. n)
      BY <1>1
    <2>2. CASE i \in 1 .. m
      BY <2>2, <1>1, <1>2 DEF Holds
    <2>3. CASE i \in m + 1 .. m + n - 1 /\ i - m + 1 \in 2 .. n
      <3>1. i - m + 1 \in 1 .. n /\ u[i] = r[i - m + 1]
        BY <2>3, <1>1, <1>2
      <3>2. r[1].fix < r[i - m + 1].fix /\ r[1].fix \in Nat /\ r[i - m + 1].fix \in R
        <4>1. 1 \in 1 .. n /\ 1 < i - m + 1
          BY <2>3, <1>1
        <4> QED BY <3>1, <4>1, <1>1, <1>3 DEF Holds
      <3>3. r[i - m + 1].fix \in Q
        BY <3>2, <1>3
      <3> QED BY <3>1, <3>3, <2>1, <1>1 DEF Holds
    <2> QED BY <2>1, <2>2, <2>3
  <1>5. ASSUME NEW i \in 1 .. m + n - 1, NEW j \in 1 .. m + n - 1, i < j
        PROVE  u[i].fix < u[j].fix
    <2>1. CASE i \in 1 .. m /\ j \in 1 .. m
      BY <2>1, <1>1, <1>2, <1>5 DEF Holds
    <2>2. CASE i \in 1 .. m /\ j \in m + 1 .. m + n - 1
      <3>1. u[i].fix = s[i].fix /\ s[i].fix \in S /\ u[j].fix = r[j - m + 1].fix
        BY <2>2, <1>1, <1>2 DEF Holds
      <3>2. j - m + 1 \in 1 .. n /\ 1 < j - m + 1 /\ 1 \in 1 .. n
        BY <2>2, <1>1
      <3>3. r[j - m + 1].fix \in R /\ r[1].fix < r[j - m + 1].fix
        BY <3>2, <1>1 DEF Holds
      <3>4. /\ s[i].fix \in Nat /\ s[i].fix <= s[m].fix /\ r[j - m + 1].fix \in Nat
            /\ s[m].fix \in Nat /\ r[1].fix \in Nat /\ s[m].fix <= r[1].fix
        BY <3>1, <3>3, <1>3
      <3> QED BY <3>1, <3>3, <3>4, SMTT(20)
    <2>3. CASE i \in m + 1 .. m + n - 1 /\ j \in m + 1 .. m + n - 1
      <3>1. i - m + 1 \in 1 .. n /\ j - m + 1 \in 1 .. n /\ i - m + 1 < j - m + 1
        BY <2>3, <1>1, <1>5
      <3>2. u[i].fix = r[i - m + 1].fix /\ u[j].fix = r[j - m + 1].fix
        BY <2>3, <1>2
      <3>3. r[i - m + 1].fix < r[j - m + 1].fix
        BY <3>1, <1>1 DEF Holds
      <3> QED BY <3>2, <3>3
    <2>4. i \in m + 1 .. m + n - 1 => j \in m + 1 .. m + n - 1
      BY <1>5, <1>1
    <2> QED BY <2>1, <2>2, <2>3, <2>4, <1>4
  <1>6. ASSUME NEW f \in S \union Q
        PROVE  \E i \in 1 .. m + n - 1 : u[i].fix = f
    <2>1. CASE f \in S
      <3>1. PICK i \in 1 .. m : s[i].fix = f
        BY <2>1, <1>1 DEF Holds
      <3>2. i \in 1 .. m + n - 1
        BY <1>1
      <3> QED BY <3>1, <3>2, <1>2
    <2>2. CASE f \in Q
      <3>1. PICK k \in 1 .. n : r[k].fix = f
        BY <2>2, <1>1 DEF Holds
      <3>2. k # 1
        BY <2>2, <3>1
      <3>3. m + k - 1 \in m + 1 .. m + n - 1 /\ m + k - 1 \in 1 .. m + n - 1
            /\ m + k - 1 - m + 1 = k
        BY <3>2, <1>1
      <3>4. u[m + k - 1] = r[m + k - 1 - m + 1]
        <4>1. PICK i \in m + 1 .. m + n - 1 : i = m + k - 1
          BY <3>3
        <4>2. u[i] = r[i - m + 1]
          BY <1>2
        <4> QED BY <4>1, <4>2
      <3> QED BY <3>1, <3>3, <3>4
    <2> QED BY <2>1, <2>2
  <1>7. Holds(u, S \union Q, base)
    BY <1>2, <1>4, <1>5, <1>6 DEF Holds
  <1>8. u[Len(u)] = r[n]
    <2>1. m + n - 1 \in m + 1 .. m + n - 1 /\ m + n - 1 - m + 1 = n
      BY <1>1
    <2> QED BY <2>1, <1>2
  <1>9. u[1] = s[1] /\ u # <<>>
    <2>1. 1 \in 1 .. m /\ m + n - 1 # 0
      BY <1>1
    <2> QED BY <2>1, <1>2
  <1> QED BY <1>7, <1>8, <1>9 DEF u

LEMMA LiveInvInit == Init => LiveInv
  <1> SUFFICES ASSUME Init PROVE LiveInv
    OBVIOUS
  <1>1. now \in Time
    BY ClockAssumption DEF Init, Time
  <1>2. LiveTyped
    BY <1>1 DEF Init, LiveTyped, Idle, Request
  <1> QED BY <1>2 DEF Init, LiveInv, Spaced, Arriving, TrackInv, PollInv, Idle

(* The last fix of the page and the first that would be answered. *)
LEMMA TrackEnds ==
  ASSUME LiveTyped, TrackInv, track # <<>>
  PROVE  LET f1 == track[1].fix IN
         /\ f1 \in stored /\ Latest.fix \in stored /\ f1 \in Nat /\ Latest.fix \in Nat
         /\ Latest.t \in Nat /\ f1 <= Latest.fix
         /\ f1 \in ShownFixes /\ Latest.fix \in ShownFixes /\ ShownFixes \subseteq Nat
         /\ \A f \in ShownFixes : f1 <= f /\ f <= Latest.fix
         /\ Base \in Nat /\ Base <= f1 /\ Nearly(Latest, Base)
  <1>1. Holds(track, ShownFixes, Base) /\ ShownFixes \subseteq stored /\ Time \subseteq Nat
    BY ClockAssumption DEF TrackInv, Time
  <1>2. /\ Len(track) \in 1 .. Len(track) /\ DOMAIN track = 1 .. Len(track)
        /\ track[1].fix \in ShownFixes /\ Latest.fix \in ShownFixes
        /\ ShownFixes \subseteq Nat /\ Latest \in Shown
        /\ \A f \in ShownFixes : track[1].fix <= f /\ f <= Latest.fix
    BY <1>1, HoldsEnds DEF Latest
  <1>3. Nearly(Latest, Base)
    BY <1>1, <1>2 DEF Holds, Latest
  <1>4. Base \in Nat /\ Base <= track[1].fix
    <2> DEFINE f1 == track[1].fix
    <2>1. f1 \in Nat
      BY <1>2
    <2> HIDE DEF f1
    <2>2. Midnight(f1) \in Nat /\ Midnight(f1) <= f1
      BY <2>1, Seconds
    <2> QED BY <2>2 DEF Base, f1
  <1> QED BY <1>1, <1>2, <1>3, <1>4 DEF Shown

(* Seconds and ticks: where an answer begins, which fixes are in it, and    *)
(* why there are none a day later.                                          *)
LEMMA Begins ==
  ASSUME NEW s \in Nat, NEW last \in Nat, NEW day \in Nat, NEW base \in Nat, NEW sec \in Nat,
         base + day <= s, s < base + day + sec
  PROVE  /\ s + (last - day) \in Int
         /\ base + last <= s + (last - day) /\ s + (last - day) < base + last + sec
  OBVIOUS

LEMMA LaterIn ==
  ASSUME NEW f \in Nat, NEW l \in Nat, NEW last \in Nat, NEW base \in Nat, NEW from \in Int,
         NEW sec \in Nat, NEW apart \in Nat, apart + 1 >= sec + sec, sec > 0,
         last <= l - base, from < base + last + sec, l + apart <= f
  PROVE  f >= from
  OBVIOUS

LEMMA LinkIn ==
  ASSUME NEW l \in Nat, NEW last \in Nat, NEW base \in Nat, NEW from \in Int,
         last <= l - base, from < base + last + 1
  PROVE  l >= from
  OBVIOUS

LEMMA EarlierOut ==
  ASSUME NEW f \in Nat, NEW l \in Nat, NEW last \in Nat, NEW base \in Nat,
         NEW sec \in Nat, NEW apart \in Nat, apart + 1 >= sec + sec,
         l - base + 2 <= last + sec + sec, base + last <= f
  PROVE  ~(f + apart <= l)
  OBVIOUS

LEMMA DayLater ==
  ASSUME NEW f \in Nat, NEW l \in Nat, NEW last \in Nat, NEW base \in Nat, NEW later \in Nat,
         NEW sec \in Nat, NEW time \in Nat, NEW age \in Nat, NEW day \in Nat,
         l - base + 2 <= last + sec + sec, later >= base + day, later + last <= f,
         age + sec + sec <= day, time <= l + age, f <= time
  PROVE  FALSE
  OBVIOUS

(* The fixes that are shown are of less than a day, by two seconds. *)
AgeWithinDay == MaxAge + Second + Second <= Day

(* The answer to a request of the page goes on from its last fix, or it is  *)
(* empty when the track has passed midnight.                                *)
LEMMA NextAnswer ==
  ASSUME LiveInv, AgeWithinDay, track # <<>>,
         NEW last, last = Latest.t, NEW kept \in Reduced(Since(last))
  PROVE  /\ Path(kept) \in Seq(Shown) /\ Since(last) \in SUBSET Visible
         /\ Path(kept) # <<>> => GoesOn(Path(kept), Since(last) \ kept)
  <1> DEFINE r == Path(kept)
             l == Latest.fix
             s == First(Visible)
             S == Since(last)
             f1 == track[1].fix
             base == Midnight(s)
             threshold == s + (last - SecondsOfDay(s))
  <1>1. /\ now \in Nat /\ stored \in SUBSET Nat /\ Visible \in SUBSET Nat /\ Visible \subseteq Time
        /\ MaxAge \in Nat /\ Delay \in Nat /\ Day \in Nat /\ Second \in Nat \ {0}
        /\ Apart \in Nat /\ Apart + 1 >= Second + Second
        /\ \A f \in stored : f \in Nat /\ f <= now
        /\ LiveTyped /\ TrackInv /\ Spaced
    BY Fixes DEF LiveInv
  <1> HIDE DEF f1, l, s, base, threshold
  <1>2. /\ \A f \in stored : f < f1 => f < now - MaxAge
        /\ now - MaxAge <= l /\ l <= now - Delay
    BY <1>1 DEF TrackInv, f1, l
  <1>3. /\ f1 \in stored /\ l \in stored /\ f1 <= l /\ f1 \in Nat /\ l \in Nat
        /\ last \in Nat /\ Base \in Nat
    BY <1>1, TrackEnds DEF f1, l
  <1>14. last <= l - Base /\ l - Base + 2 <= last + Second + Second
    BY <1>1, TrackEnds DEF Nearly, l
  <1>15. Second \in Nat \ {0} /\ Apart \in Nat /\ Apart + 1 >= Second + Second
    BY <1>1
  <1>16. MaxAge \in Nat /\ Delay \in Nat /\ now \in Nat /\ Day \in Nat
    BY <1>1
  <1>4. l \in Visible /\ Visible # {}
    BY <1>2, <1>3 DEF Visible
  <1>5. s \in Visible /\ s \in Nat /\ s <= l /\ \A f \in Visible : s <= f
    BY <1>1, <1>4, Earliest DEF s
  <1>6. f1 <= s
    <2>1. s \in stored /\ now - MaxAge <= s
      BY <1>5 DEF Visible
    <2> QED BY <2>1, <1>1, <1>2, <1>3, <1>5
  <1>7. base = Base \/ base >= Base + Day
    BY <1>3, <1>5, <1>6, Midnights DEF Base, base, f1
  <1>8. /\ SecondsOfDay(s) \in Nat /\ base \in Nat /\ base <= s
        /\ base + SecondsOfDay(s) <= s /\ s < base + SecondsOfDay(s) + Second
    BY <1>5, Seconds DEF base
  <1>9. S = {f \in Visible : last # 0 => f >= threshold} /\ S \in SUBSET Visible
    BY DEF Since, s, threshold
  <1>10. /\ threshold \in Int /\ base + last <= threshold
         /\ threshold < base + last + Second
    <2> DEFINE day == SecondsOfDay(s)
    <2>1. day \in Nat /\ base + day <= s /\ s < base + day + Second
      BY <1>8
    <2>2. threshold = s + (last - day)
      BY DEF threshold
    <2> HIDE DEF day
    <2> QED BY <2>1, <2>2, <1>3, <1>5, <1>8, <1>15, Begins
  <1>11. /\ r \in Seq(Shown) /\ Holds(r, kept, base)
         /\ kept \in SUBSET S
         /\ S # {} => /\ First(S) \in kept /\ Newest(S) \in kept
                      /\ \A f \in S : First(S) <= f /\ f <= Newest(S)
    <2>1. /\ kept \in SUBSET S
          /\ S # {} => /\ First(S) \in kept /\ Newest(S) \in kept
                       /\ \A f \in S : First(S) <= f /\ f <= Newest(S)
      BY <1>1, <1>9, Kept
    <2>2. kept \in SUBSET Visible
      BY <2>1, <1>9
    <2>3. r \in Seq(Shown) /\ Holds(r, kept, base)
      BY <2>2, <1>1, PathHolds DEF Holds, s, base
    <2> QED BY <2>1, <2>3
  <1>17. base \in Nat /\ base <= s
    BY <1>8
  <1> HIDE DEF S, r
  <1>12. CASE base = Base
    <2>1. ASSUME NEW f \in Visible, f > l PROVE f \in S
      <3>1. f \in Nat /\ l + Apart <= f
        BY <2>1, <1>1, <1>3 DEF Visible, Spaced
      <3>2. f >= threshold
        BY <3>1, <1>3, <1>10, <1>12, <1>14, <1>15, LaterIn
      <3> QED BY <3>2, <1>9
    <2>2. ASSUME NEW f \in S PROVE l <= f
      <3>1. f \in Visible /\ f \in Nat /\ s <= f /\ (last # 0 => f >= threshold)
        BY <1>1, <1>5, <1>9
      <3>2. f < l => f + Apart <= l
        BY <3>1, <1>1, <1>3 DEF Visible, Spaced
      <3>3. CASE last # 0
        <4>1. base + last <= f
          BY <3>1, <3>3, <1>3, <1>10, <1>17
        <4>2. ~(f + Apart <= l)
          BY <4>1, <3>1, <1>3, <1>12, <1>14, <1>15, EarlierOut
        <4> QED BY <4>2, <3>1, <3>2, <1>3
      <3>4. CASE last = 0
        <4>1. base + last <= f
          BY <3>1, <3>4, <1>5, <1>17
        <4>2. ~(f + Apart <= l)
          BY <4>1, <3>1, <1>3, <1>12, <1>14, <1>15, EarlierOut
        <4> QED BY <4>2, <3>1, <3>2, <1>3
      <3> QED BY <3>3, <3>4
    <2>3. Second = 1 => l \in S
      <3> SUFFICES ASSUME Second = 1 PROVE l \in S
        OBVIOUS
      <3>1. l >= threshold
        BY <1>3, <1>17, <1>10, <1>12, <1>14, LinkIn
      <3> QED BY <3>1, <1>4, <1>9
    <2> SUFFICES ASSUME r # <<>> PROVE GoesOn(r, S \ kept)
      BY <1>9, <1>11 DEF r, S
    <2>4. /\ r[1].fix \in kept /\ r[Len(r)].fix \in kept /\ FixesOf(r) = kept
          /\ \A f \in kept : r[1].fix <= f /\ f <= r[Len(r)].fix
      <3>1. Time \subseteq Nat
        BY ClockAssumption DEF Time
      <3> QED BY <3>1, <1>11, HoldsEnds, HoldsFixes
    <2>5. /\ r[1].fix \in Nat /\ r[Len(r)].fix \in Nat /\ S \subseteq Nat
          /\ \A f \in S : r[1].fix <= f /\ f <= r[Len(r)].fix
      <3>1. S \subseteq Nat /\ kept \subseteq Nat
        BY <1>1, <1>9, <1>11
      <3>2. S # {}
        BY <2>4, <1>11
      <3>3. /\ r[1].fix <= First(S) /\ Newest(S) <= r[Len(r)].fix
            /\ First(S) \in Nat /\ Newest(S) \in Nat
        BY <2>4, <3>1, <3>2, <1>11
      <3>4. \A f \in S : r[1].fix <= f /\ f <= r[Len(r)].fix
        <4> SUFFICES ASSUME NEW f \in S PROVE r[1].fix <= f /\ f <= r[Len(r)].fix
          OBVIOUS
        <4> DEFINE x == r[1].fix
                   y == r[Len(r)].fix
                   v == First(S)
                   w == Newest(S)
        <4>1. /\ x \in Nat /\ y \in Nat /\ v \in Nat /\ w \in Nat /\ f \in Nat
              /\ x <= v /\ v <= f /\ f <= w /\ w <= y
          BY <2>4, <3>1, <3>2, <3>3, <1>11
        <4> HIDE DEF x, y, v, w
        <4>2. x <= f /\ f <= y
          BY <4>1
        <4> QED BY <4>2 DEF x, y
      <3> QED BY <2>4, <3>1, <3>4
    <2>6. \A f \in S : now - MaxAge <= f /\ f <= now - Delay /\ f \in stored
      BY <1>9 DEF Visible
    <2>7. r[Len(r)].fix \in S /\ r[Len(r)].fix <= now - Delay
      BY <2>4, <2>6, <1>11
    <2>8. \A f \in FixesOf(r) : f \in stored /\ l <= f
      BY <2>2, <2>4, <2>6, <1>11
    <2>9. Second = 1 => r[1].fix = l
      <3> SUFFICES ASSUME Second = 1 PROVE r[1].fix = l
        OBVIOUS
      <3>1. r[1].fix <= l /\ l <= r[1].fix
        BY <2>2, <2>3, <2>4, <2>5, <1>11
      <3> DEFINE x == r[1].fix
      <3>2. x <= l /\ l <= x /\ x \in Nat /\ l \in Nat
        BY <3>1, <2>5, <1>3
      <3> HIDE DEF x
      <3>3. x = l
        BY <3>2
      <3> QED BY <3>3 DEF x
    <2>10. ASSUME NEW f \in stored, l < f, f <= r[Len(r)].fix
           PROVE  f \in FixesOf(r) \/ (f \in S \ kept /\ r[1].fix < f)
      <3>1. f \in Nat
        BY <1>1
      <3>2. now - MaxAge <= f /\ f <= now - Delay
        <4> DEFINE y == r[Len(r)].fix
        <4>1. /\ y \in Nat /\ l \in Nat /\ f <= y /\ y <= now - Delay /\ l < f
              /\ now - MaxAge <= l
          BY <2>5, <2>7, <2>10, <1>2, <1>3
        <4> HIDE DEF y
        <4> QED BY <4>1, <3>1, <1>16
      <3>3. f \in S
        BY <2>1, <2>10, <3>1, <3>2, <1>3 DEF Visible
      <3>4. f \notin kept => r[1].fix < f
        BY <2>4, <2>5, <3>1, <3>3
      <3> QED BY <2>4, <3>3, <3>4
    <2>11. Holds(r, FixesOf(r), Base)
      BY <2>4, <1>11, <1>12
    <2> QED BY <2>7, <2>8, <2>9, <2>10, <2>11 DEF GoesOn, l
  <1>13. CASE base >= Base + Day
    <2>1. ASSUME NEW f \in S PROVE FALSE
      <3>1. f \in Visible /\ f \in Nat /\ f <= now /\ s <= f /\ (last # 0 => f >= threshold)
        BY <1>1, <1>5, <1>9 DEF Visible
      <3>2. base + last <= f
        BY <3>1, <1>3, <1>5, <1>10, <1>17
      <3>3. now <= l + MaxAge
        BY <1>2, <1>3, <1>16
      <3> QED BY <3>1, <3>2, <3>3, <1>3, <1>13, <1>14, <1>15, <1>16, <1>17, DayLater
              DEF AgeWithinDay
    <2>2. r = <<>>
      <3>1. S = {}
        BY <2>1
      <3>2. DOMAIN r = {}
        BY <3>1, <1>11 DEF Holds
      <3> QED BY <3>2, <1>11
    <2> QED BY <2>2, <1>9, <1>11 DEF r, S
  <1> QED BY <1>7, <1>12, <1>13

(* Steps that change neither the track nor its fixes keep what it holds.    *)
LEMMA TrackKept ==
  ASSUME LiveTyped, TrackInv, track' = track, thinned' = thinned,
         now \in Nat, now' \in {now, now + 1},
         track # <<>> => now' - MaxAge <= Latest.fix,
         stored' = stored
         \/ (\E f : stored' = stored \union {f} /\ f \in Nat /\ \A g \in stored : g < f)
  PROVE  /\ TrackInv' /\ stored \subseteq stored'
         /\ Latest' = Latest /\ Base' = Base
         /\ track # <<>> =>
              /\ Latest.fix \in stored
              /\ \A l \in stored : \A f \in stored' : f <= l => f \in stored
  <1>1. Latest' = Latest /\ Base' = Base /\ ShownFixes' = ShownFixes
    BY DEF Latest, Base, Midnight, ShownFixes
  <1>2. /\ Time \subseteq Nat /\ MaxAge \in Nat /\ Delay \in Nat /\ \A g \in stored : g \in Nat
        /\ now' \in Nat /\ now' >= now /\ stored \subseteq stored'
    BY Fixes, ClockAssumption DEF Time
  <1> SUFFICES ASSUME track # <<>>
               PROVE  /\ TrackInv'
                      /\ Latest.fix \in stored
                      /\ \A l \in stored : \A f \in stored' : f <= l => f \in stored
    BY <1>1, <1>2 DEF TrackInv
  <1>3. /\ Holds(track, ShownFixes, Base) /\ ShownFixes \subseteq stored
        /\ Second = 1 => Missing = {}
        /\ \A f, g \in Missing : f < g => \E h \in ShownFixes : f < h /\ h < g
        /\ \A f \in stored : f < track[1].fix => f < now - MaxAge
        /\ Latest.fix <= now - Delay
    BY DEF TrackInv
  <1>4. /\ track[1].fix \in stored /\ Latest.fix \in stored
        /\ track[1].fix \in Nat /\ Latest.fix \in Nat /\ track[1].fix <= Latest.fix
    BY TrackEnds
  <1>5. ASSUME NEW l \in stored, NEW f \in stored', f <= l
        PROVE  f \in stored
    <2>1. CASE stored' = stored
      BY <2>1
    <2>2. ASSUME NEW g \in Nat, stored' = stored \union {g}, \A h \in stored : h < g
          PROVE  f \in stored
      <3>1. ~(g <= l)
        BY <2>2, <1>2
      <3> QED BY <3>1, <2>2, <1>5
    <2> QED BY <2>1, <2>2
  <1>6. Missing' = Missing
    <2>1. ASSUME NEW f PROVE f \in Missing' <=> f \in Missing
      <3>1. f \in stored' /\ f < Latest.fix => f \in stored
        <4>1. f \in stored' => f \in Nat
          BY <1>2
        <4> QED BY <4>1, <1>4, <1>5
      <3> QED BY <3>1, <1>1, <1>2 DEF Missing
    <2> QED BY <2>1 DEF Missing
  <1>7. ASSUME NEW f \in stored', f < track[1].fix PROVE f < now' - MaxAge
    <2>1. f \in Nat
      BY <1>2
    <2>2. f \in stored
      BY <2>1, <1>4, <1>5, <1>7
    <2>3. f < now - MaxAge
      BY <2>2, <1>3, <1>7
    <2>4. \A x, y, z, w \in Int : x < y - w /\ y <= z => x < z - w
      OBVIOUS
    <2>5. f \in Int /\ now \in Int /\ now' \in Int /\ MaxAge \in Int /\ now <= now'
      BY <2>1, <1>2
    <2> QED BY <2>3, <2>4, <2>5, Zenon
  <1>8. Latest.fix <= now' - Delay
    BY <1>2, <1>3, <1>4
  <1>9. Holds(track', ShownFixes', Base') /\ ShownFixes' \subseteq stored'
    BY <1>1, <1>2, <1>3
  <1> QED BY <1>1, <1>3, <1>4, <1>5, <1>6, <1>7, <1>8, <1>9 DEF TrackInv

(* And what the answers hold. *)
LEMMA PollsKept ==
  ASSUME LiveTyped, TrackInv, PollInv, TrackInv', poll' = poll,
         track' = track, now \in Nat, now' \in {now, now + 1},
         Latest' = Latest, Base' = Base, stored \subseteq stored',
         track # <<>> => \A l \in stored : \A f \in stored' : f <= l => f \in stored
  PROVE  PollInv'
  <1>1. Time \subseteq Nat /\ Delay \in Nat /\ \A g \in stored : g \in Nat
    BY Fixes, ClockAssumption DEF Time
  <1>2. ASSUME NEW p \in Polls, poll[p].state = "answered", poll[p].reply # <<>>
        PROVE  GoesOn(poll[p].reply, poll[p].left)'
    <2> DEFINE r == poll[p].reply
               left == poll[p].left
    <2>1. GoesOn(r, left) /\ track # <<>>
      BY <1>2 DEF PollInv
    <2>2. r' = r /\ left' = left
      OBVIOUS
    <2> HIDE DEF r, left
    <2>3. r # <<>> /\ Holds(r, FixesOf(r), Base)
      BY <2>1, <1>2 DEF GoesOn, r
    <2>4. r[Len(r)].fix \in FixesOf(r)
      BY <2>3, <1>1, HoldsEnds
    <2>5. r[Len(r)].fix \in stored /\ r[Len(r)].fix \in Nat /\ r[Len(r)].fix <= now - Delay
      BY <2>1, <2>4, <1>1 DEF GoesOn
    <2>6. r[Len(r)].fix <= now' - Delay
      <3> DEFINE x == r[Len(r)].fix
      <3>1. x \in Nat /\ x <= now - Delay
        BY <2>5
      <3> HIDE DEF x
      <3>2. x <= now' - Delay
        <4>1. \A y, z, w \in Int : x <= y - w /\ y <= z => x <= z - w
          BY <3>1
        <4>2. now \in Int /\ now' \in Int /\ Delay \in Int /\ now <= now'
          BY <1>1
        <4> QED BY <3>1, <4>1, <4>2, Zenon
      <3> QED BY <3>2 DEF x
    <2>7. \A f \in stored' : f <= r[Len(r)].fix => f \in stored
      BY <2>1, <2>5
    <2>8. (FixesOf(r))' = FixesOf(r)
      BY <2>2 DEF FixesOf
    <2>9. \A f \in FixesOf(r) : f \in stored' /\ Latest'.fix <= f
      BY <2>1 DEF GoesOn
    <2>10. \A f \in stored' : Latest'.fix < f /\ f <= r[Len(r)].fix =>
             f \in FixesOf(r) \/ (f \in left /\ r[1].fix < f)
      BY <2>1, <2>7 DEF GoesOn
    <2>11. Holds(r, FixesOf(r), Base') /\ (Second = 1 => r[1].fix = Latest'.fix)
      BY <2>1 DEF GoesOn
    <2> QED BY <2>2, <2>6, <2>8, <2>9, <2>10, <2>11 DEF GoesOn, r, left
  <1> QED BY <1>2 DEF PollInv

LEMMA LiveInvStep ==
  ASSUME LiveInv, [Next]_vars, Ordered, Steady, Pending <= 1, AgeWithinDay
  PROVE  LiveInv'
  <1>0. /\ now \in Nat /\ stored \in SUBSET Nat /\ MaxAge \in Nat /\ Delay \in Nat
        /\ Time \subseteq Nat /\ LiveTyped /\ Spaced /\ Arriving /\ TrackInv /\ PollInv
        /\ \A f \in stored : f \in Nat /\ f <= now
        /\ \A f \in air : f \in Nat /\ f <= now
        /\ End \in Nat /\ now \in Start .. End /\ Start \in Nat /\ Start <= now
        /\ Apart \in Nat \ {0}
    <2>1. Apart \in Nat /\ Apart + 1 >= Second + Second /\ Second \in Nat \ {0}
      BY Fixes DEF LiveInv
    <2>2. Apart # 0
      BY <2>1
    <2> QED BY <2>1, <2>2, Fixes, ClockAssumption DEF LiveInv, LiveTyped, Time
  <1>11. track # <<>> => now - MaxAge <= Latest.fix
    BY <1>0 DEF TrackInv
  <1>1. ASSUME Tick PROVE LiveInv'
    <2>1. /\ now' = now + 1 /\ now < End /\ track' = track /\ air' = air /\ stored' = stored
          /\ thinned' = thinned /\ poll' = poll
          /\ (track # <<>> => now' - MaxAge <= Latest.fix)
      BY <1>1, <1>0, <1>11 DEF Tick
    <2>2. LiveTyped'
      <3>1. now' \in Time /\ Start .. now \subseteq Start .. now'
        BY <2>1, <1>0 DEF Time
      <3> QED BY <2>1, <3>1, <1>0 DEF LiveTyped
    <2>3. Arriving' /\ Spaced'
      BY <2>1, <1>0 DEF Arriving, Spaced
    <2>4. TrackInv' /\ PollInv'
      BY <2>1, <1>0, TrackKept, PollsKept
    <2> QED BY <2>2, <2>3, <2>4 DEF LiveInv
  <1>2. ASSUME Record PROVE LiveInv'
    <2>1. /\ air' = air \union {now} /\ now' = now /\ stored' = stored
          /\ track' = track /\ thinned' = thinned /\ poll' = poll
          /\ \A f \in air \union stored : f + Apart <= now
      BY <1>2 DEF Record
    <2>2. LiveTyped'
      <3>1. now \in Start .. now
        BY <1>0
      <3>2. air \union {now} \subseteq Start .. now
        BY <3>1, <1>0 DEF LiveTyped
      <3> QED BY <2>1, <3>2, <1>0 DEF LiveTyped
    <2>3. Arriving' /\ Spaced'
      <3>1. \A f \in air \union stored : f \in Nat /\ f < now
        <4>1. \A f \in air \union stored : f \in Nat /\ f + Apart <= now
          BY <2>1, <1>0
        <4> QED BY <4>1, <1>0
      <3>2. Spaced'
        <4> SUFFICES ASSUME NEW f \in (air \union {now}) \union stored,
                            NEW g \in (air \union {now}) \union stored, f < g
                     PROVE  f + Apart <= g
          BY <2>1 DEF Spaced
        <4>1. CASE f \in air \union stored /\ g \in air \union stored
          BY <4>1, <1>0 DEF Spaced
        <4>2. CASE f \in air \union stored /\ g = now
          BY <4>2, <2>1
        <4>3. CASE f = now
          BY <4>3, <3>1, <1>0
        <4> QED BY <4>1, <4>2, <4>3
      <3> QED BY <2>1, <3>1, <3>2, <1>0 DEF Arriving
    <2>4. TrackInv' /\ PollInv'
      BY <2>1, <1>0, <1>11, TrackKept, PollsKept
    <2> QED BY <2>2, <2>3, <2>4 DEF LiveInv
  <1>3. ASSUME Store PROVE LiveInv'
    <2>1. PICK f \in air : /\ \A g \in air : f <= g
                           /\ air' = air \ {f} /\ stored' = stored \union {f}
                           /\ now' = now /\ track' = track /\ thinned' = thinned /\ poll' = poll
      BY <1>3 DEF Store
    <2>2. f \in Start .. now /\ f \in Nat /\ \A g \in stored : g < f
      BY <1>0 DEF LiveTyped, Arriving
    <2>3. LiveTyped'
      BY <2>1, <2>2, <1>0 DEF LiveTyped
    <2>4. Arriving' /\ Spaced'
      <3>1. ASSUME NEW g \in air \ {f} PROVE f < g
        <4>1. g \in Nat /\ f <= g /\ f # g
          BY <2>1, <1>0
        <4> QED BY <4>1, <2>2
      <3>2. Spaced'
        BY <2>1, <1>0 DEF Spaced
      <3> QED BY <2>1, <3>1, <3>2, <1>0 DEF Arriving
    <2>5. TrackInv' /\ PollInv'
      BY <2>1, <2>2, <1>0, <1>11, TrackKept, PollsKept
    <2> QED BY <2>3, <2>4, <2>5 DEF LiveInv
  <1>4. ASSUME Lose PROVE LiveInv'
    <2>1. PICK f \in air : /\ air' = air \ {f} /\ now' = now /\ stored' = stored
                           /\ track' = track /\ thinned' = thinned /\ poll' = poll
      BY <1>4 DEF Lose
    <2>2. LiveTyped' /\ Arriving' /\ Spaced'
      BY <2>1, <1>0 DEF LiveTyped, Arriving, Spaced
    <2>3. TrackInv' /\ PollInv'
      BY <2>1, <1>0, <1>11, TrackKept, PollsKept
    <2> QED BY <2>2, <2>3 DEF LiveInv
  <1>5. ASSUME Load PROVE LiveInv'
    <2>1. PICK kept \in Reduced(Visible) :
            /\ track = <<>> /\ Visible # {} /\ track' = Path(kept) /\ thinned' = Visible \ kept
            /\ now' = now /\ air' = air /\ stored' = stored /\ poll' = poll
      BY <1>5 DEF Load
    <2> DEFINE r == Path(kept)
               s == First(Visible)
               f1 == r[1].fix
               l == r[Len(r)].fix
    <2>2. /\ kept \in SUBSET Visible /\ s \in kept /\ Newest(Visible) \in kept
          /\ \A f \in Visible : s <= f /\ f <= Newest(Visible)
          /\ Visible \in SUBSET Nat
      BY <2>1, <1>0, Kept, Fixes
    <2>3. Holds(r, kept, Midnight(s))
      BY <2>2, <1>0, PathHolds
    <2>4. r # <<>>
      <3>1. \E i \in DOMAIN r : r[i].fix = s
        BY <2>2, <2>3 DEF Holds
      <3> QED BY <3>1
    <2>5. f1 \in kept /\ l \in kept /\ \A f \in kept : f1 <= f /\ f <= l
      <3> HIDE DEF r
      <3> QED BY <2>3, <2>4, <1>0, HoldsEnds
    <2>6. FixesOf(r) = kept
      BY <2>3, HoldsFixes
    <2> HIDE DEF r, s, f1, l
    <2>7. f1 = s /\ f1 \in Nat /\ l \in Nat
      <3>1. s <= f1 /\ f1 <= s /\ s \in Nat /\ f1 \in Nat /\ l \in Nat
        BY <2>2, <2>5
      <3> QED BY <3>1
    <2>8. \A f \in Visible : f1 <= f /\ f <= l
      <3> SUFFICES ASSUME NEW f \in Visible PROVE f1 <= f /\ f <= l
        OBVIOUS
      <3> DEFINE w == Newest(Visible)
      <3>1. f \in Nat /\ w \in Nat /\ s <= f /\ f <= w /\ w <= l
        BY <2>2, <2>5
      <3> HIDE DEF w
      <3> QED BY <3>1, <2>7
    <2>9. \A f \in Visible : f \in stored /\ now - MaxAge <= f /\ f <= now - Delay
      BY DEF Visible
    <2>10. Latest' = r[Len(r)] /\ track'[1].fix = f1 /\ Base' = Midnight(s)
           /\ ShownFixes' = kept /\ track' # <<>>
      <3>1. track' = r
        BY <2>1 DEF r
      <3> QED BY <3>1, <2>4, <2>6, <2>7 DEF Latest, Base, ShownFixes, FixesOf, f1, Midnight
    <2>11. Latest'.fix = l
      BY <2>10 DEF l
    <2>12. Missing' = {}
      <3> SUFFICES ASSUME NEW f \in Missing' PROVE FALSE
        OBVIOUS
      <3>1. /\ f \in stored /\ f \notin kept /\ f \notin thinned' /\ f1 < f /\ f < l /\ f \in Nat
        BY <2>1, <2>10, <2>11, <1>0 DEF Missing
      <3>2. now - MaxAge <= f /\ f <= now - Delay
        <4>1. now - MaxAge <= f1 /\ l <= now - Delay
          BY <2>2, <2>5, <2>9
        <4> QED BY <4>1, <3>1, <2>7, <1>0
      <3>3. f \in Visible
        BY <3>1, <3>2 DEF Visible
      <3> QED BY <2>1, <3>1, <3>3
    <2>13. ASSUME NEW f \in stored, f < f1 PROVE f < now - MaxAge
      <3>1. f \in Nat /\ f1 <= now - Delay
        BY <1>0, <2>2, <2>5, <2>9
      <3>2. f \notin Visible
        BY <2>8, <2>7, <2>13, <3>1
      <3>3. f <= now - Delay
        BY <3>1, <2>7, <2>13, <1>0
      <3>4. ~(now - MaxAge <= f)
        BY <3>2, <3>3 DEF Visible
      <3> QED BY <3>1, <3>4, <1>0
    <2>14. TrackInv'
      <3>1. now - MaxAge <= l /\ l <= now - Delay
        BY <2>2, <2>5, <2>9
      <3>2. Holds(track', ShownFixes', Base') /\ ShownFixes' \subseteq stored'
        BY <2>1, <2>2, <2>3, <2>9, <2>10 DEF r
      <3>3. \A f \in stored' : f < track'[1].fix => f < now' - MaxAge
        BY <2>1, <2>10, <2>13
      <3> QED BY <2>1, <2>11, <2>12, <3>1, <3>2, <3>3 DEF TrackInv
    <2>15. LiveTyped' /\ Arriving' /\ Spaced'
      <3>1. r \in Seq(Shown)
        BY <2>3 DEF Holds
      <3> QED BY <2>1, <3>1, <1>0 DEF LiveTyped, Arriving, Spaced, r
    <2>16. PollInv'
      <3>1. \A p \in Polls : poll[p].state = "idle"
        BY <2>1, <1>0 DEF PollInv
      <3> QED BY <2>1, <3>1 DEF PollInv
    <2> QED BY <2>14, <2>15, <2>16 DEF LiveInv
  <1>6. ASSUME NEW p \in Polls, Ask(p) PROVE LiveInv'
    <2> DEFINE Busy == {q \in Polls : poll[q].state # "idle"}
               asked == [state |-> "asked", last |-> Latest.t, reply |-> <<>>, left |-> {}]
    <2>1. /\ track # <<>> /\ poll[p].state = "idle" /\ Cardinality(Busy) < Pending
          /\ poll' = [poll EXCEPT ![p] = asked]
          /\ now' = now /\ air' = air /\ stored' = stored /\ track' = track /\ thinned' = thinned
      BY <1>6 DEF Ask
    <2>2. \A q \in Polls : poll[q].state = "idle"
      <3>1. IsFiniteSet(Busy)
        <4>1. CASE Busy = {}
          BY <4>1, FS_EmptySet
        <4>2. CASE Busy # {}
          <5>1. PICK q \in Busy : Busy = {q}
            BY <4>2, <1>0 DEF PollInv
          <5> QED BY <5>1, FS_Singleton
        <4> QED BY <4>1, <4>2
      <3> HIDE DEF Busy
      <3>2. Cardinality(Busy) = 0
        BY <3>1, <2>1, FS_CardinalityType, PagesAssumption
      <3>3. Busy = {}
        BY <3>1, <3>2, FS_EmptySet
      <3> QED BY <3>3 DEF Busy
    <2>3. asked \in Request
      <3>1. Latest.t \in Nat
        BY <2>1, <1>0, TrackEnds
      <3> QED BY <3>1 DEF Request
    <2>4. LiveTyped' /\ Arriving' /\ Spaced'
      BY <2>1, <2>3, <1>0 DEF LiveTyped, Arriving, Spaced
    <2>5. TrackInv' /\ Latest' = Latest
      BY <2>1, <1>0, <1>11, TrackKept
    <2>6. \A q \in Polls : poll'[q] = IF q = p THEN asked ELSE poll[q]
      BY <2>1, <1>0 DEF LiveTyped
    <2>7. PollInv'
      BY <2>1, <2>2, <2>5, <2>6 DEF PollInv
    <2> QED BY <2>4, <2>5, <2>7 DEF LiveInv
  <1>7. ASSUME NEW p \in Polls, Answer(p) PROVE LiveInv'
    <2> DEFINE last == poll[p].last
    <2>1. PICK kept \in Reduced(Since(last)) :
          /\ poll[p].state = "asked"
          /\ poll' = [poll EXCEPT ![p] = [state |-> "answered", last |-> last,
                                          reply |-> Path(kept), left |-> Since(last) \ kept]]
          /\ now' = now /\ air' = air /\ stored' = stored /\ track' = track /\ thinned' = thinned
      BY <1>7 DEF Answer
    <2> DEFINE r == Path(kept)
               left == Since(last) \ kept
               answered == [state |-> "answered", last |-> last, reply |-> r, left |-> left]
    <2>2. track # <<>> /\ last = Latest.t
      BY <2>1, <1>0 DEF PollInv
    <2>3. /\ r \in Seq(Shown) /\ left \in SUBSET Time
          /\ r # <<>> => GoesOn(r, left)
      <3>1. /\ r \in Seq(Shown) /\ Since(last) \in SUBSET Visible
            /\ r # <<>> => GoesOn(r, left)
        <4> HIDE DEF last
        <4> QED BY <2>2, NextAnswer
      <3>2. Visible \subseteq Time
        BY <1>0, Fixes
      <3> QED BY <3>1, <3>2
    <2>4. TrackInv' /\ Latest' = Latest /\ Base' = Base
      BY <2>1, <1>0, <1>11, TrackKept
    <2>5. poll[p].last \in Nat /\ poll \in [Polls -> Request]
      BY <1>0 DEF LiveTyped, Request
    <2>6. poll' = [poll EXCEPT ![p] = answered]
      BY <2>1
    <2> HIDE DEF r, left
    <2>7. /\ \A q \in Polls : poll'[q] = IF q = p THEN answered ELSE poll[q]
          /\ answered \in Request
      BY <2>3, <2>5, <2>6 DEF Request
    <2>8. LiveTyped' /\ Arriving' /\ Spaced'
      <3> HIDE DEF answered
      <3> QED BY <2>1, <2>6, <2>7, <1>0 DEF LiveTyped, Arriving, Spaced
    <2>9. PollInv'
      <3>1. \A q \in Polls : q # p => poll[q].state = "idle" /\ poll'[q].state = "idle"
        BY <2>1, <2>7, <1>0 DEF PollInv
      <3>2. poll'[p].state = "answered" /\ poll'[p].reply = r /\ poll'[p].left = left
        BY <2>7
      <3>3. r # <<>> => GoesOn(poll[p].reply, poll[p].left)'
        <4> SUFFICES ASSUME r # <<>> PROVE GoesOn(poll[p].reply, poll[p].left)'
          OBVIOUS
        <4>1. GoesOn(r, left)
          BY <2>3
        <4>2. (FixesOf(poll[p].reply))' = FixesOf(r)
          BY <3>2 DEF FixesOf
        <4> QED BY <4>1, <4>2, <3>2, <2>1, <2>4 DEF GoesOn
      <3>4. track' # <<>>
        BY <2>1, <2>2
      <3> QED BY <3>1, <3>2, <3>3, <3>4 DEF PollInv
    <2> QED BY <2>4, <2>8, <2>9 DEF LiveInv
  <1>8. ASSUME NEW p \in Polls, Drop(p) PROVE LiveInv'
    <2>1. /\ poll' = [poll EXCEPT ![p] = Idle]
          /\ now' = now /\ air' = air /\ stored' = stored /\ track' = track /\ thinned' = thinned
      BY <1>8 DEF Drop
    <2>2. TrackInv' /\ Latest' = Latest /\ Base' = Base
      BY <2>1, <1>0, <1>11, TrackKept
    <2>3. LiveTyped' /\ Arriving' /\ Spaced'
      BY <2>1, <1>0 DEF LiveTyped, Arriving, Spaced, Idle, Request
    <2>4. \A q \in Polls : poll'[q] = IF q = p THEN Idle ELSE poll[q]
      BY <2>1, <1>0 DEF LiveTyped
    <2>5. \A q \in Polls : poll[q].state = "answered" /\ poll[q].reply # <<>> =>
            GoesOn(poll[q].reply, poll[q].left)
      BY <1>0 DEF PollInv
    <2>6. \A q \in Polls : poll'[q].state = "answered" => q # p /\ poll'[q] = poll[q]
      BY <2>4 DEF Idle
    <2>7. ASSUME NEW q \in Polls, poll'[q].state = "answered", poll'[q].reply # <<>>
          PROVE  GoesOn(poll[q].reply, poll[q].left)'
      <3>1. poll'[q] = poll[q] /\ GoesOn(poll[q].reply, poll[q].left)
        BY <2>5, <2>6, <2>7
      <3>2. (FixesOf(poll[q].reply))' = FixesOf(poll[q].reply)
        BY <3>1 DEF FixesOf
      <3> QED BY <3>1, <3>2, <2>1, <2>2 DEF GoesOn
    <2>8. PollInv'
      BY <2>1, <2>2, <2>4, <2>7, <1>0 DEF PollInv, Idle
    <2> QED BY <2>2, <2>3, <2>8 DEF LiveInv
  <1>9. ASSUME NEW p \in Polls, Update(p) PROVE LiveInv'
    <2> DEFINE r == poll[p].reply
               left == poll[p].left
               l == Latest.fix
    <2>1. /\ poll[p].state = "answered" /\ poll' = [poll EXCEPT ![p] = Idle]
          /\ now' = now /\ air' = air /\ stored' = stored
          /\ IF Len(r) < 2 THEN track' = track /\ thinned' = thinned
             ELSE track' = track \o Tail(r) /\ thinned' = thinned \union left
      BY <1>9 DEF Update
    <2>2. \A q \in Polls : poll'[q].state = "idle"
      <3>1. \A q \in Polls : poll'[q] = IF q = p THEN Idle ELSE poll[q]
        BY <2>1, <1>0 DEF LiveTyped
      <3>2. \A q \in Polls : q # p => poll[q].state = "idle"
        BY <2>1, <1>0 DEF PollInv
      <3> QED BY <3>1, <3>2 DEF Idle
    <2>3. PollInv'
      BY <2>2 DEF PollInv
    <2>4. air' \subseteq Start .. now' /\ Arriving' /\ Spaced' /\ poll' \in [Polls -> Request]
      BY <2>1, <1>0 DEF LiveTyped, Arriving, Spaced, Idle, Request
    <2>5. track # <<>> /\ r \in Seq(Shown)
      BY <2>1, <1>0 DEF PollInv, LiveTyped, Request
    <2>6. CASE Len(r) < 2
      <3>1. TrackInv'
        BY <2>1, <2>6, <1>0, <1>11, TrackKept
      <3> QED BY <2>1, <2>3, <2>4, <2>6, <3>1, <1>0 DEF LiveInv, LiveTyped
    <2>7. CASE ~(Len(r) < 2)
      <3> DEFINE u == track \o Tail(r)
                 g == r[1].fix
                 S == ShownFixes
                 R == FixesOf(r)
                 f1 == track[1].fix
                 last == r[Len(r)].fix
      <3>1. Len(r) > 1 /\ r # <<>>
        BY <2>5, <2>7
      <3>2. GoesOn(r, left)
        BY <2>1, <3>1, <1>0 DEF PollInv
      <3> HIDE DEF r, left
      <3>3. /\ Holds(r, R, Base)
            /\ \A f \in R : f \in stored /\ l <= f
            /\ Second = 1 => g = l
            /\ \A f \in stored : l < f /\ f <= last => f \in R \/ (f \in left /\ g < f)
            /\ last <= now - Delay
        BY <3>2 DEF GoesOn
      <3>4. /\ g \in R /\ last \in R /\ R \subseteq Nat
            /\ \A f \in R : g <= f /\ f <= last
        BY <3>1, <3>3, <1>0, HoldsEnds
      <3>5. Holds(track, S, Base) /\ S \subseteq stored
        BY <2>5, <1>0 DEF TrackInv
      <3>6. /\ l = track[Len(track)].fix /\ l \in S /\ l \in Nat /\ S \subseteq Nat
            /\ f1 \in Nat /\ f1 <= l /\ f1 \in S
            /\ \A f \in S : f1 <= f /\ f <= l
        BY <2>5, <1>0, TrackEnds DEF Latest
      <3>7. l <= g /\ g <= last /\ g \in Nat /\ last \in Nat /\ g \in stored
        BY <3>3, <3>4
      <3> HIDE DEF S, R
      <3>8. /\ Holds(u, S \union (R \ {g}), Base)
            /\ u[Len(u)] = r[Len(r)] /\ u[1] = track[1] /\ u # <<>>
        <4>1. track[Len(track)].fix <= r[1].fix
          BY <3>6, <3>7
        <4> QED BY <4>1, <2>5, <3>1, <3>3, <3>5, <1>0, HoldsJoined
      <3>9. track' = u /\ thinned' = thinned \union left
        BY <2>1, <2>7, <3>1 DEF r, left
      <3> HIDE DEF u, g, f1, last, l
      <3>10. /\ Latest' = r[Len(r)] /\ track'[1].fix = f1 /\ Base' = Base /\ track' # <<>>
             /\ Latest'.fix = last
        BY <3>8, <3>9 DEF Latest, Base, f1, last, Midnight
      <3>11. ShownFixes' = S \union (R \ {g})
        <4>1. FixesOf(u) = S \union (R \ {g})
          BY <3>8, HoldsFixes
        <4> QED BY <4>1, <3>9 DEF ShownFixes, FixesOf
      <3>12. /\ Second = 1 => Missing = {}
             /\ \A f, h \in Missing : f < h => \E x \in S : f < x /\ x < h
             /\ \A f \in stored : f < f1 => f < now - MaxAge
        BY <2>5, <1>0 DEF TrackInv, S, f1
      <3>13. ASSUME NEW f \in Missing'
             PROVE  /\ f \in Nat /\ f \in stored /\ f1 < f
                    /\ (f \in Missing /\ f < l) \/ (f = g /\ l < g)
        <4>1. /\ f \in stored /\ f \in Nat /\ f \notin S /\ (f \in R => f = g)
              /\ f \notin thinned /\ f \notin left /\ f1 < f /\ f < last
          BY <2>1, <3>9, <3>10, <3>11, <1>0 DEF Missing
        <4>2. CASE f < l
          <5>1. f \in Missing
            BY <4>1, <4>2 DEF Missing, S, f1, l
          <5> QED BY <4>1, <4>2, <5>1
        <4>3. CASE f = l
          BY <4>1, <4>3, <3>6
        <4>4. CASE l < f
          <5>1. f \in R \/ f \in left
            BY <4>1, <4>4, <3>3, <3>7
          <5> QED BY <4>1, <4>4, <5>1
        <4> QED BY <4>1, <4>2, <4>3, <4>4, <3>6
      <3>14. Second = 1 => Missing' = {}
        <4> SUFFICES ASSUME Second = 1, NEW f \in Missing' PROVE FALSE
          OBVIOUS
        <4>1. Missing = {} /\ g = l
          BY <3>12, <3>3
        <4> QED BY <4>1, <3>13, <3>6
      <3>15. ASSUME NEW f \in Missing', NEW h \in Missing', f < h
             PROVE  \E x \in ShownFixes' : f < x /\ x < h
        <4>1. CASE f \in Missing /\ h \in Missing
          BY <4>1, <3>11, <3>12, <3>15
        <4>2. CASE f \in Missing /\ f < l /\ h = g /\ l < g
          BY <4>2, <3>6, <3>11
        <4>3. CASE f = g /\ l < g /\ h < l
          BY <4>3, <3>6, <3>7, <3>13, <3>15
        <4>4. CASE f = g /\ h = g
          BY <4>4, <3>7, <3>15
        <4> QED BY <3>13, <4>1, <4>2, <4>3, <4>4
      <3>16. now' - MaxAge <= Latest'.fix /\ Latest'.fix <= now' - Delay
        <4>1. now - MaxAge <= l
          BY <2>5, <1>11 DEF l
        <4>2. now - MaxAge <= last
          BY <4>1, <3>6, <3>7, <1>0
        <4> QED BY <4>2, <2>1, <3>3, <3>10
      <3>17. ShownFixes' \subseteq stored'
        BY <2>1, <3>3, <3>5, <3>11
      <3>18. Holds(track', ShownFixes', Base')
        BY <3>8, <3>9, <3>10, <3>11
      <3>19. \A f \in stored' : f < track'[1].fix => f < now' - MaxAge
        BY <2>1, <3>10, <3>12
      <3>20. TrackInv'
        BY <3>14, <3>15, <3>16, <3>17, <3>18, <3>19 DEF TrackInv
      <3>21. track' \in Seq(Shown)
        BY <3>18 DEF Holds
      <3> QED BY <2>1, <2>3, <2>4, <3>20, <3>21, <1>0 DEF LiveInv, LiveTyped
    <2> QED BY <2>6, <2>7
  <1>10. CASE UNCHANGED vars
    <2>1. /\ now' = now /\ air' = air /\ stored' = stored /\ track' = track
          /\ thinned' = thinned /\ poll' = poll
      BY <1>10 DEF vars
    <2>2. LiveTyped' /\ Arriving' /\ Spaced'
      BY <2>1, <1>0 DEF LiveTyped, Arriving, Spaced
    <2>3. TrackInv' /\ PollInv'
      BY <2>1, <1>0, <1>11, TrackKept, PollsKept
    <2> QED BY <2>2, <2>3 DEF LiveInv
  <1> QED
    BY <1>1, <1>2, <1>3, <1>4, <1>5, <1>6, <1>7, <1>8, <1>9, <1>10 DEF Next

LEMMA LiveInvShows == LiveInv => TrackFaithful
  <1> SUFFICES ASSUME LiveInv PROVE TrackFaithful
    OBVIOUS
  <1>1. CASE track = <<>>
    BY <1>1 DEF TrackFaithful, TrackComplete, TimesAgree
  <1>2. CASE track # <<>>
    <2>1. /\ Holds(track, ShownFixes, Base) /\ Time \subseteq Nat
          /\ Second = 1 => Missing = {}
          /\ \A f, g \in Missing : f < g => \E h \in ShownFixes : f < h /\ h < g
      BY <1>2, ClockAssumption DEF LiveInv, TrackInv, Time
    <2>2. /\ Len(track) \in Nat \ {0} /\ DOMAIN track = 1 .. Len(track)
          /\ 1 \in DOMAIN track /\ ShownFixes \subseteq Nat
      BY <1>2, <2>1, HoldsEnds
    <2>3. Base \in Nat /\ Second \in Nat
      BY <1>2, TrackEnds, Fixes DEF LiveInv
    <2>4. ASSUME NEW i \in DOMAIN track
          PROVE  /\ track[i].fix \in Nat /\ track[i].t \in Nat
                 /\ track[i].t <= track[i].fix - Base
                 /\ track[i].fix - Base + 2 <= track[i].t + Second + Second
      <3>1. track[i].fix \in ShownFixes /\ Nearly(track[i], Base) /\ track \in Seq(Shown)
        BY <2>1 DEF Holds
      <3>2. track[i] \in Shown
        BY <3>1, <2>2, ElementOfSeq
      <3> QED BY <3>1, <3>2, <2>2 DEF Nearly, Shown
    <2>5. TimesAgree
      <3> SUFFICES ASSUME NEW i \in DOMAIN track
                   PROVE  LET drift == (track[i].t - track[1].t) - (track[i].fix - track[1].fix)
                          IN -2 * (Second - 1) <= drift /\ drift <= 2 * (Second - 1)
        BY DEF TimesAgree
      <3> DEFINE x == track[i].fix
                 y == track[1].fix
                 v == track[i].t
                 w == track[1].t
      <3>1. /\ x \in Nat /\ v \in Nat /\ v <= x - Base /\ x - Base + 2 <= v + Second + Second
            /\ y \in Nat /\ w \in Nat /\ w <= y - Base /\ y - Base + 2 <= w + Second + Second
        BY <2>2, <2>4
      <3> HIDE DEF x, y, v, w
      <3>2. /\ 2 - Second - Second <= (v - w) - (x - y)
            /\ (v - w) - (x - y) <= Second + Second - 2
        BY <3>1, <2>3
      <3>3. 2 * (Second - 1) = Second + Second - 2 /\ -2 * (Second - 1) = 2 - Second - Second
        BY <2>3
      <3> QED BY <3>2, <3>3 DEF x, y, v, w
    <2>6. TrackComplete
      BY <2>1 DEF TrackComplete, Holds
    <2> QED BY <2>5, <2>6 DEF TrackFaithful
  <1> QED BY <1>1, <1>2

(* While the datagrams of a device keep their order, at most one request is *)
(* under way and the last fix of the page is young enough to be answered    *)
(* (Steady), the page shows no fix twice and each less than two seconds     *)
(* from its distance to the first; of the stored fixes between its first    *)
(* and its last it misses none but what reduce leaves out, if they have     *)
(* whole seconds, and never two in a row if not.  That holds whatever is    *)
(* lost or late, also when the start of the track moves and passes midnight *)
(* on the server (_get_flight_path2).                                       *)
THEOREM TrackStaysFaithful ==
  ASSUME Ordered, Steady, Pending <= 1, MaxAge + 2 * Second <= Day
  PROVE  Spec => []TrackFaithful
  <1>1. AgeWithinDay
    <2>1. MaxAge \in Nat /\ Second \in Nat /\ Day \in Nat
      BY ClockAssumption
    <2>2. 2 * Second = Second + Second
      BY <2>1
    <2>3. MaxAge + (Second + Second) <= Day
      BY <2>2
    <2> QED BY <2>1, <2>3 DEF AgeWithinDay
  <1>2. LiveInv /\ [Next]_vars => LiveInv'
    BY <1>1, LiveInvStep
  <1> QED BY <1>2, LiveInvInit, LiveInvShows, PTL DEF Spec

------------------------------------------------------------------------------
(* Tracks that only go forward *)

Rising(r) == \A i, j \in DOMAIN r : i < j => r[i].t < r[j].t

(* The request under way asks for what follows the last fix of the page,    *)
(* and all but the first fix of its answer does.                            *)
FollowsOn ==
  /\ \A p, q \in Polls : poll[p].state # "idle" /\ poll[q].state # "idle" => p = q
  /\ \A p \in Polls : poll[p].state # "idle" => track # <<>>
  /\ \A p \in Polls : poll[p].state = "asked" => poll[p].last = Latest.t
  /\ \A p \in Polls : poll[p].state = "answered" =>
       /\ Rising(poll[p].reply)
       /\ \A i \in DOMAIN poll[p].reply : i > 1 => poll[p].reply[i].t > Latest.t

RisingInv == LiveTyped /\ Spaced /\ Rising(track) /\ FollowsOn

(* Fixes that are Apart are shown at different seconds. *)
LEMMA Rises ==
  ASSUME NEW x \in Nat, NEW y \in Nat, NEW s \in Nat, NEW tx \in Nat, NEW ty \in Nat,
         NEW sec \in Nat, NEW apart \in Nat, apart + 1 >= sec + sec, sec > 0,
         x + apart <= y, tx <= x - s, y - s < ty + sec
  PROVE  tx < ty
  OBVIOUS

LEMMA Passes ==
  ASSUME NEW x \in Nat, NEW y \in Nat, NEW s \in Nat, NEW ty \in Nat, NEW day \in Nat,
         NEW last \in Nat, NEW sec \in Nat, NEW apart \in Nat, apart + 1 >= sec + sec, sec > 0,
         x + apart <= y, y - s < ty + sec, x >= s + (last - day)
  PROVE  last < day + ty
  OBVIOUS

(* The seconds of an answer rise from the one that was asked for. *)
LEMMA PathRises ==
  ASSUME LiveTyped, Spaced, NEW last \in Nat, NEW kept \in Reduced(Since(last))
  PROVE  /\ Path(kept) \in Seq(Shown) /\ Rising(Path(kept))
         /\ \A i \in DOMAIN Path(kept) : i > 1 => Path(kept)[i].t > last
  <1> DEFINE r == Path(kept)
             s == First(Visible)
             day == SecondsOfDay(s)
             cut(f) == Truncated(f - s)
  <1>1. kept \in SUBSET Since(last) /\ Since(last) \in SUBSET Visible
    BY DEF Reduced, Since
  <1>2. kept \in SUBSET Visible
    BY <1>1
  <1>3. /\ r \in Seq(Shown)
        /\ \A i \in DOMAIN r :
             /\ r[i].fix \in kept /\ r[i].fix \in Nat /\ s \in Nat /\ s <= r[i].fix
             /\ r[i].t = ShownAtSecond(s, r[i].fix)
        /\ \A i, j \in DOMAIN r : i < j => r[i].fix < r[j].fix
    BY <1>2, PathIs
  <1>4. Apart \in Nat /\ Apart + 1 >= Second + Second /\ Second \in Nat /\ Second > 0
    <2>1. Second \in Nat \ {0}
      BY Fixes
    <2>2. Second > 0
      BY <2>1
    <2> QED BY <2>2, Fixes
  <1> HIDE DEF r, s, cut, day
  <1>5. ASSUME NEW i \in DOMAIN r
        PROVE  /\ day \in Nat /\ cut(r[i].fix) \in Nat /\ r[i].t = day + cut(r[i].fix)
               /\ cut(r[i].fix) <= r[i].fix - s /\ r[i].fix - s < cut(r[i].fix) + Second
               /\ i \in Nat
    <2> DEFINE x == r[i].fix
    <2>1. x \in Nat /\ s \in Nat /\ s <= x /\ r[i].t = day + cut(x)
      BY <1>3 DEF ShownAtSecond, day, cut
    <2> HIDE DEF x
    <2>2. x - s \in Nat
      BY <2>1
    <2>3. cut(x) \in Nat /\ cut(x) <= x - s /\ x - s < cut(x) + Second
      BY <2>2, Cut DEF cut
    <2>4. day \in Nat
      BY <2>1, Seconds DEF day
    <2>5. i \in Nat
      BY <1>3
    <2> QED BY <2>1, <2>3, <2>4, <2>5 DEF x
  <1>6. ASSUME NEW i \in DOMAIN r, NEW j \in DOMAIN r, i < j
        PROVE  r[i].fix + Apart <= r[j].fix
    <2>1. r[i].fix \in stored /\ r[j].fix \in stored /\ r[i].fix < r[j].fix
      BY <1>2, <1>3, <1>6 DEF Visible
    <2> QED BY <2>1 DEF Spaced
  <1>7. ASSUME NEW i \in DOMAIN r, NEW j \in DOMAIN r, i < j
        PROVE  r[i].t < r[j].t
    <2> DEFINE x == r[i].fix
               y == r[j].fix
    <2>1. x \in Nat /\ y \in Nat /\ s \in Nat /\ x + Apart <= y
      BY <1>3, <1>6, <1>7
    <2>2. /\ cut(x) \in Nat /\ cut(y) \in Nat /\ cut(x) <= x - s /\ y - s < cut(y) + Second
          /\ day \in Nat /\ r[i].t = day + cut(x) /\ r[j].t = day + cut(y)
      BY <1>5
    <2> HIDE DEF x, y
    <2>3. cut(x) < cut(y)
      BY <2>1, <2>2, <1>4, Rises
    <2> QED BY <2>2, <2>3
  <1>8. ASSUME NEW i \in DOMAIN r, i > 1 PROVE r[i].t > last
    <2>1. 1 \in DOMAIN r
      <3>1. DOMAIN r = 1 .. Len(r) /\ Len(r) \in Nat
        BY <1>3
      <3> QED BY <3>1, <1>8
    <2> DEFINE x == r[1].fix
               y == r[i].fix
    <2>2. x \in Nat /\ y \in Nat /\ s \in Nat /\ x + Apart <= y
      BY <2>1, <1>3, <1>6, <1>8
    <2>3. /\ cut(y) \in Nat /\ y - s < cut(y) + Second
          /\ day \in Nat /\ r[i].t = day + cut(y)
      BY <1>5
    <2>4. last # 0 => x >= s + (last - day)
      <3>1. x \in Since(last)
        BY <2>1, <1>1, <1>3
      <3> QED BY <3>1 DEF Since, s, day
    <2>5. r[1].t \in Nat /\ r[1].t < r[i].t
      BY <2>1, <1>5, <1>7, <1>8
    <2> HIDE DEF x, y
    <2>6. CASE last # 0
      BY <2>2, <2>3, <2>4, <2>6, <1>4, Passes
    <2>7. CASE last = 0
      BY <2>3, <2>5, <2>7
    <2> QED BY <2>6, <2>7
  <1> QED BY <1>3, <1>7, <1>8 DEF Rising, r

(* A rising answer is appended behind its first fix. *)
LEMMA RisingJoined ==
  ASSUME NEW s \in Seq(Shown), NEW r \in Seq(Shown), s # <<>>, Len(r) > 1, Rising(s), Rising(r),
         \A i \in DOMAIN r : i > 1 => r[i].t > s[Len(s)].t
  PROVE  s \o Tail(r) \in Seq(Shown) /\ s \o Tail(r) # <<>> /\ Rising(s \o Tail(r))
  <1> DEFINE u == s \o Tail(r)
             m == Len(s)
             n == Len(r)
  <1>1. /\ m \in Nat \ {0} /\ n \in Nat \ {0} /\ DOMAIN s = 1 .. m /\ DOMAIN r = 1 .. n
    BY EmptySeq
  <1>2. /\ u \in Seq(Shown) /\ Len(u) = m + n - 1 /\ DOMAIN u = 1 .. m + n - 1
        /\ \A i \in 1 .. m : u[i] = s[i]
        /\ \A i \in m + 1 .. m + n - 1 : u[i] = r[i - m + 1]
    <2>1. /\ Tail(r) \in Seq(Shown) /\ Len(Tail(r)) = n - 1
          /\ \A i \in 1 .. n - 1 : Tail(r)[i] = r[i + 1]
      BY <1>1, HeadTailProperties
    <2>2. /\ u \in Seq(Shown) /\ Len(u) = m + Len(Tail(r))
          /\ \A i \in 1 .. m + Len(Tail(r)) : u[i] = IF i <= m THEN s[i] ELSE Tail(r)[i - m]
      BY <1>1, <2>1, ConcatProperties
    <2> HIDE DEF u
    <2>3. \A i \in 1 .. m : u[i] = s[i]
      BY <2>1, <2>2, <1>1
    <2>4. ASSUME NEW i \in m + 1 .. m + n - 1
          PROVE  u[i] = r[i - m + 1]
      <3>1. i - m \in 1 .. n - 1 /\ i \in 1 .. m + (n - 1) /\ ~(i <= m) /\ i - m + 1 = (i - m) + 1
        BY <1>1
      <3> QED BY <3>1, <2>1, <2>2
    <2> QED BY <2>1, <2>2, <2>3, <2>4, <1>1
  <1> HIDE DEF u
  <1>3. (\A i \in 1 .. m : s[i].t \in Nat) /\ (\A i \in 1 .. n : r[i].t \in Nat)
    <2>1. (\A i \in 1 .. m : s[i] \in Shown) /\ (\A i \in 1 .. n : r[i] \in Shown)
      BY ElementOfSeq
    <2> QED BY <2>1 DEF Shown
  <1>4. \A i \in 1 .. m : s[i].t <= s[m].t
    <2> SUFFICES ASSUME NEW i \in 1 .. m PROVE s[i].t <= s[m].t
      OBVIOUS
    <2>1. m \in 1 .. m /\ (i = m \/ i < m)
      <3>1. \A k \in Nat \ {0} : k \in 1 .. k /\ \A l \in 1 .. k : l = k \/ l < k
        OBVIOUS
      <3>2. m \in Nat \ {0}
        BY <1>1
      <3> HIDE DEF m
      <3> QED BY <3>1, <3>2
    <2>2. i < m => s[i].t < s[m].t
      BY <2>1, <1>1 DEF Rising
    <2> QED BY <2>1, <2>2, <1>3
  <1>5. ASSUME NEW i \in 1 .. m + n - 1, NEW j \in 1 .. m + n - 1, i < j
        PROVE  u[i].t < u[j].t
    <2>1. CASE i \in 1 .. m /\ j \in 1 .. m
      BY <2>1, <1>1, <1>2, <1>5 DEF Rising
    <2>2. CASE i \in 1 .. m /\ j \in m + 1 .. m + n - 1
      <3>1. j - m + 1 \in 1 .. n /\ j - m + 1 > 1
        BY <2>2, <1>1
      <3>2. r[j - m + 1].t > s[m].t
        BY <3>1, <1>1
      <3>3. u[i] = s[i] /\ u[j] = r[j - m + 1]
        BY <2>2, <1>2
      <3>4. s[i].t \in Nat /\ s[m].t \in Nat /\ r[j - m + 1].t \in Nat /\ s[i].t <= s[m].t
        <4>1. m \in 1 .. m
          BY <1>1
        <4> QED BY <4>1, <2>2, <3>1, <1>3, <1>4
      <3> QED BY <3>2, <3>3, <3>4, SMTT(20)
    <2>3. CASE i \in m + 1 .. m + n - 1 /\ j \in m + 1 .. m + n - 1
      <3>1. i - m + 1 \in 1 .. n /\ j - m + 1 \in 1 .. n /\ i - m + 1 < j - m + 1
        BY <2>3, <1>1, <1>5
      <3>2. u[i] = r[i - m + 1] /\ u[j] = r[j - m + 1]
        BY <2>3, <1>2
      <3> QED BY <3>1, <3>2, <1>1 DEF Rising
    <2>4. (i \in 1 .. m \/ i \in m + 1 .. m + n - 1)
          /\ (i \in m + 1 .. m + n - 1 => j \in m + 1 .. m + n - 1)
          /\ (j \in 1 .. m \/ j \in m + 1 .. m + n - 1)
      BY <1>5, <1>1
    <2> QED BY <2>1, <2>2, <2>3, <2>4
  <1>6. u # <<>>
    BY <1>1, <1>2
  <1>7. Rising(u)
    BY <1>2, <1>5 DEF Rising
  <1> QED BY <1>2, <1>6, <1>7 DEF u

(* The types hold whatever the network and the page do. *)
LEMMA ClockTyped ==
  ASSUME LiveTyped, Spaced, [Tick \/ Record \/ Store \/ Lose]_vars
  PROVE  LiveTyped' /\ Spaced' /\ UNCHANGED <<track, poll>> /\ stored \subseteq stored'
  <1>0. Start \in Nat /\ End \in Nat /\ now \in Start .. End
    BY ClockAssumption DEF LiveTyped, Time
  <1>1. CASE Tick
    <2>1. now' = now + 1 /\ now < End /\ UNCHANGED <<air, stored, track, poll>>
      BY <1>1 DEF Tick
    <2>2. now' \in Time /\ Start .. now \subseteq Start .. now'
      BY <2>1, <1>0 DEF Time
    <2> QED BY <2>1, <2>2 DEF LiveTyped, Spaced
  <1>2. CASE Record
    <2>1. now \in Start .. now
      BY <1>0
    <2>2. /\ air' = air \union {now} /\ now' = now /\ stored' = stored
          /\ track' = track /\ poll' = poll
          /\ \A f \in air \union stored : f + Apart <= now
      BY <1>2 DEF Record
    <2>3. Spaced'
      <3>1. \A f \in air \union stored : f \in Nat /\ f <= now
        BY Fixes
      <3> SUFFICES ASSUME NEW f \in (air \union {now}) \union stored,
                          NEW g \in (air \union {now}) \union stored, f < g
                   PROVE  f + Apart <= g
        BY <2>2 DEF Spaced
      <3>2. CASE f \in air \union stored /\ g \in air \union stored
        BY <3>2 DEF Spaced
      <3>3. CASE f \in air \union stored /\ g = now
        BY <3>3, <2>2
      <3>4. CASE f = now
        BY <3>4, <3>1, <1>0
      <3> QED BY <3>2, <3>3, <3>4
    <2> QED BY <2>1, <2>2, <2>3 DEF LiveTyped
  <1>3. CASE Store \/ Lose
    <2>1. LiveTyped' /\ UNCHANGED <<track, poll>> /\ stored \subseteq stored'
      BY <1>3 DEF Store, Lose, LiveTyped
    <2>2. air' \union stored' \subseteq air \union stored
      BY <1>3 DEF Store, Lose
    <2> QED BY <2>1, <2>2 DEF Spaced
  <1>4. CASE UNCHANGED vars
    BY <1>4 DEF vars, LiveTyped, Spaced
  <1> QED BY <1>1, <1>2, <1>3, <1>4

(* No other request is under way when one is made. *)
LEMMA NoneBusy ==
  ASSUME FollowsOn, Pending <= 1, NEW p \in Polls, Ask(p)
  PROVE  \A q \in Polls : poll[q].state = "idle"
  <1> DEFINE Busy == {q \in Polls : poll[q].state # "idle"}
  <1>1. IsFiniteSet(Busy)
    <2>1. CASE Busy = {}
      BY <2>1, FS_EmptySet
    <2>2. CASE Busy # {}
      <3>1. PICK q \in Busy : Busy = {q}
        BY <2>2 DEF FollowsOn
      <3> QED BY <3>1, FS_Singleton
    <2> QED BY <2>1, <2>2
  <1>2. Cardinality(Busy) < Pending
    BY DEF Ask
  <1> HIDE DEF Busy
  <1>3. Cardinality(Busy) = 0
    BY <1>1, <1>2, FS_CardinalityType, PagesAssumption
  <1>4. Busy = {}
    BY <1>1, <1>3, FS_EmptySet
  <1> QED BY <1>4 DEF Busy

LEMMA LastShown ==
  ASSUME LiveTyped, track # <<>>
  PROVE  Latest \in Shown /\ Latest.t \in Nat
  <1>1. track \in Seq(Shown) /\ Len(track) \in 1 .. Len(track)
    BY EmptySeq DEF LiveTyped
  <1>2. Latest \in Shown
    BY <1>1, ElementOfSeq DEF Latest
  <1> QED BY <1>2 DEF Shown

LEMMA RisingInvStep ==
  ASSUME RisingInv, [Next]_vars, Pending <= 1
  PROVE  RisingInv'
  <1>0. /\ LiveTyped /\ Spaced /\ Rising(track) /\ FollowsOn
        /\ track \in Seq(Shown) /\ poll \in [Polls -> Request]
        /\ \A p \in Polls : poll[p].last \in Nat /\ poll[p].reply \in Seq(Shown)
    BY DEF RisingInv, LiveTyped, Request
  <1>1. CASE [Tick \/ Record \/ Store \/ Lose]_vars
    <2>1. LiveTyped' /\ Spaced' /\ UNCHANGED <<track, poll>>
      BY <1>0, <1>1, ClockTyped
    <2> QED BY <2>1, <1>0 DEF RisingInv, FollowsOn, Latest, Rising
  <1>2. CASE Load
    <2>1. PICK kept \in Reduced(Visible) :
            track = <<>> /\ track' = Path(kept) /\ UNCHANGED <<now, air, stored, poll>>
      BY <1>2 DEF Load
    <2>2. Path(kept) \in Seq(Shown) /\ Rising(Path(kept))
      <3>1. Since(0) = Visible
        BY DEF Since
      <3> QED BY <3>1, <1>0, PathRises
    <2>3. LiveTyped' /\ Spaced'
      BY <2>1, <2>2, <1>0 DEF LiveTyped, Spaced
    <2>4. \A p \in Polls : poll'[p].state = "idle"
      BY <2>1, <1>0 DEF FollowsOn
    <2>5. FollowsOn'
      BY <2>4 DEF FollowsOn
    <2> QED BY <2>1, <2>2, <2>3, <2>5 DEF RisingInv
  <1>3. ASSUME NEW p \in Polls, Ask(p) PROVE RisingInv'
    <2> DEFINE asked == [state |-> "asked", last |-> Latest.t, reply |-> <<>>, left |-> {}]
    <2>1. /\ track # <<>> /\ poll' = [poll EXCEPT ![p] = asked]
          /\ UNCHANGED <<now, air, stored, track>>
      BY <1>3 DEF Ask
    <2>2. \A q \in Polls : poll[q].state = "idle"
      BY <1>0, <1>3, NoneBusy
    <2>3. asked \in Request
      BY <2>1, <1>0, LastShown DEF Request
    <2>4. \A q \in Polls : poll'[q] = IF q = p THEN asked ELSE poll[q]
      BY <2>1, <1>0
    <2>5. LiveTyped' /\ Spaced'
      BY <2>1, <2>3, <1>0 DEF LiveTyped, Spaced
    <2>6. FollowsOn'
      BY <2>1, <2>2, <2>4 DEF FollowsOn, Latest
    <2> QED BY <2>1, <2>5, <2>6, <1>0 DEF RisingInv
  <1>4. ASSUME NEW p \in Polls, Answer(p) PROVE RisingInv'
    <2> DEFINE last == poll[p].last
    <2>1. PICK kept \in Reduced(Since(last)) :
          /\ poll[p].state = "asked"
          /\ poll' = [poll EXCEPT ![p] = [state |-> "answered", last |-> last,
                                          reply |-> Path(kept), left |-> Since(last) \ kept]]
          /\ UNCHANGED <<now, air, stored, track>>
      BY <1>4 DEF Answer
    <2> DEFINE r == Path(kept)
               left == Since(last) \ kept
               answered == [state |-> "answered", last |-> last, reply |-> r, left |-> left]
    <2>2. track # <<>> /\ last = Latest.t /\ last \in Nat
      BY <2>1, <1>0 DEF FollowsOn
    <2>3. r \in Seq(Shown) /\ Rising(r) /\ \A i \in DOMAIN r : i > 1 => r[i].t > Latest.t
      <3> HIDE DEF last
      <3> QED BY <2>2, <1>0, PathRises
    <2>4. left \in SUBSET Time
      BY <1>0, Fixes DEF Since
    <2> HIDE DEF r, left
    <2>5. poll' = [poll EXCEPT ![p] = answered] /\ answered \in Request
      BY <2>1, <2>2, <2>3, <2>4 DEF Request, r, left
    <2>6. LiveTyped' /\ Spaced' /\ \A q \in Polls : poll'[q] = IF q = p THEN answered ELSE poll[q]
      <3> HIDE DEF answered
      <3> QED BY <2>1, <2>5, <1>0 DEF LiveTyped, Spaced
    <2>7. \A q \in Polls : q # p => poll[q].state = "idle"
      BY <2>1, <1>0 DEF FollowsOn
    <2>8. FollowsOn'
      <3>1. \A q \in Polls : poll'[q].state # "idle" => q = p
        BY <2>6, <2>7
      <3>2. poll'[p].state = "answered" /\ poll'[p].reply = r
        BY <2>6
      <3>3. track' # <<>> /\ Latest' = Latest
        BY <2>1, <2>2 DEF Latest
      <3> QED BY <2>3, <3>1, <3>2, <3>3 DEF FollowsOn
    <2> QED BY <2>1, <2>6, <2>8, <1>0 DEF RisingInv
  <1>5. ASSUME NEW p \in Polls, Drop(p) PROVE RisingInv'
    <2>1. poll' = [poll EXCEPT ![p] = Idle] /\ UNCHANGED <<now, air, stored, track>>
      BY <1>5 DEF Drop
    <2>2. Idle \in Request /\ \A q \in Polls : poll'[q] = IF q = p THEN Idle ELSE poll[q]
      BY <2>1, <1>0 DEF Idle, Request
    <2>3. LiveTyped' /\ Spaced'
      BY <2>1, <2>2, <1>0 DEF LiveTyped, Spaced
    <2>4. FollowsOn'
      BY <2>1, <2>2, <1>0 DEF FollowsOn, Latest, Idle
    <2> QED BY <2>1, <2>3, <2>4, <1>0 DEF RisingInv
  <1>6. ASSUME NEW p \in Polls, Update(p) PROVE RisingInv'
    <2> DEFINE r == poll[p].reply
    <2>1. /\ poll[p].state = "answered" /\ poll' = [poll EXCEPT ![p] = Idle]
          /\ IF Len(r) < 2 THEN track' = track ELSE track' = track \o Tail(r)
          /\ UNCHANGED <<now, air, stored>>
      BY <1>6 DEF Update
    <2>2. /\ track # <<>> /\ r \in Seq(Shown) /\ Rising(r)
          /\ \A i \in DOMAIN r : i > 1 => r[i].t > track[Len(track)].t
      BY <2>1, <1>0 DEF FollowsOn, Latest
    <2> HIDE DEF r
    <2>3. track' \in Seq(Shown) /\ Rising(track')
      <3>1. CASE Len(r) < 2
        BY <3>1, <2>1, <1>0
      <3>2. CASE ~(Len(r) < 2)
        <4>1. Len(r) > 1 /\ track' = track \o Tail(r)
          BY <3>2, <2>1, <2>2
        <4> QED BY <4>1, <2>2, <1>0, RisingJoined
      <3> QED BY <3>1, <3>2
    <2>4. Idle \in Request /\ \A q \in Polls : poll'[q] = IF q = p THEN Idle ELSE poll[q]
      BY <2>1, <1>0 DEF Idle, Request
    <2>5. LiveTyped' /\ Spaced'
      BY <2>1, <2>3, <2>4, <1>0 DEF LiveTyped, Spaced
    <2>6. \A q \in Polls : poll'[q].state = "idle"
      BY <2>1, <2>4, <1>0 DEF FollowsOn, Idle
    <2>7. FollowsOn'
      BY <2>6 DEF FollowsOn
    <2> QED BY <2>3, <2>5, <2>7 DEF RisingInv
  <1> QED BY <1>1, <1>2, <1>3, <1>4, <1>5, <1>6 DEF Next

(* While at most one request is under way, what is appended to the page has *)
(* later seconds than all it has (updateFlight skips the first fix of an    *)
(* answer): however old the last fix of the page gets, in whatever order    *)
(* datagrams arrive, and wherever midnight falls.                           *)
THEOREM TrackGoesForward ==
  ASSUME Pending <= 1
  PROVE  Spec => []TrackIncreasing
  <1>1. Init => RisingInv
    <2>1. Init => LiveTyped /\ Spaced
      BY LiveInvInit DEF LiveInv
    <2> QED BY <2>1 DEF Init, RisingInv, Rising, FollowsOn, Idle
  <1>2. RisingInv /\ [Next]_vars => RisingInv'
    BY RisingInvStep
  <1>3. RisingInv => TrackIncreasing
    BY DEF RisingInv, Rising, TrackIncreasing
  <1> QED BY <1>1, <1>2, <1>3, PTL DEF Spec

(* No midnight during the flight. *)
SameDay == \A t \in Time : Midnight(t) = Midnight(Start)

(* Then all seconds are counted from one midnight. *)
Counted(r) == \A i \in DOMAIN r : r[i].fix \in stored /\ Nearly(r[i], Midnight(Start))
OnTime ==
  Counted(track) /\ \A p \in Polls : poll[p].state = "answered" => Counted(poll[p].reply)

LEMMA PathCounted ==
  ASSUME LiveTyped, SameDay, NEW kept \in SUBSET Visible
  PROVE  Counted(Path(kept))
  <1>1. CASE Visible = {}
    <2>1. \A i \in DOMAIN Path(kept) : FALSE
      BY <1>1, PathIs
    <2> QED BY <2>1 DEF Counted
  <1>2. CASE Visible # {}
    <2>1. First(Visible) \in Time
      BY <1>2, Fixes, Earliest
    <2>2. Midnight(First(Visible)) = Midnight(Start)
      BY <2>1 DEF SameDay
    <2> QED BY <2>2, PathIs DEF Counted, Visible
  <1> QED BY <1>1, <1>2

LEMMA OnTimeStep ==
  ASSUME RisingInv, OnTime, [Next]_vars, SameDay
  PROVE  OnTime'
  <1>0. /\ LiveTyped /\ Spaced /\ track \in Seq(Shown) /\ poll \in [Polls -> Request]
        /\ \A p \in Polls : poll[p].last \in Nat /\ poll[p].reply \in Seq(Shown)
    BY DEF RisingInv, LiveTyped, Request
  <1>1. CASE [Tick \/ Record \/ Store \/ Lose]_vars
    <2>1. UNCHANGED <<track, poll>> /\ stored \subseteq stored'
      BY <1>0, <1>1, ClockTyped
    <2> QED BY <2>1 DEF OnTime, Counted
  <1>2. CASE Load
    <2>1. PICK kept \in Reduced(Visible) :
            track' = Path(kept) /\ UNCHANGED <<stored, poll>>
      BY <1>2 DEF Load
    <2>2. Counted(Path(kept))
      BY <1>0, PathCounted DEF Reduced
    <2> QED BY <2>1, <2>2 DEF OnTime, Counted
  <1>3. ASSUME NEW p \in Polls, Ask(p) \/ Drop(p) PROVE OnTime'
    <2>1. /\ track' = track /\ stored' = stored
          /\ \A q \in Polls : poll'[q] = poll[q] \/ poll'[q].state # "answered"
      BY <1>3, <1>0 DEF Ask, Drop, Idle
    <2> QED BY <2>1 DEF OnTime, Counted
  <1>4. ASSUME NEW p \in Polls, Answer(p) PROVE OnTime'
    <2> DEFINE last == poll[p].last
    <2>1. PICK kept \in Reduced(Since(last)) :
          /\ poll' = [poll EXCEPT ![p] = [state |-> "answered", last |-> last,
                                          reply |-> Path(kept), left |-> Since(last) \ kept]]
          /\ track' = track /\ stored' = stored
      BY <1>4 DEF Answer
    <2> DEFINE r == Path(kept)
    <2>2. Counted(r)
      <3>1. kept \in SUBSET Visible
        BY DEF Reduced, Since
      <3> QED BY <3>1, <1>0, PathCounted
    <2> HIDE DEF r
    <2>3. poll'[p].reply = r /\ \A q \in Polls : q # p => poll'[q] = poll[q]
      BY <2>1, <1>0 DEF r
    <2>4. \A q \in Polls : poll'[q].state = "answered" => Counted(poll'[q].reply)
      BY <2>2, <2>3 DEF OnTime
    <2>5. Counted(track')
      BY <2>1 DEF OnTime
    <2> QED BY <2>1, <2>4, <2>5 DEF OnTime, Counted
  <1>5. ASSUME NEW p \in Polls, Update(p) PROVE OnTime'
    <2> DEFINE r == poll[p].reply
               u == track \o Tail(r)
    <2>1. /\ poll[p].state = "answered" /\ poll' = [poll EXCEPT ![p] = Idle]
          /\ IF Len(r) < 2 THEN track' = track ELSE track' = u
          /\ stored' = stored
      BY <1>5 DEF Update
    <2>2. Counted(track) /\ Counted(r) /\ r \in Seq(Shown) /\ Len(r) \in Nat
      BY <2>1, <1>0 DEF OnTime
    <2>3. \A q \in Polls : poll'[q] = poll[q] \/ poll'[q].state # "answered"
      BY <2>1, <1>0 DEF Idle
    <2>4. ~(Len(r) < 2) => Counted(u)
      <3> SUFFICES ASSUME Len(r) > 1, NEW i \in DOMAIN u
                   PROVE  u[i].fix \in stored /\ Nearly(u[i], Midnight(Start))
        BY <2>2, SMTT(20) DEF Counted
      <3> HIDE DEF r
      <3>1. /\ Tail(r) \in Seq(Shown) /\ Len(Tail(r)) = Len(r) - 1
            /\ \A k \in 1 .. Len(r) - 1 : Tail(r)[k] = r[k + 1]
        BY <2>2, EmptySeq, HeadTailProperties
      <3>2. /\ Len(u) = Len(track) + (Len(r) - 1) /\ u \in Seq(Shown)
            /\ \A k \in 1 .. Len(track) + (Len(r) - 1) :
                 u[k] = IF k <= Len(track) THEN track[k] ELSE Tail(r)[k - Len(track)]
        BY <1>0, <3>1, ConcatProperties
      <3>3. /\ i \in 1 .. Len(track) + (Len(r) - 1) /\ Len(track) \in Nat
            /\ DOMAIN track = 1 .. Len(track) /\ DOMAIN r = 1 .. Len(r)
        BY <1>0, <2>2, <3>2
      <3> HIDE DEF u
      <3>4. CASE i <= Len(track)
        <4>1. i \in DOMAIN track /\ u[i] = track[i]
          BY <3>2, <3>3, <3>4
        <4> QED BY <4>1, <2>2 DEF Counted
      <3>5. CASE ~(i <= Len(track))
        <4>1. i - Len(track) \in 1 .. Len(r) - 1 /\ i - Len(track) + 1 \in DOMAIN r
          BY <2>2, <3>3, <3>5
        <4>2. u[i] = r[i - Len(track) + 1]
          BY <3>1, <3>2, <3>3, <3>5, <4>1
        <4> QED BY <4>1, <4>2, <2>2 DEF Counted
      <3> QED BY <3>4, <3>5
    <2> HIDE DEF r, u
    <2>5. Counted(track')
      BY <2>1, <2>2, <2>4 DEF Counted
    <2> QED BY <2>1, <2>3, <2>5 DEF OnTime, Counted
  <1>6. Tick \/ Record \/ Store \/ Lose \/ UNCHANGED vars => [Tick \/ Record \/ Store \/ Lose]_vars
    OBVIOUS
  <1> QED BY <1>1, <1>2, <1>3, <1>4, <1>5, <1>6 DEF Next

LEMMA AnswerStep ==
  ASSUME RisingInv, OnTime, [Next]_vars, SameDay
  PROVE  [\A p \in Polls : poll[p].state = "asked" /\ poll'[p].state = "answered" =>
            \A f \in Visible \ poll'[p].left : f > Latest.fix =>
              \E i \in DOMAIN poll'[p].reply : poll'[p].reply[i].fix = f]_vars
  <1> SUFFICES ASSUME NEW p \in Polls, poll[p].state = "asked", poll'[p].state = "answered",
                      NEW f \in Visible, f \notin poll'[p].left, f > Latest.fix
               PROVE  \E i \in DOMAIN poll'[p].reply : poll'[p].reply[i].fix = f
    OBVIOUS
  <1> DEFINE last == poll[p].last
             s == First(Visible)
             day == SecondsOfDay(s)
             base == Midnight(Start)
             l == Latest.fix
  <1>1. /\ LiveTyped /\ Spaced /\ poll \in [Polls -> Request] /\ last \in Nat
        /\ track \in Seq(Shown)
    BY DEF RisingInv, LiveTyped, Request
  <1>2. Answer(p)
    <2>1. \A q \in Polls : Ask(q) \/ Drop(q) \/ Update(q) \/ (Answer(q) /\ q # p) =>
            poll'[p] = poll[p] \/ poll'[p].state \in {"idle", "asked"}
      BY <1>1 DEF Ask, Drop, Update, Answer, Idle
    <2>2. Tick \/ Record \/ Store \/ Lose \/ Load \/ UNCHANGED vars => poll' = poll
      BY DEF Tick, Record, Store, Lose, Load, vars
    <2> QED BY <2>1, <2>2 DEF Next
  <1>3. PICK kept \in Reduced(Since(last)) :
          poll'[p].reply = Path(kept) /\ poll'[p].left = Since(last) \ kept
    <2>1. PICK kept \in Reduced(Since(last)) :
            poll' = [poll EXCEPT ![p] = [state |-> "answered", last |-> last,
                                         reply |-> Path(kept), left |-> Since(last) \ kept]]
      BY <1>2 DEF Answer
    <2> QED BY <2>1, <1>1
  <1>4. track # <<>> /\ last = Latest.t
    BY DEF RisingInv, FollowsOn
  <1>5. l \in stored /\ l \in Nat /\ last <= l - base
    <2>1. Len(track) \in DOMAIN track
      BY <1>1, <1>4, EmptySeq
    <2>2. Latest.fix \in stored /\ Nearly(Latest, base)
      BY <2>1 DEF OnTime, Counted, Latest
    <2> QED BY <2>2, <1>1, <1>4, Fixes DEF Nearly
  <1>6. f \in stored /\ f \in Nat /\ s \in Time /\ s \in Nat
    <2>1. f \in stored /\ Visible \in SUBSET Nat /\ Visible \subseteq Time
      BY <1>1, Fixes DEF Visible
    <2> QED BY <2>1, Earliest
  <1>7. l + Apart <= f
    BY <1>1, <1>5, <1>6 DEF Spaced
  <1>8. Midnight(s) = base
    BY <1>6 DEF SameDay
  <1>9. /\ base \in Nat /\ day \in Nat
        /\ base + day <= s /\ s < base + day + Second
    <2> HIDE DEF s
    <2>1. /\ SecondsOfDay(s) \in Nat /\ Midnight(s) \in Nat
          /\ Midnight(s) + SecondsOfDay(s) <= s /\ s < Midnight(s) + SecondsOfDay(s) + Second
      BY <1>6, Seconds
    <2> QED BY <2>1, <1>8
  <1>10. /\ Apart \in Nat /\ Apart + 1 >= Second + Second /\ Second \in Nat /\ Second > 0
    <2>1. Second \in Nat \ {0}
      BY <1>1, Fixes
    <2>2. Second > 0
      BY <2>1
    <2> QED BY <2>2, <1>1, Fixes
  <1> HIDE DEF s, day, base, l, last
  <1>11. s + (last - day) \in Int /\ s + (last - day) < base + last + Second
    BY <1>1, <1>6, <1>9, <1>10, Begins
  <1>12. f >= s + (last - day)
    BY <1>1, <1>5, <1>6, <1>7, <1>9, <1>10, <1>11, LaterIn
  <1>13. f \in Since(last)
    BY <1>12 DEF Since, s, day
  <1>14. f \in kept /\ kept \in SUBSET Visible
    BY <1>3, <1>13 DEF Reduced, Since
  <1>15. FixesOf(Path(kept)) = kept
    BY <1>1, <1>14, PathIs
  <1> QED BY <1>3, <1>14, <1>15 DEF FixesOf

(* And as long as there is no midnight in the flight, each answer holds all *)
(* visible fixes that the page does not have, but for what reduce leaves    *)
(* out of it.                                                               *)
THEOREM AnswersHoldAll ==
  ASSUME Pending <= 1, SameDay
  PROVE  Spec => AnswersComplete
  <1>1. Init => RisingInv /\ OnTime
    <2>1. Init => LiveTyped /\ Spaced
      BY LiveInvInit DEF LiveInv
    <2> QED BY <2>1 DEF Init, RisingInv, Rising, FollowsOn, Idle, OnTime, Counted
  <1>2. RisingInv /\ OnTime /\ [Next]_vars => RisingInv' /\ OnTime'
    BY RisingInvStep, OnTimeStep
  <1>3. RisingInv /\ OnTime /\ [Next]_vars =>
          [\A p \in Polls : poll[p].state = "asked" /\ poll'[p].state = "answered" =>
             \A f \in Visible \ poll'[p].left : f > Latest.fix =>
               \E i \in DOMAIN poll'[p].reply : poll'[p].reply[i].fix = f]_vars
    BY AnswerStep
  <1> QED BY <1>1, <1>2, <1>3, PTL DEF Spec, AnswersComplete
==============================================================================
