----------------------------- MODULE LoopProofs -----------------------------
(***************************************************************************)
(* The loops of scheduling.Occurrences return the dates of the rule, for   *)
(* every calendar, rule, window and time zone, and where a midnight is     *)
(* missing no more is lost or wrong than ReturnsOccurrences says.          *)
(*                                                                         *)
(* A date of the code is a day and a shift: none until the walk meets the  *)
(* day without a midnight, and an hour from then on.  The proofs speak of  *)
(* the day that is meant, and of the shift only where dates are compared   *)
(* or shown.                                                               *)
(***************************************************************************)
EXTENDS OccurrencesLoop, Numbers

-----------------------------------------------------------------------------
(* The calendar. *)

CalendarEnd == MonthStart[Len(MonthStart)]

LEMMA MonthBounds ==
  /\ Len(MonthStart) \in Nat /\ Len(MonthStart) > 0
  /\ \A m \in 1..Len(MonthStart) : MonthStart[m] \in Nat
  /\ MonthStart[1] = 0
  /\ \A m \in Months : /\ m \in 1..Len(MonthStart) /\ m + 1 \in 1..Len(MonthStart)
                       /\ MonthStart[m] + 28 <= MonthStart[m + 1]
                       /\ MonthStart[m + 1] <= MonthStart[m] + 31
<1>1. /\ Len(MonthStart) \in Nat /\ Len(MonthStart) > 0
      /\ \A m \in 1..Len(MonthStart) : MonthStart[m] \in Nat
      /\ MonthStart[1] = 0
  BY CalendarAssumption
<1>2. ASSUME NEW m \in Months
      PROVE  /\ m \in 1..Len(MonthStart) /\ m + 1 \in 1..Len(MonthStart)
             /\ MonthStart[m] + 28 <= MonthStart[m + 1]
             /\ MonthStart[m + 1] <= MonthStart[m] + 31
  <2>1. m \in 1..Len(MonthStart) /\ m + 1 \in 1..Len(MonthStart)
    BY <1>1 DEF Months
  <2>2. MonthStart[m + 1] - MonthStart[m] \in 28..31
    BY CalendarAssumption
  <2>3. MonthStart[m] \in Nat /\ MonthStart[m + 1] \in Nat
    BY <1>1, <2>1
  <2> QED
    BY <2>1, <2>2, <2>3
<1> QED
  BY <1>1, <1>2

\* Months follow each other.
LEMMA MonthsIncrease ==
  ASSUME NEW m \in 1..Len(MonthStart), NEW n \in 1..Len(MonthStart), m < n
  PROVE  MonthStart[m] < MonthStart[n]
<1> DEFINE T == {k \in (m + 1)..Len(MonthStart) : ~ (MonthStart[m] < MonthStart[k])}
<1>1. CASE T = {}
  BY <1>1, MonthBounds
<1>2. CASE T # {}
  <2>1. T \in SUBSET Nat
    BY MonthBounds
  <2>2. PICK k \in T : \A j \in T : k <= j
    BY <1>2, <2>1, LeastNatural
  <2>3. k - 1 \in Months /\ k \in 1..Len(MonthStart) /\ k - 1 >= m
    BY MonthBounds DEF Months
  <2>4. MonthStart[k - 1] + 28 <= MonthStart[k] /\ MonthStart[k - 1] \in Nat
        /\ MonthStart[k] \in Nat /\ MonthStart[m] \in Nat
    <3>1. (k - 1) + 1 = k
      BY <2>3, MonthBounds
    <3>2. MonthStart[k - 1] + 28 <= MonthStart[(k - 1) + 1]
      BY <2>3, MonthBounds
    <3>3. k - 1 \in 1..Len(MonthStart)
      BY <2>3, MonthBounds
    <3> QED
      BY <2>3, <3>1, <3>2, <3>3, MonthBounds
  <2>5. k - 1 = m \/ k - 1 \notin T
    BY <2>2, <2>3, MonthBounds
  <2>6. MonthStart[m] <= MonthStart[k - 1]
    BY <2>3, <2>4, <2>5, MonthBounds DEF Months
  <2> QED
    BY <2>2, <2>4, <2>6
<1> QED
  BY <1>1, <1>2

LEMMA MonthsFollow ==
  ASSUME NEW m \in 1..Len(MonthStart), NEW n \in 1..Len(MonthStart), m <= n
  PROVE  MonthStart[m] <= MonthStart[n]
BY MonthBounds, MonthsIncrease

\* Every day of the calendar is in one month.
LEMMA MonthOfDay ==
  ASSUME NEW d \in Nat, d < CalendarEnd
  PROVE  /\ MonthOf(d) \in Months
         /\ MonthStart[MonthOf(d)] <= d /\ d < MonthStart[MonthOf(d) + 1]
         /\ \A m \in Months : MonthStart[m] <= d /\ d < MonthStart[m + 1] => m = MonthOf(d)
<1> DEFINE S == {m \in 1..Len(MonthStart) : MonthStart[m] <= d}
<1>1. S \in SUBSET Nat /\ 1 \in S /\ \A m \in S : m <= Len(MonthStart)
  BY MonthBounds
<1>2. PICK m \in S : \A n \in S : n <= m
  BY <1>1, GreatestNatural, MonthBounds
<1>3. m # Len(MonthStart)
  BY MonthBounds DEF CalendarEnd
<1>4. m \in Months /\ m + 1 \in 1..Len(MonthStart) /\ m + 1 \notin S
  BY <1>2, <1>3, MonthBounds DEF Months
<1>5. MonthStart[m] <= d /\ d < MonthStart[m + 1]
  BY <1>4, MonthBounds
<1>6. ASSUME NEW i \in Months, NEW j \in Months, MonthStart[i] <= d, d < MonthStart[i + 1],
             MonthStart[j] <= d, d < MonthStart[j + 1]
      PROVE  i = j
  <2>1. ASSUME NEW a \in Months, NEW b \in Months, a < b,
               d < MonthStart[a + 1], MonthStart[b] <= d
        PROVE  FALSE
    <3>1. a + 1 \in 1..Len(MonthStart) /\ b \in 1..Len(MonthStart) /\ a + 1 <= b
      BY <2>1, MonthBounds DEF Months
    <3>2. MonthStart[a + 1] <= MonthStart[b] /\ MonthStart[a + 1] \in Nat /\ MonthStart[b] \in Nat
      BY <3>1, MonthsFollow, MonthBounds
    <3> QED
      BY <2>1, <3>2
  <2>2. i \in Nat /\ j \in Nat
    BY MonthBounds DEF Months
  <2> QED
    BY <1>6, <2>1, <2>2
<1> QED
  BY <1>4, <1>5, <1>6 DEF MonthOf

-----------------------------------------------------------------------------
(* Dates of the code. *)

\* Shown, for the call c.
Moved(c, hour) ==
  IF hour # 24 * c.without THEN hour ELSE IF c.west THEN hour - 1 ELSE hour + 1

\* The date "hour" stands for day k, on a walk that began on day "lo".
Near(c, lo, k, hour) ==
  /\ lo <= k
  /\ \/ hour = 24 * k /\ c.without # k
     \/ c.without \in lo..k /\ hour = 24 * k + (IF c.west THEN -1 ELSE 1)

LEMMA CallFields ==
  ASSUME NEW c \in Call
  PROVE  /\ c.rule \in RuleArgument /\ c.start \in Nat /\ c.end \in Nat \cup {NoEnd}
         /\ c.windowStart \in Nat /\ c.windowEnd \in Nat
         /\ c.without \in Int /\ c.without # 0 /\ c.west \in BOOLEAN
         /\ c.windowEnd < CalendarEnd
<1>1. CalendarEnd \in Nat
  BY MonthBounds DEF CalendarEnd
<1>2. /\ c.rule \in RuleArgument /\ c.start \in Nat /\ c.end \in Nat \cup {NoEnd}
      /\ c.windowStart \in Nat /\ c.windowEnd \in 0..(CalendarEnd - 1)
      /\ c.without \in (Nat \ {0}) \cup {NoDay} /\ c.west \in BOOLEAN
  BY DEF Call, CalendarEnd
<1> QED
  BY <1>1, <1>2 DEF NoDay

LEMMA NearMidnight ==
  ASSUME NEW c \in Call, NEW k \in Int
  PROVE  Near(c, k, k, Moved(c, 24 * k)) /\ Moved(c, 24 * k) \in Int
<1>1. c.without \in Int
  BY CallFields
<1> QED
  BY <1>1 DEF Near, Moved

\* A walk of days goes on from what it shows.
LEMMA NearLater ==
  ASSUME NEW c \in Call, NEW lo \in Int, NEW k \in Int, NEW hour, Near(c, lo, k, hour),
         NEW n \in Nat, n > 0
  PROVE  Near(c, lo, k + n, Moved(c, hour + 24 * n))
<1>1. c.without \in Int
  BY CallFields
<1> QED
  BY <1>1 DEF Near, Moved

LEMMA NearWider ==
  ASSUME NEW c \in Call, NEW lo \in Int, NEW less \in Int, NEW k \in Int, NEW hour,
         Near(c, lo, k, hour), less <= lo
  PROVE  Near(c, less, k, hour)
<1>1. c.without \in Int
  BY CallFields
<1> QED
  BY <1>1 DEF Near

\* The day that is shown is the day that is meant, or the eve of it.
LEMMA NearDay ==
  ASSUME NEW c \in Call, NEW lo \in Int, NEW k \in Int, NEW hour, Near(c, lo, k, hour)
  PROVE  /\ hour \in Int /\ DayOf(hour) \in Int
         /\ 24 * k - 1 <= hour /\ hour <= 24 * k + 1
         /\ \/ DayOf(hour) = k
            \/ c.west /\ c.without \in lo..k /\ DayOf(hour) = k - 1
BY DEF Near, DayOf

\* Dates are compared by the days that are meant, unless these are the same.
LEMMA NearLess ==
  ASSUME NEW c \in Call, NEW lo \in Int, NEW k \in Int, NEW hour, Near(c, lo, k, hour),
         NEW other \in Int, NEW j \in Int, NEW later, Near(c, other, j, later)
  PROVE  /\ k < j => hour < later
         /\ hour <= later => k <= j
         /\ k = j => \/ hour = later
                     \/ c.west /\ c.without \in lo..(k - 1) /\ hour = later - 1
                     \/ c.west /\ c.without \in other..(k - 1) /\ later = hour - 1
                     \/ ~ c.west /\ c.without \in lo..(k - 1) /\ hour = later + 1
                     \/ ~ c.west /\ c.without \in other..(k - 1) /\ later = hour + 1
<1>1. c.without \in Int /\ c.west \in BOOLEAN
  BY CallFields
<1> QED
  BY <1>1 DEF Near

-----------------------------------------------------------------------------
(* The window of a call, and what is expected of it. *)

First(c) == IF c.start > c.windowStart THEN c.start ELSE c.windowStart

Last(c) == IF c.end # NoEnd /\ c.end < c.windowEnd THEN c.end ELSE c.windowEnd

\* Expected and Reached, for the call c.
ExpectedOf(c) == Occurrences(c.rule, c.start, c.end, c.windowStart, c.windowEnd)

Bottom(c) == MonthStart[MonthOf(IF c.start < c.windowStart THEN c.start ELSE c.windowStart)]

ReachedBy(c) == c.without \in Bottom(c)..c.windowEnd

\* West of Greenwich a walk that meets a day without a midnight is lost from its eve on.
Lost(c) == ReachedBy(c) /\ c.west

Returned(c, through_, s) ==
  /\ ~ ReachedBy(c) => Contents(s) = ExpectedOf(c)
  /\ ~ c.west => ExpectedOf(c) \ {DayOf(through_)} \subseteq Contents(s)
                 /\ Contents(s) \subseteq ExpectedOf(c)
  /\ ~ Lost(c) => InOrder(s)
  /\ ReachedBy(c) => {d \in Contents(s) : d < c.without - 1} =
                     {d \in ExpectedOf(c) : d < c.without - 1}

LEMMA ExpectedDays ==
  ASSUME NEW c \in Call
  PROVE  ExpectedOf(c) = {d \in First(c)..Last(c) : Matches(c.rule, c.start, d)}
<1>1. /\ c.start \in Nat /\ c.end \in Nat \cup {NoEnd} /\ NoEnd = -1
      /\ c.windowStart \in Nat /\ c.windowEnd \in Nat
  BY CallFields DEF NoEnd
<1>2. \A d : d \in First(c)..Last(c) <=>
        d \in c.windowStart..c.windowEnd /\ d >= c.start /\ (c.end # NoEnd => d <= c.end)
  BY <1>1 DEF First, Last
<1> QED
  BY <1>2 DEF ExpectedOf, Occurrences

\* What is said of a call whose window is not empty.
LEMMA CallBounds ==
  ASSUME NEW c \in Call, First(c) <= Last(c)
  PROVE  /\ First(c) \in Nat /\ Last(c) \in Nat
         /\ Last(c) < CalendarEnd /\ Last(c) <= c.windowEnd
         /\ Bottom(c) \in Nat /\ c.start \in Nat
         /\ Bottom(c) <= c.start /\ Bottom(c) <= c.windowStart
         /\ c.start <= First(c) /\ c.windowStart <= First(c)
         /\ \A d \in First(c)..Last(c) : Bottom(c) <= MonthStart[MonthOf(d)]
<1>1. c.windowEnd < CalendarEnd
  BY CallFields
<1>2. /\ c.start \in Nat /\ c.end \in Nat \cup {NoEnd} /\ NoEnd = -1
      /\ c.windowStart \in Nat /\ c.windowEnd \in Nat
  BY <1>1, CallFields DEF NoEnd
<1>3. /\ First(c) \in Nat /\ Last(c) \in Nat
      /\ Last(c) <= c.windowEnd /\ c.start <= First(c) /\ c.windowStart <= First(c)
  BY <1>1, <1>2 DEF First, Last
<1> DEFINE least == IF c.start < c.windowStart THEN c.start ELSE c.windowStart
<1>4. CalendarEnd \in Nat
  BY MonthBounds DEF CalendarEnd
<1>5. least \in Nat /\ least < CalendarEnd /\ least <= First(c)
      /\ least <= c.start /\ least <= c.windowStart
  BY <1>1, <1>2, <1>3, <1>4
<1> HIDE DEF least
<1>6. MonthOf(least) \in Months /\ MonthStart[MonthOf(least)] <= least
  BY <1>5, MonthOfDay
<1>7. Bottom(c) = MonthStart[MonthOf(least)]
  BY DEF Bottom, least
<1>8. ASSUME NEW d \in First(c)..Last(c) PROVE Bottom(c) <= MonthStart[MonthOf(d)]
  <2>1. d \in Nat /\ d < CalendarEnd /\ least <= d
    BY <1>1, <1>2, <1>3, <1>4, <1>5
  <2>2. /\ MonthOf(d) \in Months /\ d < MonthStart[MonthOf(d) + 1]
        /\ MonthOf(least) \in Months /\ MonthStart[MonthOf(least)] <= least
    BY <1>5, <2>1, MonthOfDay
  <2>3. ASSUME MonthOf(d) < MonthOf(least) PROVE FALSE
    <3>1. /\ MonthOf(d) + 1 \in 1..Len(MonthStart) /\ MonthOf(least) \in 1..Len(MonthStart)
          /\ MonthOf(d) + 1 <= MonthOf(least)
      BY <2>2, <2>3, MonthBounds DEF Months
    <3>2. /\ MonthStart[MonthOf(d) + 1] <= MonthStart[MonthOf(least)]
          /\ MonthStart[MonthOf(d) + 1] \in Nat /\ MonthStart[MonthOf(least)] \in Nat
      BY <3>1, MonthsFollow, MonthBounds
    <3> QED
      BY <1>5, <2>1, <2>2, <3>2
  <2>4. MonthOf(d) \in 1..Len(MonthStart) /\ MonthOf(least) \in 1..Len(MonthStart)
        /\ MonthOf(least) <= MonthOf(d)
    BY <2>2, <2>3, MonthBounds DEF Months
  <2> QED
    BY <1>7, <2>4, MonthsFollow
<1>9. Bottom(c) \in Nat /\ Bottom(c) <= least
  BY <1>6, <1>7, MonthBounds
<1>10. Bottom(c) <= c.start /\ Bottom(c) <= c.windowStart
  BY <1>2, <1>5, <1>9
<1>11. Last(c) < CalendarEnd
  BY <1>1, <1>2, <1>3, <1>4
<1> QED
  BY <1>1, <1>2, <1>3, <1>8, <1>9, <1>10, <1>11

-----------------------------------------------------------------------------
(* A walk of the window. *)

\* The window as Clip cuts it.
WindowOk(c, f, t) ==
  /\ First(c) <= Last(c)
  /\ Near(c, First(c), First(c), f)
  /\ Near(c, c.windowStart, Last(c), t)

\* What need not be right.
Spared(c, d) == Lost(c) /\ d >= c.without - 1

\* The walk has come to day k, and has found what it had to before it.
WalkOk(c, k, s) ==
  /\ s \in Seq(Int)
  /\ \A n \in DOMAIN s : DayOf(s[n]) \in ExpectedOf(c) \/ Spared(c, DayOf(s[n]))
  /\ \A d \in ExpectedOf(c) : d < k => d \in Contents(s) \/ Spared(c, d)
  /\ ~ Lost(c) => InOrder(s) /\ \A n \in DOMAIN s : DayOf(s[n]) < k

LEMMA NothingYet ==
  ASSUME NEW c \in Call, NEW k \in Int, \A d \in ExpectedOf(c) : d < k => Spared(c, d)
  PROVE  WalkOk(c, k, <<>>)
BY DEF WalkOk, InOrder

\* The walk goes on to a later day: without a date,
LEMMA PassOver ==
  ASSUME NEW c \in Call, NEW k \in Int, NEW later \in Int, k <= later, NEW s, WalkOk(c, k, s),
         \A d \in ExpectedOf(c) : k <= d /\ d < later => Spared(c, d)
  PROVE  WalkOk(c, later, s)
<1>1. \A d \in ExpectedOf(c) : d \in Int
  BY DEF ExpectedOf, Occurrences
<1>2. \A n \in DOMAIN s : DayOf(s[n]) \in Int
  BY DEF WalkOk, DayOf
<1> QED
  BY <1>1, <1>2 DEF WalkOk

\* or with one.
LEMMA TakeDate ==
  ASSUME NEW c \in Call, NEW k \in Int, NEW later \in Int, k <= later, NEW s, WalkOk(c, k, s),
         NEW x \in Int,
         \/ DayOf(x) \in ExpectedOf(c) /\ (Lost(c) \/ (k <= DayOf(x) /\ DayOf(x) < later))
         \/ Spared(c, DayOf(x)),
         \A d \in ExpectedOf(c) : k <= d /\ d < later => d = DayOf(x) \/ Spared(c, d)
  PROVE  WalkOk(c, later, Append(s, x))
<1> DEFINE t == Append(s, x)
<1>1. /\ s \in Seq(Int) /\ Len(s) \in Nat
      /\ t \in Seq(Int) /\ DOMAIN t = 1..(Len(s) + 1) /\ DOMAIN s = 1..Len(s)
      /\ \A n \in 1..Len(s) : t[n] = s[n]
      /\ t[Len(s) + 1] = x
  BY DEF WalkOk
<1>2. \A n \in DOMAIN t : n \in DOMAIN s \/ n = Len(s) + 1
  BY <1>1
<1>3. Len(s) + 1 \in DOMAIN t /\ \A n \in DOMAIN s : n \in DOMAIN t
  BY <1>1
<1> HIDE DEF t
<1>4. \A n \in DOMAIN t : DayOf(t[n]) \in ExpectedOf(c) \/ Spared(c, DayOf(t[n]))
  BY <1>1, <1>2 DEF WalkOk
<1>5. Contents(s) \subseteq Contents(t) /\ DayOf(x) \in Contents(t)
  BY <1>1, <1>3 DEF Contents
<1>6. \A d \in ExpectedOf(c) : d \in Int
  BY DEF ExpectedOf, Occurrences
<1>7. \A d \in ExpectedOf(c) : d < later => d \in Contents(t) \/ Spared(c, d)
  BY <1>5, <1>6 DEF WalkOk
<1>8. ASSUME ~ Lost(c)
      PROVE  InOrder(t) /\ \A n \in DOMAIN t : DayOf(t[n]) < later
  <2>1. k <= DayOf(x) /\ DayOf(x) < later /\ DayOf(x) \in Int
    BY <1>8 DEF Spared, DayOf
  <2>2. /\ \A n \in DOMAIN s : DayOf(s[n]) < k /\ DayOf(s[n]) \in Int
        /\ \A m, n \in DOMAIN s : m < n => DayOf(s[m]) < DayOf(s[n])
    BY <1>8 DEF WalkOk, InOrder, DayOf
  <2>3. \A n \in DOMAIN t : DayOf(t[n]) < later
    BY <1>1, <1>2, <2>1, <2>2
  <2>4. ASSUME NEW m \in DOMAIN t, NEW n \in DOMAIN t, m < n
        PROVE  DayOf(t[m]) < DayOf(t[n])
    <3>1. m \in DOMAIN s
      BY <1>1, <2>4
    <3>2. CASE n \in DOMAIN s
      BY <1>1, <2>2, <2>4, <3>1, <3>2
    <3>3. CASE n = Len(s) + 1
      BY <1>1, <2>1, <2>2, <3>1, <3>3
    <3> QED
      BY <1>2, <3>2, <3>3
  <2> QED
    BY <2>3, <2>4 DEF InOrder
<1> QED
  BY <1>1, <1>4, <1>7, <1>8 DEF WalkOk, t

\* A walk that has come to the end of the window returns what it has to.
LEMMA WalkReturns ==
  ASSUME NEW c \in Call, NEW f, NEW t, WindowOk(c, f, t), NEW k \in Int, NEW s, WalkOk(c, k, s),
         \/ Last(c) < k
         \/ Last(c) = k /\ ReachedBy(c) /\ c.without <= k
  PROVE  Returned(c, t, s)
<1>1. Last(c) \in Nat /\ c.without \in Int /\ c.west \in BOOLEAN
  BY CallBounds, CallFields DEF WindowOk
<1>2. \A d \in ExpectedOf(c) : d \in Int /\ d <= Last(c)
  BY <1>1, ExpectedDays DEF ExpectedOf, Occurrences
<1>3. \A d \in Contents(s) : d \in ExpectedOf(c) \/ Spared(c, d)
  BY DEF WalkOk, Contents
<1>4. \A d \in ExpectedOf(c) :
        \/ d \in Contents(s) \/ Spared(c, d)
        \/ d = Last(c) /\ ReachedBy(c) /\ c.without <= d /\ ~ c.west
  BY <1>1, <1>2 DEF WalkOk, Spared, Lost
<1>5. ~ c.west => DayOf(t) = Last(c)
  BY <1>1, CallFields, NearDay DEF WindowOk
<1>6. \A d \in Contents(s) : d \in Int
  BY DEF WalkOk, Contents, DayOf
<1>7. ~ ReachedBy(c) => Contents(s) = ExpectedOf(c)
  BY <1>3, <1>4 DEF Spared, Lost
<1>8. ~ c.west => ExpectedOf(c) \ {DayOf(t)} \subseteq Contents(s)
                  /\ Contents(s) \subseteq ExpectedOf(c)
  BY <1>3, <1>4, <1>5 DEF Spared, Lost
<1>9. ReachedBy(c) => {d \in Contents(s) : d < c.without - 1} =
                      {d \in ExpectedOf(c) : d < c.without - 1}
  <2> SUFFICES ASSUME ReachedBy(c), NEW d \in Int, d < c.without - 1
               PROVE  d \in Contents(s) <=> d \in ExpectedOf(c)
    BY <1>2, <1>6
  <2>1. ~ Spared(c, d)
    BY <1>1 DEF Spared
  <2>2. ~ (c.without <= d)
    BY <1>1
  <2> QED
    BY <1>3, <1>4, <2>1, <2>2
<1>10. ~ Lost(c) => InOrder(s)
  BY DEF WalkOk
<1> QED
  BY <1>7, <1>8, <1>9, <1>10 DEF Returned

-----------------------------------------------------------------------------
(* The clipped window. *)

FirstOf(c) == Moved(c, 24 * First(c))

\* The end of the window, as it is counted from today.
EndOf(c) == Moved(c, Moved(c, 24 * c.windowStart) + 24 * (c.windowEnd - c.windowStart))

LastOf(c) ==
  IF c.end # NoEnd /\ Moved(c, 24 * c.end) < EndOf(c) THEN Moved(c, 24 * c.end) ELSE EndOf(c)

LEMMA FirstIsFirst ==
  ASSUME NEW c \in Call
  PROVE  FirstOf(c) = IF Moved(c, 24 * c.start) > Moved(c, 24 * c.windowStart)
                      THEN Moved(c, 24 * c.start) ELSE Moved(c, 24 * c.windowStart)
<1> DEFINE a == c.start
           b == c.windowStart
<1>1. a \in Int /\ b \in Int
  BY CallFields
<1>2. Near(c, a, a, Moved(c, 24 * a)) /\ Near(c, b, b, Moved(c, 24 * b))
      /\ Moved(c, 24 * a) \in Int /\ Moved(c, 24 * b) \in Int
  BY <1>1, NearMidnight
<1>3. /\ a < b => Moved(c, 24 * a) < Moved(c, 24 * b)
      /\ b < a => Moved(c, 24 * b) < Moved(c, 24 * a)
  BY <1>1, <1>2, NearLess
<1> QED
  BY <1>1, <1>2, <1>3 DEF FirstOf, First

LEMMA EndIsEnd ==
  ASSUME NEW c \in Call
  PROVE  /\ c.windowStart <= c.windowEnd => Near(c, c.windowStart, c.windowEnd, EndOf(c))
         /\ EndOf(c) < Moved(c, 24 * c.windowStart) <=> c.windowEnd < c.windowStart
<1> DEFINE today == Moved(c, 24 * c.windowStart)
           n == c.windowEnd - c.windowStart
<1>1. c.windowStart \in Int /\ c.windowEnd \in Int /\ c.without \in Int /\ c.west \in BOOLEAN
  BY CallFields
<1>2. Near(c, c.windowStart, c.windowStart, today) /\ today \in Int /\ today # 24 * c.without
  <2>1. today # 24 * c.without
    BY <1>1 DEF Moved
  <2> QED
    BY <1>1, <2>1, NearMidnight
<1>3. EndOf(c) = Moved(c, today + 24 * n) /\ n \in Int /\ c.windowStart + n = c.windowEnd
  BY <1>1 DEF EndOf
<1> HIDE DEF n
<1>4. CASE n > 0
  <2>1. Near(c, c.windowStart, c.windowEnd, EndOf(c))
    <3>1. n \in Nat
      BY <1>3, <1>4
    <3> HIDE DEF today
    <3>2. Near(c, c.windowStart, c.windowStart + n, Moved(c, today + 24 * n))
      BY <1>1, <1>2, <1>4, <3>1, NearLater
    <3> QED
      BY <1>3, <3>2
  <2>2. today < EndOf(c) /\ EndOf(c) \in Int /\ c.windowStart < c.windowEnd
    BY <1>1, <1>2, <1>3, <1>4, <2>1, NearLess, NearDay
  <2> QED
    BY <1>1, <1>2, <1>3, <1>4, <2>1, <2>2
<1>5. CASE n = 0
  <2>1. c.windowStart = c.windowEnd
    BY <1>1, <1>3, <1>5
  <2>2. EndOf(c) = today
    <3>1. today + 24 * n = today
      BY <1>2, <1>5
    <3> HIDE DEF today
    <3> QED
      BY <1>2, <1>3, <3>1 DEF Moved
  <2>3. ~ (EndOf(c) < today)
    BY <1>2, <2>2
  <2> QED
    BY <1>1, <1>2, <2>1, <2>2, <2>3
<1>6. CASE n < 0
  <2>1. today >= 24 * c.windowStart - 1 /\ today <= 24 * c.windowStart + 1
    BY <1>1, <1>2, NearDay
  <2>2. EndOf(c) <= today + 24 * n + 1 /\ EndOf(c) \in Int
    BY <1>1, <1>2, <1>3 DEF Moved
  <2> QED
    BY <1>1, <1>2, <1>3, <1>6, <2>1, <2>2
<1>7. n > 0 \/ n = 0 \/ n < 0
  BY <1>3
<1> QED
  BY <1>4, <1>5, <1>6, <1>7

LEMMA LastIsLast ==
  ASSUME NEW c \in Call, c.windowStart <= c.windowEnd
  PROVE  \E lo \in {c.windowStart, Last(c)} :
           lo \in Int /\ lo <= Last(c) /\ Near(c, lo, Last(c), LastOf(c))
<1>1. /\ c.windowStart \in Int /\ c.windowEnd \in Int /\ c.end \in Int
  BY CallFields DEF NoEnd
<1>2. Near(c, c.windowStart, c.windowEnd, EndOf(c))
  BY EndIsEnd
<1>3. Near(c, c.end, c.end, Moved(c, 24 * c.end)) /\ Moved(c, 24 * c.end) \in Int
  BY <1>1, NearMidnight
<1>4. EndOf(c) \in Int
  BY <1>1, <1>2, NearDay
<1>5. /\ c.end < c.windowEnd => Moved(c, 24 * c.end) < EndOf(c)
      /\ c.windowEnd < c.end => EndOf(c) < Moved(c, 24 * c.end)
  BY <1>1, <1>2, <1>3, NearLess
<1>6. CASE c.end # NoEnd /\ Moved(c, 24 * c.end) < EndOf(c)
  <2>1. LastOf(c) = Moved(c, 24 * c.end) /\ Last(c) = c.end
    BY <1>1, <1>3, <1>4, <1>5, <1>6 DEF LastOf, Last
  <2> QED
    BY <1>1, <1>3, <2>1
<1>7. CASE ~ (c.end # NoEnd /\ Moved(c, 24 * c.end) < EndOf(c))
  <2>1. LastOf(c) = EndOf(c) /\ Last(c) = c.windowEnd
    BY <1>1, <1>3, <1>4, <1>5, <1>7 DEF LastOf, Last
  <2> QED
    BY <1>1, <1>2, <2>1
<1> QED
  BY <1>6, <1>7

\* What is left of the window when it is not empty, and what is lost when it is.
LEMMA Clipped ==
  ASSUME NEW c \in Call
  PROVE  IF EndOf(c) < Moved(c, 24 * c.windowStart) \/ LastOf(c) < FirstOf(c)
         THEN Returned(c, 0, <<>>)
         ELSE WindowOk(c, FirstOf(c), LastOf(c))
<1> DEFINE empty == EndOf(c) < Moved(c, 24 * c.windowStart) \/ LastOf(c) < FirstOf(c)
<1>2. /\ c.windowStart \in Nat /\ c.windowEnd \in Nat /\ c.start \in Nat /\ c.end \in Int
      /\ NoEnd = -1 /\ c.without \in Int /\ c.west \in BOOLEAN
      /\ First(c) \in Nat /\ Last(c) \in Int /\ c.windowStart <= First(c)
      /\ Last(c) <= c.windowEnd /\ c.end \in Nat \cup {NoEnd}
  BY CallFields DEF NoEnd, First, Last
<1>3. Near(c, First(c), First(c), FirstOf(c)) /\ FirstOf(c) \in Int
  BY <1>2, NearMidnight DEF FirstOf
<1>4. EndOf(c) < Moved(c, 24 * c.windowStart) <=> c.windowEnd < c.windowStart
  BY EndIsEnd
<1>5. CASE c.windowEnd < c.windowStart
  <2>1. ExpectedOf(c) = {}
    BY <1>2, <1>5, ExpectedDays
  <2> QED
    BY <1>4, <1>5, <2>1 DEF Returned, Contents, InOrder
<1>6. CASE c.windowStart <= c.windowEnd
  <2>1. PICK lo \in {c.windowStart, Last(c)} :
          lo \in Int /\ lo <= Last(c) /\ Near(c, lo, Last(c), LastOf(c))
    BY <1>6, LastIsLast
  <2>2. LastOf(c) \in Int
    BY <1>2, <2>1, NearDay
  <2>3. First(c) <= Last(c) => Near(c, c.windowStart, Last(c), LastOf(c))
    <3>1. CASE lo = c.windowStart
      BY <2>1, <3>1
    <3>2. CASE lo = Last(c) /\ First(c) <= Last(c)
      <4>1. c.windowStart <= lo
        BY <1>2, <2>1, <3>2
      <4> QED
        BY <1>2, <2>1, <4>1, NearWider
    <3> QED
      BY <2>1, <3>1, <3>2
  <2>4. CASE FirstOf(c) <= LastOf(c)
    <3>1. First(c) <= Last(c)
      BY <1>2, <1>3, <2>1, <2>4, NearLess
    <3> QED
      BY <1>2, <1>3, <1>4, <1>6, <2>2, <2>3, <2>4, <3>1 DEF WindowOk
  <2>5. CASE LastOf(c) < FirstOf(c)
    <3>1. ASSUME NEW d \in ExpectedOf(c) PROVE Lost(c) /\ d >= c.without
      <4>1. d \in First(c)..Last(c)
        BY <3>1, ExpectedDays
      <4>2. ~ (First(c) < Last(c))
        BY <1>2, <1>3, <2>1, <2>2, <2>5, NearLess
      <4>3. First(c) = Last(c) /\ d = First(c) /\ First(c) <= Last(c)
        BY <1>2, <4>1, <4>2
      <4>4. c.west /\ c.without \in c.windowStart..(First(c) - 1)
        <5>1. Near(c, c.windowStart, Last(c), LastOf(c))
          BY <2>3, <4>3
        <5>2. \/ FirstOf(c) = LastOf(c)
              \/ c.west /\ c.without \in First(c)..(First(c) - 1) /\ FirstOf(c) = LastOf(c) - 1
              \/ c.west /\ c.without \in c.windowStart..(First(c) - 1) /\ LastOf(c) = FirstOf(c) - 1
              \/ ~ c.west /\ c.without \in First(c)..(First(c) - 1) /\ FirstOf(c) = LastOf(c) + 1
              \/ ~ c.west /\ c.without \in c.windowStart..(First(c) - 1) /\ LastOf(c) = FirstOf(c) + 1
          BY <1>2, <1>3, <4>3, <5>1, NearLess
        <5> QED
          BY <1>2, <1>3, <2>2, <2>5, <5>2
      <4>5. Bottom(c) \in Nat /\ Bottom(c) <= c.windowStart
        BY <4>3, CallBounds
      <4> QED
        BY <1>2, <4>3, <4>4, <4>5 DEF Lost, ReachedBy
    <3>2. ExpectedOf(c) # {} => Lost(c)
      BY <3>1
    <3>3. \A d \in ExpectedOf(c) : ~ (d < c.without - 1)
      <4>1. \A d \in ExpectedOf(c) : d \in Int
        BY DEF ExpectedOf, Occurrences
      <4> QED
        BY <1>2, <3>1, <4>1
    <3>4. Contents(<<>>) = {} /\ InOrder(<<>>)
      BY DEF Contents, InOrder
    <3> QED
      BY <1>2, <2>5, <3>2, <3>3, <3>4 DEF Returned, Lost
  <2> QED
    BY <1>3, <2>2, <2>4, <2>5
<1> QED
  BY <1>2, <1>5, <1>6

-----------------------------------------------------------------------------
(* The loops over days. *)

\* A walk past the window has come to a day after it, or lost the last one.
LEMMA PastTheWindow ==
  ASSUME NEW c \in Call, NEW f, NEW t, WindowOk(c, f, t), NEW k \in Int, NEW h,
         Near(c, Bottom(c), k, h), h > t
  PROVE  \/ Last(c) < k
         \/ Last(c) = k /\ ReachedBy(c) /\ c.without <= k
<1>1. /\ Last(c) \in Int /\ c.windowStart \in Int /\ Bottom(c) \in Int
      /\ Bottom(c) <= c.windowStart /\ Last(c) <= c.windowEnd /\ c.windowEnd \in Int
      /\ c.without \in Int
  BY CallBounds, CallFields DEF WindowOk
<1>2. Near(c, c.windowStart, Last(c), t)
  BY DEF WindowOk
<1>3. h \in Int /\ t \in Int
  BY <1>1, <1>2, NearDay
<1>4. ~ (k < Last(c))
  BY <1>1, <1>2, <1>3, NearLess
<1>5. k = Last(c) => c.without \in Bottom(c)..(k - 1) \/ c.without \in c.windowStart..(k - 1)
  <2> SUFFICES ASSUME k = Last(c)
               PROVE  c.without \in Bottom(c)..(k - 1) \/ c.without \in c.windowStart..(k - 1)
    OBVIOUS
  <2>1. \/ h = t
        \/ c.without \in Bottom(c)..(k - 1)
        \/ c.without \in c.windowStart..(k - 1)
    BY <1>1, <1>2, NearLess
  <2> QED
    BY <1>3, <2>1
<1> QED
  BY <1>1, <1>4, <1>5 DEF ReachedBy

\* A date the walk has come to, within the window.
LEMMA WithinTheWindow ==
  ASSUME NEW c \in Call, NEW f, NEW t, WindowOk(c, f, t), NEW k \in Int, NEW h,
         Near(c, Bottom(c), k, h), First(c) <= k, h <= t
  PROVE  /\ h \in Int /\ k \in First(c)..Last(c)
         /\ \/ DayOf(h) = k
            \/ Spared(c, DayOf(h)) /\ \A d \in Int : k <= d => Spared(c, d)
<1>1. /\ Last(c) \in Int /\ c.windowStart \in Int /\ Bottom(c) \in Int
      /\ First(c) \in Int /\ Last(c) <= c.windowEnd /\ c.windowEnd \in Int
      /\ c.without \in Int
  BY CallBounds, CallFields DEF WindowOk
<1>2. Near(c, c.windowStart, Last(c), t)
  BY DEF WindowOk
<1>3. h \in Int /\ t \in Int
  BY <1>1, <1>2, NearDay
<1>4. k <= Last(c)
  BY <1>1, <1>2, <1>3, NearLess
<1>5. \/ DayOf(h) = k
      \/ c.west /\ c.without \in Bottom(c)..k /\ DayOf(h) = k - 1
  BY <1>1, NearDay
<1>6. c.west /\ c.without \in Bottom(c)..k /\ DayOf(h) = k - 1 =>
        Spared(c, DayOf(h)) /\ \A d \in Int : k <= d => Spared(c, d)
  BY <1>1, <1>4 DEF Spared, Lost, ReachedBy
<1> QED
  BY <1>1, <1>3, <1>4, <1>5, <1>6

LEMMA OneStride ==
  ASSUME NEW n \in Nat \ {0}, NEW a \in Nat, a % n = 0
  PROVE  /\ (a + n) % n = 0
         /\ \A b \in Nat : b % n = 0 /\ a <= b /\ b < a + n => b = a
<1>1. PICK p \in Nat : a = n * p
  BY SMT
<1>2. (a + n) % n = 0
  BY <1>1, SMT
<1>3. ASSUME NEW b \in Nat, b % n = 0, a <= b, b < a + n PROVE b = a
  <2>1. PICK q \in Nat : b = n * q
    BY <1>3, SMT
  <2>2. p <= q /\ q < p + 1
    BY <1>1, <1>3, <2>1, SMT
  <2> QED
    BY <1>1, <2>1, <2>2
<1> QED
  BY <1>2, <1>3

-----------------------------------------------------------------------------
(* The loop over months. *)

\* The date of the rule in month m, as time.Date gives it.
DateIn(c, m) == Moved(c, 24 * (MonthStart[m] + c.rule.day - 1))

\* The comparisons it has to pass.
Passes(c, m, f, t) ==
  MonthOf(DayOf(DateIn(c, m))) = m /\ DateIn(c, m) >= f /\ DateIn(c, m) <= t

LEMMA DateInMonth ==
  ASSUME NEW c \in Call, NEW m \in Months, c.rule.day \in 1..31
  PROVE  LET k == MonthStart[m] + c.rule.day - 1
         IN k \in Nat /\ MonthStart[m] <= k /\ Near(c, k, k, DateIn(c, m)) /\ DateIn(c, m) \in Int
<1> DEFINE k == MonthStart[m] + c.rule.day - 1
<1>1. MonthStart[m] \in Nat
  BY MonthBounds
<1>2. k \in Nat /\ MonthStart[m] <= k
  BY <1>1
<1> HIDE DEF k
<1>3. Near(c, k, k, Moved(c, 24 * k)) /\ Moved(c, 24 * k) \in Int
  BY <1>2, NearMidnight
<1> QED
  BY <1>2, <1>3 DEF DateIn, k

\* A date that passes is expected, or one of the lost.
LEMMA PassingIsExpected ==
  ASSUME NEW c \in Call, c.rule.type = "monthly_day", c.rule.day \in 1..31,
         NEW f, NEW t, WindowOk(c, f, t), NEW m \in Months, Passes(c, m, f, t)
  PROVE  LET x == DateIn(c, m)
         IN \/ Spared(c, DayOf(x))
            \/ /\ DayOf(x) \in ExpectedOf(c)
               /\ MonthStart[m] <= DayOf(x) /\ DayOf(x) < MonthStart[m + 1]
<1> DEFINE k == MonthStart[m] + c.rule.day - 1
           x == DateIn(c, m)
<1>1. k \in Nat /\ MonthStart[m] <= k /\ Near(c, k, k, x) /\ x \in Int
  BY DateInMonth
<1>2. /\ Last(c) \in Nat /\ First(c) \in Nat /\ c.windowStart \in Nat /\ c.windowEnd \in Nat
      /\ Bottom(c) \in Nat /\ Bottom(c) <= First(c) /\ Last(c) <= c.windowEnd
      /\ Last(c) < CalendarEnd /\ c.without \in Int /\ CalendarEnd \in Nat
  BY CallBounds, CallFields, MonthBounds DEF WindowOk, CalendarEnd
<1>3. Near(c, First(c), First(c), f) /\ Near(c, c.windowStart, Last(c), t)
  BY DEF WindowOk
<1> HIDE DEF k
<1>4. f <= x /\ x <= t
  <2>1. f \in Int /\ t \in Int
    BY <1>2, <1>3, NearDay
  <2> QED
    BY <1>1, <2>1 DEF Passes
<1>5. k \in First(c)..Last(c)
  BY <1>1, <1>2, <1>3, <1>4, NearLess
<1>6. CASE DayOf(x) = k
  <2>1. MonthOf(k) = m /\ MonthStart[m] <= k /\ k < MonthStart[m + 1]
    BY <1>1, <1>2, <1>5, <1>6, MonthOfDay DEF Passes
  <2>2. MonthStart[m] \in Nat /\ MonthStart[m + 1] \in Nat
    BY MonthBounds
  <2>3. IsMonthDay(k, m, c.rule.day)
    BY <2>1, <2>2 DEF IsMonthDay, MonthLength, k
  <2>4. k \in ExpectedOf(c)
    BY <1>5, <2>3, ExpectedDays DEF Matches
  <2> QED
    BY <1>6, <2>1, <2>4
<1>7. CASE c.west /\ c.without = k /\ DayOf(x) = k - 1
  BY <1>1, <1>2, <1>5, <1>7 DEF Spared, Lost, ReachedBy
<1> QED
  BY <1>1, <1>6, <1>7, NearDay

\* What is expected in a month is the date of that month, which passes.
LEMMA ExpectedPasses ==
  ASSUME NEW c \in Call, c.rule.type = "monthly_day", c.rule.day \in 1..31,
         NEW f, NEW t, WindowOk(c, f, t), NEW m \in Months,
         NEW d \in ExpectedOf(c), MonthStart[m] <= d, d < MonthStart[m + 1], ~ Spared(c, d)
  PROVE  Passes(c, m, f, t) /\ DayOf(DateIn(c, m)) = d
<1> DEFINE k == MonthStart[m] + c.rule.day - 1
           x == DateIn(c, m)
<1>1. k \in Nat /\ MonthStart[m] <= k /\ Near(c, k, k, x) /\ x \in Int
  BY DateInMonth
<1>2. /\ Last(c) \in Nat /\ First(c) \in Nat /\ c.windowStart \in Nat /\ c.windowEnd \in Nat
      /\ Bottom(c) \in Nat /\ Bottom(c) <= First(c) /\ Last(c) <= c.windowEnd
      /\ Bottom(c) <= c.windowStart
      /\ Last(c) < CalendarEnd /\ c.without \in Int /\ CalendarEnd \in Nat /\ c.west \in BOOLEAN
  BY CallBounds, CallFields, MonthBounds DEF WindowOk, CalendarEnd
<1>3. Near(c, First(c), First(c), f) /\ Near(c, c.windowStart, Last(c), t)
      /\ f \in Int /\ t \in Int
  BY <1>2, NearDay DEF WindowOk
<1>4. d \in First(c)..Last(c) /\ d < CalendarEnd /\ d \in Nat /\ Matches(c.rule, c.start, d)
  BY <1>2, ExpectedDays
<1>5. m = MonthOf(d)
  BY <1>4, MonthOfDay
<1>6. d = k
  <2>1. PICK n \in Months : IsMonthDay(d, n, c.rule.day)
    BY <1>4 DEF Matches
  <2>2. MonthStart[n] <= d /\ d < MonthStart[n + 1] /\ d = MonthStart[n] + c.rule.day - 1
    <3>1. MonthStart[n] \in Nat /\ MonthStart[n + 1] \in Nat
      BY MonthBounds
    <3> QED
      BY <1>4, <2>1, <3>1 DEF IsMonthDay, MonthLength
  <2>3. n = m
    BY <1>4, <1>5, <2>2, MonthOfDay
  <2> QED
    BY <2>2, <2>3
<1> HIDE DEF k
<1>7. DayOf(x) = k
  <2>1. \/ DayOf(x) = k
        \/ c.west /\ c.without \in k..k
    BY <1>1, NearDay
  <2>2. c.west /\ c.without \in k..k => Spared(c, d)
    BY <1>1, <1>2, <1>4, <1>6 DEF Spared, Lost, ReachedBy
  <2> QED
    BY <2>1, <2>2
<1>8. x >= f
  <2>1. CASE First(c) < k
    BY <1>1, <1>2, <1>3, <2>1, NearLess
  <2>2. CASE First(c) = k
    <3>1. \/ f = x
          \/ c.without \in k..(k - 1)
      BY <1>1, <1>2, <1>3, <2>2, NearLess
    <3> QED
      BY <1>1, <1>2, <1>3, <3>1
  <2> QED
    BY <1>2, <1>4, <1>6, <2>1, <2>2
<1>9. x <= t
  <2>1. CASE k < Last(c)
    BY <1>1, <1>2, <1>3, <2>1, NearLess
  <2>2. CASE k = Last(c)
    <3>1. \/ x = t
          \/ c.without \in k..(k - 1)
          \/ c.west /\ c.without \in c.windowStart..(k - 1)
          \/ t = x + 1
      BY <1>1, <1>2, <1>3, <2>2, NearLess
    <3>2. c.west /\ c.without \in c.windowStart..(k - 1) => Spared(c, d)
      BY <1>1, <1>2, <1>6, <2>2 DEF Spared, Lost, ReachedBy
    <3> QED
      BY <1>1, <1>2, <1>3, <3>1, <3>2
  <2> QED
    BY <1>2, <1>4, <1>6, <2>1, <2>2
<1> QED
  BY <1>5, <1>6, <1>7, <1>8, <1>9 DEF Passes

\* The walk of the months is at the first day of one, or lost.
MonthsOk(c, h, s) ==
  \/ \E m \in 1..Len(MonthStart) :
       Near(c, Bottom(c), MonthStart[m], h) /\ WalkOk(c, MonthStart[m], s)
  \/ Lost(c) /\ h \in Nat /\ WalkOk(c, Last(c) + 1, s)

\* A lost walk takes nothing that was not expected before the eve of the lost day.
LEMMA LostMonth ==
  ASSUME NEW c \in Call, c.rule.type = "monthly_day", c.rule.day \in 1..31,
         NEW f, NEW t, WindowOk(c, f, t), NEW h \in Nat, h <= t, NEW s,
         Lost(c), WalkOk(c, Last(c) + 1, s)
  PROVE  LET m == MonthOf(DayOf(h))
         IN MonthsOk(c, Moved(c, h + 24 * MonthLength(m)),
                     IF Passes(c, m, f, t) THEN Append(s, DateIn(c, m)) ELSE s)
<1> DEFINE m == MonthOf(DayOf(h))
<1>1. /\ Last(c) \in Nat /\ Last(c) < CalendarEnd /\ c.windowStart \in Int /\ CalendarEnd \in Nat
      /\ Near(c, c.windowStart, Last(c), t) /\ c.without \in Int
  BY CallBounds, CallFields, MonthBounds DEF WindowOk, CalendarEnd
<1>2. t \in Int /\ t <= 24 * Last(c) + 1
  BY <1>1, NearDay
<1>3. DayOf(h) \in Nat /\ DayOf(h) < CalendarEnd
  BY <1>1, <1>2 DEF DayOf
<1>4. m \in Months
  BY <1>3, MonthOfDay
<1> HIDE DEF m
<1>5. MonthLength(m) \in Nat /\ MonthLength(m) > 0
  <2>1. MonthStart[m] \in Nat /\ MonthStart[m + 1] \in Nat /\ MonthStart[m] + 28 <= MonthStart[m + 1]
    BY <1>4, MonthBounds
  <2> QED
    BY <2>1 DEF MonthLength
<1>6. Moved(c, h + 24 * MonthLength(m)) \in Nat
  BY <1>1, <1>5 DEF Moved
<1>7. DateIn(c, m) \in Int
  BY <1>4, DateInMonth
<1>8. ASSUME Passes(c, m, f, t)
      PROVE  WalkOk(c, Last(c) + 1, Append(s, DateIn(c, m)))
  <2>1. DayOf(DateIn(c, m)) \in ExpectedOf(c) \/ Spared(c, DayOf(DateIn(c, m)))
    BY <1>4, <1>8, PassingIsExpected
  <2>2. Last(c) + 1 \in Int /\ \A d \in ExpectedOf(c) : ~ (Last(c) + 1 <= d /\ d < Last(c) + 1)
    BY <1>1 DEF ExpectedOf, Occurrences
  <2> QED
    BY <1>1, <1>7, <2>1, <2>2, TakeDate
<1> QED
  BY <1>6, <1>8 DEF MonthsOk, m

LEMMA OneMonth ==
  ASSUME NEW c \in Call, c.rule.type = "monthly_day", c.rule.day \in 1..31,
         NEW f, NEW t, WindowOk(c, f, t), NEW h, h <= t, NEW s, MonthsOk(c, h, s)
  PROVE  LET m == MonthOf(DayOf(h))
         IN MonthsOk(c, Moved(c, h + 24 * MonthLength(m)),
                     IF Passes(c, m, f, t) THEN Append(s, DateIn(c, m)) ELSE s)
<1>1. /\ Last(c) \in Nat /\ Last(c) < CalendarEnd /\ Last(c) <= c.windowEnd /\ c.windowStart \in Int
      /\ CalendarEnd \in Nat
      /\ Near(c, c.windowStart, Last(c), t) /\ c.without \in Int /\ c.without # 0
      /\ Bottom(c) \in Nat /\ c.windowEnd \in Int
  BY CallBounds, CallFields, MonthBounds DEF WindowOk, CalendarEnd
<1>2. t \in Int
  BY <1>1, NearDay
<1>3. CASE Lost(c) /\ h \in Nat /\ WalkOk(c, Last(c) + 1, s)
  BY <1>3, LostMonth
<1>4. ASSUME NEW n \in 1..Len(MonthStart), Near(c, Bottom(c), MonthStart[n], h),
             WalkOk(c, MonthStart[n], s)
      PROVE  LET m == MonthOf(DayOf(h))
             IN MonthsOk(c, Moved(c, h + 24 * MonthLength(m)),
                         IF Passes(c, m, f, t) THEN Append(s, DateIn(c, m)) ELSE s)
  <2>1. MonthStart[n] \in Nat /\ h \in Int
    BY <1>1, <1>4, MonthBounds, NearDay
  <2>2. MonthStart[n] <= Last(c)
    BY <1>1, <1>2, <1>4, <2>1, NearLess
  <2>3. n \in Months
    <3>1. n # Len(MonthStart)
      BY <1>1, <2>1, <2>2 DEF CalendarEnd
    <3> QED
      BY <3>1, MonthBounds DEF Months
  <2>4. /\ n + 1 \in 1..Len(MonthStart) /\ MonthStart[n + 1] \in Nat
        /\ MonthStart[n] + 28 <= MonthStart[n + 1]
    BY <2>3, MonthBounds
  <2>5. CASE DayOf(h) = MonthStart[n]
    <3>1. MonthOf(DayOf(h)) = n
      BY <1>1, <2>1, <2>2, <2>3, <2>4, <2>5, MonthOfDay
    <3>2. MonthLength(n) \in Nat /\ MonthLength(n) > 0
          /\ MonthStart[n] + MonthLength(n) = MonthStart[n + 1]
      BY <2>1, <2>4 DEF MonthLength
    <3>3. Near(c, Bottom(c), MonthStart[n + 1], Moved(c, h + 24 * MonthLength(n)))
      <4>1. Near(c, Bottom(c), MonthStart[n] + MonthLength(n), Moved(c, h + 24 * MonthLength(n)))
        BY <1>1, <1>4, <2>1, <3>2, NearLater
      <4> QED
        BY <3>2, <4>1
    <3>4. CASE Passes(c, n, f, t)
      <4>1. /\ DateIn(c, n) \in Int
            /\ \/ Spared(c, DayOf(DateIn(c, n)))
               \/ /\ DayOf(DateIn(c, n)) \in ExpectedOf(c)
                  /\ MonthStart[n] <= DayOf(DateIn(c, n)) /\ DayOf(DateIn(c, n)) < MonthStart[n + 1]
        BY <2>3, <3>4, PassingIsExpected, DateInMonth
      <4>2. \A d \in ExpectedOf(c) : MonthStart[n] <= d /\ d < MonthStart[n + 1] =>
              d = DayOf(DateIn(c, n)) \/ Spared(c, d)
        BY <2>3, ExpectedPasses
      <4>3. MonthStart[n] <= MonthStart[n + 1]
        BY <2>1, <2>4
      <4>4. WalkOk(c, MonthStart[n + 1], Append(s, DateIn(c, n)))
        BY <1>4, <2>1, <2>4, <4>1, <4>2, <4>3, TakeDate
      <4> QED
        BY <2>4, <3>1, <3>3, <3>4, <4>4 DEF MonthsOk
    <3>5. CASE ~ Passes(c, n, f, t)
      <4>1. \A d \in ExpectedOf(c) : MonthStart[n] <= d /\ d < MonthStart[n + 1] => Spared(c, d)
        BY <2>3, <3>5, ExpectedPasses
      <4>2. MonthStart[n] <= MonthStart[n + 1]
        BY <2>1, <2>4
      <4>3. WalkOk(c, MonthStart[n + 1], s)
        BY <1>4, <2>1, <2>4, <4>1, <4>2, PassOver
      <4> QED
        BY <2>4, <3>1, <3>3, <3>5, <4>3 DEF MonthsOk
    <3> QED
      BY <3>4, <3>5
  <2>6. CASE c.west /\ c.without \in Bottom(c)..MonthStart[n] /\ DayOf(h) = MonthStart[n] - 1
    <3>1. Lost(c) /\ \A d \in Int : d >= MonthStart[n] => Spared(c, d)
      BY <1>1, <2>1, <2>2, <2>6 DEF Spared, Lost, ReachedBy
    <3>2. h \in Nat
      BY <1>1, <1>4, <2>1, <2>6, NearDay
    <3>3. \A d \in ExpectedOf(c) : d \in Int
      BY DEF ExpectedOf, Occurrences
    <3>4. WalkOk(c, Last(c) + 1, s)
      <4>1. MonthStart[n] <= Last(c) + 1 /\ Last(c) + 1 \in Int
        BY <1>1, <2>1, <2>2
      <4> QED
        BY <1>4, <2>1, <3>1, <3>3, <4>1, PassOver
    <3> QED
      BY <3>1, <3>2, <3>4, LostMonth
  <2> QED
    BY <1>1, <1>4, <2>1, <2>5, <2>6, NearDay
<1> QED
  BY <1>3, <1>4 DEF MonthsOk

\* It begins with the month of the window's first day.
LEMMA FirstMonth ==
  ASSUME NEW c \in Call, NEW f, NEW t, WindowOk(c, f, t)
  PROVE  MonthsOk(c, Moved(c, 24 * MonthStart[MonthOf(DayOf(f))]), <<>>)
<1>1. /\ First(c) \in Nat /\ First(c) <= Last(c) /\ Last(c) \in Nat /\ Last(c) < CalendarEnd
      /\ Last(c) <= c.windowEnd /\ c.windowEnd \in Int /\ CalendarEnd \in Nat
      /\ Near(c, First(c), First(c), f) /\ c.without \in Int /\ c.without # 0
      /\ Bottom(c) \in Nat /\ Bottom(c) <= MonthStart[MonthOf(First(c))]
      /\ Bottom(c) <= c.windowStart /\ c.windowStart <= First(c) /\ c.windowStart \in Int
  BY CallBounds, CallFields, MonthBounds DEF WindowOk, CalendarEnd
<1>2. \A d \in ExpectedOf(c) : d \in Int /\ First(c) <= d
  BY <1>1, ExpectedDays DEF ExpectedOf, Occurrences
<1>3. CASE DayOf(f) = First(c)
  <2> DEFINE m == MonthOf(First(c))
  <2>1. m \in Months /\ MonthStart[m] <= First(c)
    BY <1>1, MonthOfDay
  <2>2. m \in 1..Len(MonthStart) /\ MonthStart[m] \in Nat
    BY <2>1, MonthBounds
  <2> HIDE DEF m
  <2>3. Near(c, Bottom(c), MonthStart[m], Moved(c, 24 * MonthStart[m]))
    <3>1. Bottom(c) <= MonthStart[m]
      BY <1>1 DEF m
    <3>2. PICK k \in Nat : k = MonthStart[m]
      BY <2>2
    <3>3. Near(c, k, k, Moved(c, 24 * k))
      BY NearMidnight
    <3>4. Near(c, Bottom(c), k, Moved(c, 24 * k))
      BY <1>1, <3>1, <3>2, <3>3, NearWider
    <3> QED
      BY <3>2, <3>4
  <2>4. WalkOk(c, MonthStart[m], <<>>)
    BY <1>1, <1>2, <2>1, <2>2, NothingYet
  <2> QED
    BY <1>3, <2>2, <2>3, <2>4 DEF MonthsOk, m
<1>4. CASE c.west /\ c.without = First(c) /\ DayOf(f) = First(c) - 1
  <2> DEFINE m == MonthOf(First(c) - 1)
  <2>1. m \in Months /\ MonthStart[m] <= First(c) - 1
    BY <1>1, <1>4, MonthOfDay
  <2>2. MonthStart[m] \in Nat
    BY <2>1, MonthBounds
  <2> HIDE DEF m
  <2>3. Moved(c, 24 * MonthStart[m]) \in Nat
    BY <1>1, <1>4, <2>1, <2>2 DEF Moved
  <2>4. Lost(c) /\ \A d \in ExpectedOf(c) : Spared(c, d)
    BY <1>1, <1>2, <1>4 DEF Spared, Lost, ReachedBy
  <2>5. WalkOk(c, Last(c) + 1, <<>>)
    BY <1>1, <2>4, NothingYet
  <2> QED
    BY <1>4, <2>3, <2>4, <2>5 DEF MonthsOk, m
<1> QED
  BY <1>1, <1>3, <1>4, NearDay

-----------------------------------------------------------------------------
(* What a rule expects of each loop. *)

LEMMA DaysExpected ==
  ASSUME NEW c \in Call, c.rule.type = "daily"
  PROVE  ExpectedOf(c) = First(c)..Last(c)
BY ExpectedDays DEF Matches

LEMMA WeekdaysExpected ==
  ASSUME NEW c \in Call, c.rule.type = "weekly_days"
  PROVE  ExpectedOf(c) = {d \in First(c)..Last(c) : Weekday(d) \in c.rule.weekdays}
BY ExpectedDays DEF Matches

LEMMA OneExpected ==
  ASSUME NEW c \in Call, c.rule.type = "one_off"
  PROVE  ExpectedOf(c) = {d \in First(c)..Last(c) : d = c.start}
BY ExpectedDays DEF Matches

\* Day k is a whole number of strides from the start.
OnStride(c, k) == c.start <= k /\ (k - c.start) % c.rule.interval = 0

Strides(c) == c.rule.type = "every_n_days" /\ c.rule.interval \in 1..3650

LEMMA StrideLength ==
  ASSUME NEW c, Strides(c)
  PROVE  c.rule.interval \in Nat \ {0}
<1> DEFINE S == 1..3650
<1>1. c.rule.interval \in S
  BY DEF Strides
<1>2. \A i \in S : i \in Nat \ {0}
  OBVIOUS
<1> HIDE DEF S
<1> QED
  BY <1>1, <1>2

LEMMA StridesExpected ==
  ASSUME NEW c \in Call, Strides(c)
  PROVE  /\ \A d \in ExpectedOf(c) : d \in First(c)..Last(c) /\ OnStride(c, d)
         /\ \A d \in First(c)..Last(c) : OnStride(c, d) => d \in ExpectedOf(c)
<1>1. ExpectedOf(c) = {d \in First(c)..Last(c) : (d - c.start) % c.rule.interval = 0}
  BY ExpectedDays DEF Matches, Strides
<1>3. c.start \in Nat /\ c.windowStart \in Nat
  BY CallFields
<1>4. First(c) \in Nat /\ c.start <= First(c)
  BY <1>3 DEF First
<1>5. \A d \in First(c)..Last(c) : c.start <= d
  <2>1. \A d \in First(c)..Last(c) : First(c) <= d /\ d \in Int
    BY <1>4
  <2> QED
    BY <1>3, <1>4, <2>1
<1>6. ASSUME NEW d \in ExpectedOf(c)
      PROVE  d \in First(c)..Last(c) /\ OnStride(c, d)
  <2>1. d \in First(c)..Last(c) /\ (d - c.start) % c.rule.interval = 0
    BY <1>1, Zenon
  <2>2. c.start <= d
    BY <1>5, <2>1, Zenon
  <2> QED
    BY <2>1, <2>2, Zenon DEF OnStride
<1>7. ASSUME NEW d \in First(c)..Last(c), OnStride(c, d) PROVE d \in ExpectedOf(c)
  <2>1. (d - c.start) % c.rule.interval = 0
    BY <1>7, Zenon DEF OnStride
  <2> QED
    BY <1>1, <2>1, Zenon
<1> QED
  BY <1>6, <1>7, Zenon

\* Between two strides nothing is expected.
LEMMA NextStride ==
  ASSUME NEW c \in Call, Strides(c), NEW k \in Int, OnStride(c, k)
  PROVE  LET next == k + c.rule.interval
         IN /\ OnStride(c, next)
            /\ \A d \in ExpectedOf(c) : k <= d /\ d < next => d = k
<1>1. PICK n \in Nat \ {0} : n = c.rule.interval
  BY StrideLength, Zenon
<1>2. c.start \in Nat /\ c.start <= k /\ (k - c.start) % n = 0
  <2>1. c.start \in Nat
    BY CallFields
  <2>2. c.start <= k /\ (k - c.start) % c.rule.interval = 0
    BY Zenon DEF OnStride
  <2> QED
    BY <1>1, <2>1, <2>2, Zenon
<1>3. PICK a \in Nat : a = k - c.start
  BY <1>2
<1>4. a % n = 0
  BY <1>2, <1>3, Zenon
<1>5. (a + n) % n = 0 /\ \A b \in Nat : b % n = 0 /\ a <= b /\ b < a + n => b = a
  BY <1>4, OneStride
<1>6. (k + n) - c.start = a + n /\ k = a + c.start /\ c.start <= k + n
  BY <1>2, <1>3
<1>7. OnStride(c, k + n)
  <2>1. ((k + n) - c.start) % n = 0
    BY <1>5, <1>6, Zenon
  <2>2. ((k + n) - c.start) % c.rule.interval = 0
    BY <1>1, <2>1, Zenon
  <2>3. c.start <= k + n
    BY <1>6, Zenon
  <2> QED
    BY <2>2, <2>3, Zenon DEF OnStride
<1>8. ASSUME NEW d \in ExpectedOf(c), k <= d, d < k + n PROVE d = k
  <2>1. d \in First(c)..Last(c) /\ c.start <= d /\ (d - c.start) % n = 0
    <3>1. d \in First(c)..Last(c) /\ OnStride(c, d)
      BY StridesExpected, Zenon
    <3>2. c.start <= d /\ (d - c.start) % c.rule.interval = 0
      BY <3>1, Zenon DEF OnStride
    <3> QED
      BY <1>1, <3>1, <3>2, Zenon
  <2>2. d \in Int
    BY <2>1
  <2>3. PICK b \in Nat : b = d - c.start
    BY <1>2, <2>1, <2>2
  <2>4. b % n = 0
    BY <2>1, <2>3, Zenon
  <2>5. a <= b /\ b < a + n
    BY <1>2, <1>6, <1>8, <2>2, <2>3
  <2>6. b = a
    BY <1>5, <2>4, <2>5, Zenon
  <2> QED
    BY <1>2, <1>6, <2>2, <2>3, <2>6
<1> QED
  BY <1>1, <1>7, <1>8, Zenon

\* One date of a loop over days, taken or passed over.
LEMMA OneDate ==
  ASSUME NEW c \in Call, NEW f, NEW t, WindowOk(c, f, t), NEW k \in Int, NEW h, h <= t,
         First(c) <= k, Near(c, Bottom(c), k, h), NEW s, WalkOk(c, k, s),
         NEW n \in Nat, n > 0, \A d \in ExpectedOf(c) : k <= d /\ d < k + n => d = k
  PROVE  /\ First(c) <= k + n /\ Near(c, Bottom(c), k + n, Moved(c, h + 24 * n))
         /\ (DayOf(h) = k => k \in ExpectedOf(c)) => WalkOk(c, k + n, Append(s, h))
         /\ (DayOf(h) = k => k \notin ExpectedOf(c)) => WalkOk(c, k + n, s)
<1>1. First(c) \in Nat /\ Bottom(c) \in Nat
  BY CallBounds DEF WindowOk
<1>2. /\ h \in Int /\ k \in First(c)..Last(c)
      /\ \/ DayOf(h) = k
         \/ Spared(c, DayOf(h)) /\ \A d \in Int : k <= d => Spared(c, d)
  BY WithinTheWindow
<1>3. First(c) <= k + n /\ Near(c, Bottom(c), k + n, Moved(c, h + 24 * n))
  BY <1>1, NearLater
<1>4. \A d \in ExpectedOf(c) : d \in Int
  BY DEF ExpectedOf, Occurrences
<1>5. k + n \in Int /\ k <= k + n /\ k < k + n
  OBVIOUS
<1>6. ASSUME DayOf(h) = k => k \in ExpectedOf(c)
      PROVE  WalkOk(c, k + n, Append(s, h))
  <2>1. \/ DayOf(h) \in ExpectedOf(c) /\ (Lost(c) \/ (k <= DayOf(h) /\ DayOf(h) < k + n))
        \/ Spared(c, DayOf(h))
    BY <1>2, <1>5, <1>6
  <2>2. \A d \in ExpectedOf(c) : k <= d /\ d < k + n => d = DayOf(h) \/ Spared(c, d)
    BY <1>2, <1>4
  <2> QED
    BY <1>2, <1>5, <2>1, <2>2, TakeDate
<1>7. ASSUME DayOf(h) = k => k \notin ExpectedOf(c)
      PROVE  WalkOk(c, k + n, s)
  <2>1. \A d \in ExpectedOf(c) : k <= d /\ d < k + n => Spared(c, d)
    BY <1>2, <1>4, <1>7
  <2> QED
    BY <1>5, <2>1, PassOver
<1> QED
  BY <1>3, <1>6, <1>7

\* A stride before the window.
LEMMA StrideBefore ==
  ASSUME NEW c \in Call, NEW f, NEW t, WindowOk(c, f, t), NEW k \in Int, NEW h, h < f,
         Near(c, Bottom(c), k, h), NEW s, WalkOk(c, k, s),
         NEW n \in Nat, n > 0, \A d \in ExpectedOf(c) : k <= d /\ d < k + n => d = k
  PROVE  WalkOk(c, k + n, s) /\ Near(c, Bottom(c), k + n, Moved(c, h + 24 * n))
<1>1. /\ First(c) \in Nat /\ Bottom(c) \in Nat /\ Last(c) \in Nat /\ First(c) <= Last(c)
      /\ Last(c) <= c.windowEnd /\ c.windowEnd \in Nat /\ c.without \in Int /\ c.west \in BOOLEAN
  BY CallBounds, CallFields DEF WindowOk
<1>2. Near(c, First(c), First(c), f)
  BY DEF WindowOk
<1>3. h \in Int /\ f \in Int
  BY <1>1, <1>2, NearDay
<1>4. Near(c, Bottom(c), k + n, Moved(c, h + 24 * n))
  BY <1>1, NearLater
<1>5. k <= First(c)
  BY <1>1, <1>2, <1>3, NearLess
<1>6. \A d \in ExpectedOf(c) : d \in First(c)..Last(c)
  BY ExpectedDays
<1>7. CASE k < First(c)
  <2>1. \A d \in ExpectedOf(c) : ~ (k <= d /\ d < k + n)
    BY <1>1, <1>6, <1>7
  <2>2. k + n \in Int /\ k <= k + n
    OBVIOUS
  <2>3. WalkOk(c, k + n, s)
    BY <2>1, <2>2, PassOver
  <2> QED
    BY <1>4, <2>3
<1>8. CASE k = First(c)
  <2>1. \/ h = f
        \/ c.west /\ c.without \in Bottom(c)..(k - 1)
        \/ c.without \in First(c)..(k - 1)
        \/ h = f + 1
    BY <1>1, <1>2, <1>8, NearLess
  <2>2. c.west /\ c.without \in Bottom(c)..(k - 1)
    BY <1>1, <1>3, <1>8, <2>1
  <2>3. \A d \in ExpectedOf(c) : Spared(c, d)
    BY <1>1, <1>6, <1>8, <2>2 DEF Spared, Lost, ReachedBy
  <2>4. k + n \in Int /\ k <= k + n
    OBVIOUS
  <2>5. WalkOk(c, k + n, s)
    BY <2>3, <2>4, PassOver
  <2> QED
    BY <1>4, <2>5
<1> QED
  BY <1>1, <1>5, <1>7, <1>8

-----------------------------------------------------------------------------
(* The invariant. *)

\* Where the loop of each rule is.
OneOff(c, h, s) == s = <<>> /\ h = Moved(c, 24 * c.start)

DayWalk(c, h, s) ==
  \E k \in Int : First(c) <= k /\ Near(c, Bottom(c), k, h) /\ WalkOk(c, k, s)

Skipping(c, h, s) ==
  \E k \in Int : OnStride(c, k) /\ Near(c, Bottom(c), k, h) /\ WalkOk(c, k, s)

Striding(c, h, s) ==
  \E k \in Int : /\ OnStride(c, k) /\ First(c) <= k
                 /\ Near(c, Bottom(c), k, h) /\ WalkOk(c, k, s)

Walking(c, p, f, t, h, s) ==
  /\ ValidRule(c.rule)
  /\ WindowOk(c, f, t)
  /\ p = "skip" => c.rule.type = "every_n_days" /\ Skipping(c, h, s)
  /\ p = "walk" => CASE c.rule.type = "one_off" -> OneOff(c, h, s)
                     [] c.rule.type \in {"daily", "weekly_days"} -> DayWalk(c, h, s)
                     [] c.rule.type = "every_n_days" -> Striding(c, h, s)
                     [] c.rule.type = "monthly_day" -> MonthsOk(c, h, s)

LoopInv ==
  /\ call \in Calls
  /\ pc = "clip" => through = 0
  /\ pc \in {"clip", "error"} => dates = <<>>
  /\ pc = "done" => Returned(call, through, dates)
  /\ pc \in {"skip", "walk"} => Walking(call, pc, from, through, date, dates)

\* A rule's fields are what its type needs.
LEMMA RuleFields ==
  ASSUME NEW c \in Call, ValidRule(c.rule)
  PROVE  /\ c.rule.type \in RuleType
         /\ c.rule.type = "every_n_days" => Strides(c)
         /\ c.rule.type = "monthly_day" => c.rule.day \in 1..31
<1>1. c.rule.type \in RuleType
  BY DEF ValidRule, Rule
<1>2. c.rule.type = "every_n_days" => Strides(c)
  BY DEF ValidRule, Strides
<1>3. c.rule.type = "monthly_day" => c.rule.day \in 1..31
  BY DEF ValidRule
<1> QED
  BY <1>1, <1>2, <1>3

\* Each loop, at its start.
LEMMA FirstDays ==
  ASSUME NEW c \in Call, NEW f, NEW t, WindowOk(c, f, t), f = FirstOf(c)
  PROVE  DayWalk(c, f, <<>>)
<1>1. First(c) \in Nat /\ Bottom(c) \in Nat /\ Bottom(c) <= First(c)
  BY CallBounds, CallFields DEF WindowOk
<1>2. Near(c, First(c), First(c), f)
  BY DEF WindowOk
<1>3. Near(c, Bottom(c), First(c), f)
  BY <1>1, <1>2, NearWider
<1>4. \A d \in ExpectedOf(c) : ~ (d < First(c))
  BY <1>1, ExpectedDays
<1>5. WalkOk(c, First(c), <<>>)
  BY <1>1, <1>4, NothingYet
<1> QED
  BY <1>1, <1>3, <1>5 DEF DayWalk

LEMMA FirstStride ==
  ASSUME NEW c \in Call, Strides(c), NEW f, NEW t, WindowOk(c, f, t)
  PROVE  Skipping(c, Moved(c, 24 * c.start), <<>>)
<1>1. /\ First(c) \in Nat /\ Bottom(c) \in Nat /\ Bottom(c) <= c.start /\ c.start \in Nat
      /\ c.start <= First(c)
  BY CallBounds DEF WindowOk
<1>2. PICK k \in Nat : k = c.start
  BY <1>1
<1>3. Near(c, k, k, Moved(c, 24 * k))
  BY NearMidnight
<1>4. Near(c, Bottom(c), k, Moved(c, 24 * k))
  BY <1>1, <1>2, <1>3, NearWider
<1>5. \A d \in ExpectedOf(c) : ~ (d < k)
  BY <1>1, <1>2, ExpectedDays
<1>6. WalkOk(c, k, <<>>)
  BY <1>1, <1>5, NothingYet
<1>7. OnStride(c, k)
  <2>1. PICK n \in Nat \ {0} : n = c.rule.interval
    BY StrideLength, Zenon
  <2>2. 0 % n = 0
    OBVIOUS
  <2>3. k - c.start = 0 /\ c.start <= k
    BY <1>1, <1>2
  <2>4. (k - c.start) % c.rule.interval = 0
    BY <2>1, <2>2, <2>3, Zenon
  <2> QED
    BY <2>3, <2>4, Zenon DEF OnStride
<1> QED
  BY <1>2, <1>4, <1>6, <1>7 DEF Skipping

-----------------------------------------------------------------------------
(* The actions. *)

LEMMA Dates ==
  ASSUME NEW d, NEW n
  PROVE  Midnight(d) = Moved(call, 24 * d) /\ AddDays(d, n) = Moved(call, d + 24 * n)
BY DEF Midnight, AddDays, Shown, Moved

LEMMA InitWalks == Init => LoopInv
BY DEF Init, LoopInv

LEMMA RefuseKeeps ==
  ASSUME LoopInv, Refuse
  PROVE  LoopInv'
BY DEF LoopInv, Refuse

\* Clip, in the terms of the lemmas on the window.
LEMMA ClipIs ==
  ASSUME LoopInv, Clip
  PROVE  /\ call \in Call /\ ValidRule(call.rule) /\ dates = <<>> /\ through = 0
         /\ call' = call /\ dates' = dates
         /\ IF EndOf(call) < Moved(call, 24 * call.windowStart) \/ LastOf(call) < FirstOf(call)
            THEN pc' = "done" /\ through' = through
            ELSE /\ from' = FirstOf(call) /\ through' = LastOf(call)
                 /\ date' = FirstDate(FirstOf(call))
                 /\ pc' = IF rule.type = "every_n_days" THEN "skip" ELSE "walk"
<1> DEFINE today == Midnight(call.windowStart)
           windowEnd == AddDays(today, call.windowEnd - call.windowStart)
           first == IF Midnight(call.start) > today THEN Midnight(call.start) ELSE today
           last == IF call.end # NoEnd /\ Midnight(call.end) < windowEnd
                   THEN Midnight(call.end) ELSE windowEnd
<1>1. /\ ValidRule(call.rule) /\ dates = <<>> /\ through = 0 /\ call' = call /\ dates' = dates
      /\ IF windowEnd < today \/ last < first
         THEN pc' = "done" /\ through' = through
         ELSE /\ from' = first /\ through' = last /\ date' = FirstDate(first)
              /\ pc' = IF rule.type = "every_n_days" THEN "skip" ELSE "walk"
  BY DEF LoopInv, Clip, rule
<1>2. call \in Call
  BY CallsAssumption DEF LoopInv
<1>3. today = Moved(call, 24 * call.windowStart)
  BY Dates, Zenon
<1>4. windowEnd = EndOf(call)
  BY <1>3, Dates, Zenon DEF EndOf
<1>5. first = FirstOf(call)
  BY <1>2, <1>3, Dates, FirstIsFirst, Zenon
<1>6. last = LastOf(call)
  BY <1>4, Dates, Zenon DEF LastOf
<1> HIDE DEF today, windowEnd, first, last
<1> QED
  BY <1>1, <1>2, <1>3, <1>4, <1>5, <1>6, Zenon

LEMMA ClipKeeps ==
  ASSUME LoopInv, Clip
  PROVE  LoopInv'
<1> DEFINE empty == EndOf(call) < Moved(call, 24 * call.windowStart) \/ LastOf(call) < FirstOf(call)
<1>1. /\ call \in Call /\ ValidRule(call.rule) /\ dates = <<>> /\ through = 0
      /\ call' = call /\ dates' = dates
      /\ IF empty
         THEN pc' = "done" /\ through' = through
         ELSE /\ from' = FirstOf(call) /\ through' = LastOf(call)
              /\ date' = FirstDate(FirstOf(call))
              /\ pc' = IF rule.type = "every_n_days" THEN "skip" ELSE "walk"
  BY ClipIs
<1>2. IF empty THEN Returned(call, 0, <<>>) ELSE WindowOk(call, FirstOf(call), LastOf(call))
  BY <1>1, Clipped
<1>3. call \in Calls
  BY DEF LoopInv
<1> HIDE DEF empty
<1>4. CASE empty
  BY <1>1, <1>2, <1>3, <1>4 DEF LoopInv
<1>5. CASE ~ empty
  <2> DEFINE f == FirstOf(call)
             t == LastOf(call)
  <2>1. /\ from' = f /\ through' = t /\ date' = FirstDate(f) /\ dates' = <<>>
        /\ pc' = IF call.rule.type = "every_n_days" THEN "skip" ELSE "walk"
        /\ WindowOk(call, f, t)
    BY <1>1, <1>2, <1>5 DEF rule
  <2>2. f = FirstOf(call)
    OBVIOUS
  <2> HIDE DEF f, t
  <2>3. /\ call.rule.type \in RuleType
        /\ call.rule.type = "every_n_days" => Strides(call)
    BY <1>1, RuleFields
  <2>4. CASE call.rule.type \in {"daily", "weekly_days"}
    <3>1. date' = f /\ pc' = "walk"
      BY <2>1, <2>4 DEF FirstDate, rule
    <3>2. DayWalk(call, f, <<>>)
      BY <1>1, <2>1, <2>2, FirstDays
    <3> QED
      BY <1>1, <1>3, <2>1, <2>4, <3>1, <3>2 DEF LoopInv, Walking
  <2>5. CASE call.rule.type = "one_off"
    <3>1. date' = Moved(call, 24 * call.start) /\ pc' = "walk"
      BY <2>1, <2>5, Dates DEF FirstDate, rule
    <3> QED
      BY <1>1, <1>3, <2>1, <2>5, <3>1 DEF LoopInv, Walking, OneOff
  <2>6. CASE call.rule.type = "every_n_days"
    <3>1. date' = Moved(call, 24 * call.start) /\ pc' = "skip"
      BY <2>1, <2>6, Dates DEF FirstDate, rule
    <3>2. Skipping(call, Moved(call, 24 * call.start), <<>>)
      BY <1>1, <2>1, <2>3, <2>6, FirstStride
    <3> QED
      BY <1>1, <1>3, <2>1, <2>6, <3>1, <3>2 DEF LoopInv, Walking
  <2>7. CASE call.rule.type = "monthly_day"
    <3>1. date' = Moved(call, 24 * MonthStart[MonthOf(DayOf(f))]) /\ pc' = "walk"
      BY <2>1, <2>7, Dates DEF FirstDate, rule
    <3>2. MonthsOk(call, Moved(call, 24 * MonthStart[MonthOf(DayOf(f))]), <<>>)
      BY <1>1, <2>1, FirstMonth
    <3> QED
      BY <1>1, <1>3, <2>1, <2>7, <3>1, <3>2 DEF LoopInv, Walking
  <2> QED
    BY <2>3, <2>4, <2>5, <2>6, <2>7 DEF RuleType
<1> QED
  BY <1>4, <1>5

LEMMA StrideKeeps ==
  ASSUME LoopInv, Stride
  PROVE  LoopInv'
<1>1. /\ call \in Call /\ call \in Calls /\ pc = "skip"
      /\ ValidRule(call.rule) /\ WindowOk(call, from, through)
      /\ call.rule.type = "every_n_days" /\ Skipping(call, date, dates)
  BY CallsAssumption DEF LoopInv, Walking, Stride
<1>2. Strides(call)
  BY <1>1, RuleFields
<1>3. call' = call /\ from' = from /\ through' = through /\ dates' = dates
  BY DEF Stride
<1>4. PICK k \in Int : /\ OnStride(call, k) /\ Near(call, Bottom(call), k, date)
                      /\ WalkOk(call, k, dates)
  BY <1>1 DEF Skipping
<1>5. CASE date < from
  <2>1. date' = Moved(call, date + 24 * call.rule.interval) /\ pc' = pc
    BY <1>5, Dates DEF Stride, rule
  <2>2. PICK n \in Nat \ {0} : n = call.rule.interval
    BY <1>2, StrideLength, Zenon
  <2>3. OnStride(call, k + n) /\ \A d \in ExpectedOf(call) : k <= d /\ d < k + n => d = k
    BY <1>1, <1>2, <1>4, <2>2, NextStride, Zenon
  <2>4. n \in Nat /\ n > 0 /\ k + n \in Int
    OBVIOUS
  <2>5. WalkOk(call, k + n, dates) /\ Near(call, Bottom(call), k + n, Moved(call, date + 24 * n))
    BY <1>1, <1>4, <1>5, <2>3, <2>4, StrideBefore
  <2>6. Skipping(call, date', dates)
    BY <2>1, <2>2, <2>3, <2>4, <2>5, Zenon DEF Skipping
  <2> QED
    BY <1>1, <1>3, <2>1, <2>6 DEF LoopInv, Walking
<1>6. CASE ~ (date < from)
  <2>1. date' = date /\ pc' = "walk"
    BY <1>6 DEF Stride
  <2>2. First(call) <= k
    <3>1. First(call) \in Int /\ Bottom(call) \in Int /\ Near(call, First(call), First(call), from)
      BY <1>1, CallBounds DEF WindowOk
    <3>2. date \in Int /\ from \in Int
      BY <1>1, <1>4, <3>1, NearDay
    <3> QED
      BY <1>1, <1>4, <1>6, <3>1, <3>2, NearLess
  <2>3. Striding(call, date, dates)
    BY <1>4, <2>2 DEF Striding
  <2> QED
    BY <1>1, <1>3, <2>1, <2>3 DEF LoopInv, Walking
<1> QED
  BY <1>5, <1>6

LEMMA WalkDateKeeps ==
  ASSUME LoopInv, WalkDate
  PROVE  LoopInv'
<1>1. /\ call \in Call /\ call \in Calls /\ pc = "walk"
      /\ ValidRule(call.rule) /\ WindowOk(call, from, through) /\ date <= through
      /\ call.rule.type \in {"daily", "weekly_days", "every_n_days"}
  BY CallsAssumption DEF LoopInv, Walking, WalkDate, rule
<1>2. /\ call' = call /\ pc' = pc /\ from' = from /\ through' = through
      /\ dates' = IF call.rule.type = "weekly_days" /\ Weekday(DayOf(date)) \notin call.rule.weekdays
                  THEN dates ELSE Append(dates, date)
  BY DEF WalkDate, rule
<1>3. CASE call.rule.type = "every_n_days"
  <2>1. PICK k \in Int : /\ OnStride(call, k) /\ First(call) <= k
                         /\ Near(call, Bottom(call), k, date) /\ WalkOk(call, k, dates)
    BY <1>1, <1>3 DEF LoopInv, Walking, Striding
  <2>2. Strides(call)
    BY <1>1, <1>3, RuleFields
  <2>3. PICK n \in Nat \ {0} : n = call.rule.interval
    BY <2>2, StrideLength, Zenon
  <2>4. OnStride(call, k + n) /\ \A d \in ExpectedOf(call) : k <= d /\ d < k + n => d = k
    BY <1>1, <2>1, <2>2, <2>3, NextStride, Zenon
  <2>5. n \in Nat /\ n > 0 /\ k + n \in Int
    OBVIOUS
  <2>6. k \in First(call)..Last(call)
    BY <1>1, <2>1, WithinTheWindow
  <2>7. k \in ExpectedOf(call)
    BY <1>1, <2>1, <2>2, <2>6, StridesExpected, Zenon
  <2>8. /\ First(call) <= k + n /\ WalkOk(call, k + n, Append(dates, date))
        /\ Near(call, Bottom(call), k + n, Moved(call, date + 24 * n))
    BY <1>1, <2>1, <2>4, <2>5, <2>7, OneDate
  <2>9. date' = Moved(call, date + 24 * call.rule.interval) /\ dates' = Append(dates, date)
    BY <1>2, <1>3, Dates DEF WalkDate, rule
  <2>10. Striding(call, date', dates')
    BY <2>3, <2>4, <2>5, <2>8, <2>9, Zenon DEF Striding
  <2> QED
    BY <1>1, <1>2, <1>3, <2>10 DEF LoopInv, Walking
<1>4. CASE call.rule.type \in {"daily", "weekly_days"}
  <2>1. PICK k \in Int : /\ First(call) <= k /\ Near(call, Bottom(call), k, date)
                         /\ WalkOk(call, k, dates)
    BY <1>1, <1>4 DEF LoopInv, Walking, DayWalk
  <2>2. \A d \in ExpectedOf(call) : k <= d /\ d < k + 1 => d = k
    BY DEF ExpectedOf, Occurrences
  <2>3. /\ First(call) <= k + 1 /\ Near(call, Bottom(call), k + 1, Moved(call, date + 24 * 1))
        /\ (DayOf(date) = k => k \in ExpectedOf(call)) => WalkOk(call, k + 1, Append(dates, date))
        /\ (DayOf(date) = k => k \notin ExpectedOf(call)) => WalkOk(call, k + 1, dates)
    BY <1>1, <2>1, <2>2, OneDate
  <2>4. k \in First(call)..Last(call)
    BY <1>1, <2>1, WithinTheWindow
  <2>5. WalkOk(call, k + 1, dates')
    <3>1. CASE call.rule.type = "daily"
      <4>1. k \in ExpectedOf(call) /\ dates' = Append(dates, date)
        BY <1>1, <1>2, <2>4, <3>1, DaysExpected
      <4> QED
        BY <2>3, <4>1
    <3>2. CASE call.rule.type = "weekly_days" /\ Weekday(DayOf(date)) \notin call.rule.weekdays
      <4>1. (DayOf(date) = k => k \notin ExpectedOf(call)) /\ dates' = dates
        BY <1>1, <1>2, <3>2, WeekdaysExpected
      <4> QED
        BY <2>3, <4>1
    <3>3. CASE call.rule.type = "weekly_days" /\ Weekday(DayOf(date)) \in call.rule.weekdays
      <4>1. (DayOf(date) = k => k \in ExpectedOf(call)) /\ dates' = Append(dates, date)
        BY <1>1, <1>2, <2>4, <3>3, WeekdaysExpected
      <4> QED
        BY <2>3, <4>1
    <3> QED
      BY <1>4, <3>1, <3>2, <3>3
  <2>6. date' = Moved(call, date + 24 * 1)
    BY <1>4, Dates DEF WalkDate, rule
  <2>7. k + 1 \in Int
    OBVIOUS
  <2>8. DayWalk(call, date', dates')
    BY <2>3, <2>5, <2>6, <2>7, Zenon DEF DayWalk
  <2> QED
    BY <1>1, <1>2, <1>4, <2>8 DEF LoopInv, Walking
<1> QED
  BY <1>1, <1>3, <1>4

LEMMA WalkMonthKeeps ==
  ASSUME LoopInv, WalkMonth
  PROVE  LoopInv'
<1> DEFINE m == MonthOf(DayOf(date))
<1>1. /\ call \in Call /\ call \in Calls /\ pc = "walk"
      /\ ValidRule(call.rule) /\ WindowOk(call, from, through) /\ date <= through
      /\ call.rule.type = "monthly_day" /\ MonthsOk(call, date, dates)
  BY CallsAssumption DEF LoopInv, Walking, WalkMonth, rule
<1>2. call.rule.day \in 1..31
  BY <1>1, RuleFields
<1>3. Midnight(MonthStart[m] + call.rule.day - 1) = DateIn(call, m)
  BY Dates, Zenon DEF DateIn
<1>4. /\ call' = call /\ pc' = pc /\ from' = from /\ through' = through
      /\ dates' = IF Passes(call, m, from, through) THEN Append(dates, DateIn(call, m)) ELSE dates
  BY <1>3 DEF WalkMonth, rule, Passes
<1>5. date' = Moved(call, date + 24 * MonthLength(m))
  BY Dates DEF WalkMonth, AddMonth
<1>6. MonthsOk(call, date', dates')
  BY <1>1, <1>2, <1>4, <1>5, OneMonth
<1> QED
  BY <1>1, <1>4, <1>6 DEF LoopInv, Walking

\* The end of each loop.
LEMMA OneOffReturns ==
  ASSUME NEW c \in Call, c.rule.type = "one_off", NEW f, NEW t, WindowOk(c, f, t),
         NEW h, h = Moved(c, 24 * c.start)
  PROVE  Returned(c, t, IF h >= f /\ h <= t THEN Append(<<>>, h) ELSE <<>>)
<1>1. /\ First(c) \in Nat /\ Last(c) \in Nat /\ First(c) <= Last(c) /\ Bottom(c) \in Nat
      /\ c.start \in Nat /\ c.windowStart \in Nat /\ Bottom(c) <= c.start
      /\ c.start <= First(c)
  BY CallBounds, CallFields DEF WindowOk
<1>2. PICK k \in Nat : k = c.start
  BY <1>1
<1>3. Near(c, k, k, h) /\ h \in Int
  BY <1>2, NearMidnight
<1>4. Near(c, Bottom(c), k, h)
  BY <1>1, <1>2, <1>3, NearWider
<1>5. Near(c, First(c), First(c), f) /\ f \in Int
  BY <1>1, NearDay DEF WindowOk
<1>6. \A d : d \in ExpectedOf(c) <=> d \in First(c)..Last(c) /\ d = k
  BY <1>2, OneExpected
<1>7. k < First(c) => h < f
  <2>1. k \in Int /\ First(c) \in Int
    BY <1>1
  <2> QED
    BY <1>3, <1>5, <2>1, NearLess
<1>8. k = First(c) => h = f
  BY <1>2, <1>5, CallFields DEF Near, Moved
<1>9. CASE k < First(c)
  <2>1. \A d \in ExpectedOf(c) : ~ (d < Last(c) + 1)
    BY <1>1, <1>6, <1>9
  <2>2. WalkOk(c, Last(c) + 1, <<>>) /\ Last(c) + 1 \in Int /\ Last(c) < Last(c) + 1
    BY <1>1, <2>1, NothingYet
  <2>3. Returned(c, t, <<>>)
    BY <2>2, WalkReturns
  <2> QED
    BY <1>3, <1>5, <1>7, <1>9, <2>3
<1>10. CASE k = First(c)
  <2>1. WalkOk(c, k, <<>>)
    <3>1. \A d \in ExpectedOf(c) : ~ (d < k)
      BY <1>6
    <3> QED
      BY <3>1, NothingYet
  <2>2. t \in Int
    BY <1>1, CallFields, NearDay DEF WindowOk
  <2>3. CASE h <= t
    <3> DEFINE n == Last(c) + 1 - k
    <3>1. n \in Nat /\ n > 0 /\ k + n = Last(c) + 1
      BY <1>1, <1>2, <1>10
    <3>2. \A d \in ExpectedOf(c) : k <= d /\ d < k + n => d = k
      BY <1>6
    <3>3. k \in ExpectedOf(c) /\ First(c) <= k
      BY <1>1, <1>6, <1>10
    <3> HIDE DEF n
    <3>4. WalkOk(c, k + n, Append(<<>>, h))
      <4>1. PICK s : s = <<>>
        OBVIOUS
      <4>2. WalkOk(c, k, s)
        BY <2>1, <4>1, Zenon
      <4>3. WalkOk(c, k + n, Append(s, h))
        BY <1>4, <2>3, <3>1, <3>2, <3>3, <4>2, OneDate
      <4> QED
        BY <4>1, <4>3, Zenon
    <3>5. Last(c) < k + n /\ k + n \in Int
      BY <1>1, <3>1
    <3>6. Returned(c, t, Append(<<>>, h))
      BY <3>4, <3>5, WalkReturns
    <3> QED
      BY <1>3, <1>8, <1>10, <2>3, <3>6
  <2>4. CASE h > t
    <3>1. Returned(c, t, <<>>)
      BY <1>4, <2>1, <2>4, PastTheWindow, WalkReturns
    <3> QED
      BY <1>3, <2>2, <2>4, <3>1
  <2> QED
    BY <1>3, <2>2, <2>3, <2>4
<1> QED
  BY <1>1, <1>2, <1>9, <1>10

LEMMA DaysReturn ==
  ASSUME NEW c \in Call, NEW f, NEW t, WindowOk(c, f, t), NEW h, h > t, NEW s, DayWalk(c, h, s)
  PROVE  Returned(c, t, s)
<1>1. PICK k \in Int : First(c) <= k /\ Near(c, Bottom(c), k, h) /\ WalkOk(c, k, s)
  BY DEF DayWalk
<1> QED
  BY <1>1, PastTheWindow, WalkReturns

LEMMA StridesReturn ==
  ASSUME NEW c \in Call, NEW f, NEW t, WindowOk(c, f, t), NEW h, h > t, NEW s, Striding(c, h, s)
  PROVE  Returned(c, t, s)
<1>1. PICK k \in Int : First(c) <= k /\ Near(c, Bottom(c), k, h) /\ WalkOk(c, k, s)
  BY DEF Striding
<1> QED
  BY <1>1, PastTheWindow, WalkReturns

LEMMA MonthsReturn ==
  ASSUME NEW c \in Call, NEW f, NEW t, WindowOk(c, f, t), NEW h, h > t, NEW s, MonthsOk(c, h, s)
  PROVE  Returned(c, t, s)
<1>1. CASE \E m \in 1..Len(MonthStart) :
             Near(c, Bottom(c), MonthStart[m], h) /\ WalkOk(c, MonthStart[m], s)
  <2>1. PICK m \in 1..Len(MonthStart) :
               Near(c, Bottom(c), MonthStart[m], h) /\ WalkOk(c, MonthStart[m], s)
    BY <1>1
  <2>2. PICK k \in Nat : k = MonthStart[m]
    BY MonthBounds
  <2>3. Near(c, Bottom(c), k, h) /\ WalkOk(c, k, s)
    BY <2>1, <2>2
  <2> QED
    BY <2>3, PastTheWindow, WalkReturns
<1>2. CASE WalkOk(c, Last(c) + 1, s)
  <2>1. Last(c) + 1 \in Int /\ Last(c) < Last(c) + 1
    BY CallBounds DEF WindowOk
  <2> QED
    BY <1>2, <2>1, WalkReturns
<1> QED
  BY <1>1, <1>2 DEF MonthsOk

LEMMA ReturnKeeps ==
  ASSUME LoopInv, Return
  PROVE  LoopInv'
<1>1. /\ call \in Call /\ call \in Calls /\ pc = "walk"
      /\ ValidRule(call.rule) /\ WindowOk(call, from, through)
  BY CallsAssumption DEF LoopInv, Walking, Return
<1>2. call' = call /\ pc' = "done" /\ from' = from /\ through' = through
  BY DEF Return
<1>3. call.rule.type \in RuleType
  BY <1>1, RuleFields
<1>4. Returned(call, through, dates')
  <2>1. CASE call.rule.type = "one_off"
    <3>1. dates = <<>> /\ date = Moved(call, 24 * call.start)
      BY <1>1, <2>1 DEF LoopInv, Walking, OneOff
    <3>2. dates' = IF date >= from /\ date <= through THEN Append(<<>>, date) ELSE <<>>
      BY <2>1, <3>1 DEF Return, rule
    <3> QED
      BY <1>1, <2>1, <3>1, <3>2, OneOffReturns
  <2>2. CASE call.rule.type # "one_off"
    <3>1. dates' = dates /\ date > through
      BY <2>2 DEF Return, rule
    <3>2. CASE call.rule.type \in {"daily", "weekly_days"}
      <4>1. DayWalk(call, date, dates)
        BY <1>1, <3>2 DEF LoopInv, Walking
      <4> QED
        BY <1>1, <3>1, <4>1, DaysReturn
    <3>3. CASE call.rule.type = "every_n_days"
      <4>1. Striding(call, date, dates)
        BY <1>1, <3>3 DEF LoopInv, Walking
      <4> QED
        BY <1>1, <3>1, <4>1, StridesReturn
    <3>4. CASE call.rule.type = "monthly_day"
      <4>1. MonthsOk(call, date, dates)
        BY <1>1, <3>4 DEF LoopInv, Walking
      <4> QED
        BY <1>1, <3>1, <4>1, MonthsReturn
    <3> QED
      BY <1>3, <2>2, <3>2, <3>3, <3>4 DEF RuleType
  <2> QED
    BY <2>1, <2>2
<1> QED
  BY <1>1, <1>2, <1>4 DEF LoopInv

LEMMA LoopStep == LoopInv /\ [Next]_vars => LoopInv'
<1> SUFFICES ASSUME LoopInv, [Next]_vars PROVE LoopInv'
  OBVIOUS
<1>1. CASE Next
  BY <1>1, RefuseKeeps, ClipKeeps, StrideKeeps, WalkDateKeeps, WalkMonthKeeps, ReturnKeeps DEF Next
<1>2. CASE UNCHANGED vars
  BY <1>2 DEF vars, LoopInv
<1> QED
  BY <1>1, <1>2

LEMMA LoopInvImplies == LoopInv => ReturnsOccurrences
<1> SUFFICES ASSUME LoopInv PROVE ReturnsOccurrences
  OBVIOUS
<1>1. ASSUME pc = "done" PROVE Returned(call, through, dates)
  BY <1>1 DEF LoopInv
<1>2. Expected = ExpectedOf(call) /\ (Reached <=> ReachedBy(call))
  BY DEF Expected, ExpectedOf, Reached, ReachedBy, Bottom, rule
<1>3. pc = "error" => dates = <<>>
  BY DEF LoopInv
<1> QED
  BY <1>1, <1>2, <1>3, Zenon DEF ReturnsOccurrences, Returned, Lost

-----------------------------------------------------------------------------
\* scheduling.Occurrences returns every date of the rule in the clipped window, no other, in
\* order and none twice, for every rule, schedule, window and calendar; and where the time
\* zone has a day without a midnight, it errs no more than ReturnsOccurrences allows.
THEOREM LoopsReturn == Spec => []ReturnsOccurrences
<1>1. Init => LoopInv
  BY InitWalks
<1>2. LoopInv /\ [Next]_vars => LoopInv'
  BY LoopStep
<1>3. LoopInv => ReturnsOccurrences
  BY LoopInvImplies
<1> QED
  BY <1>1, <1>2, <1>3, PTL DEF Spec
=============================================================================
