----------------------------- MODULE BoardProofs -----------------------------
(***************************************************************************)
(* What the daily page promises, for any number of browsers, schedules,    *)
(* dates and ids: a card of whatever age names the row it shows or none,   *)
(* and what nothing but answered buttons of its page has touched is on the *)
(* page as a reload would show it; and that the calendar pages and the     *)
(* dashboard count what the daily pages show.                              *)
(*                                                                         *)
(* Ids of rows deleted from the end of the table are given again, so that  *)
(* a card may outlive its row's id.  What makes names hold is that a new   *)
(* id lies above every row that has been there since the page was loaded.  *)
(***************************************************************************)
EXTENDS BoardPages, Numbers

-----------------------------------------------------------------------------
(* The table of rows. *)

\* The columns of a row that is there, and of none.
LEMMA RowFields ==
  /\ NoRow \notin Row
  /\ \A r \in Row : /\ r.schedule \in Schedule /\ r.due \in Nat
                    /\ r.assignee \in Person /\ r.status \in Status
                    /\ r.status # "none"
  /\ NoRow.status = "none" /\ NoRow.due = 0
BY DEF Row, NoRow, Status

\* The id a new row gets lies above those of the rows in the table.
LEMMA NextIdAbove ==
  ASSUME NEW table
  PROVE  /\ NextId(table) \in Nat \ {0}
         /\ \A i \in Id : table[i] # NoRow => i < NextId(table)
<1> DEFINE used == {i \in Id : table[i] # NoRow}
<1>1. MaxId \in Nat
  BY BoardAssumption
<1>2. used \in SUBSET Nat /\ (\A i \in used : i >= 1 /\ i <= MaxId)
  BY <1>1 DEF Id
<1>3. CASE used = {}
  BY <1>3 DEF NextId
<1>4. CASE used # {}
  <2> HIDE DEF used
  <2>1. \E m \in used : \A i \in used : i <= m
    BY <1>1, <1>2, <1>4, GreatestNatural
  <2>2. \E m \in used : \A i \in used : m >= i
    BY <1>2, <2>1
  <2>3. Max(used) \in used /\ \A i \in used : Max(used) >= i
    BY <2>2 DEF Max
  <2>4. NextId(table) = Max(used) + 1
    BY <1>4 DEF NextId, used
  <2> QED
    BY <1>2, <2>3, <2>4 DEF used
<1> QED
  BY <1>3, <1>4

\* The dates a replanning or a run may choose are finitely many.
LEMMA HorizonDates ==
  ASSUME today \in Nat, NEW dates \in SUBSET (today..(today + Horizon))
  PROVE  dates \in SUBSET Nat /\ IsFiniteSet(dates) /\ Cardinality(dates) \in Nat
<1>1. Horizon \in Nat
  BY BoardAssumption
<1>2. IsFiniteSet(today..(today + Horizon)) /\ today..(today + Horizon) \in SUBSET Nat
  BY <1>1, FS_Interval
<1> QED
  BY <1>2, FS_Subset, FS_CardinalityType

Table == [Id -> Row \cup {NoRow}]

Present(table) == {i \in Id : table[i] # NoRow}

\* No schedule has two rows of one date.
OneOfEachDate(table) ==
  \A i, j \in Present(table) :
    table[i].schedule = table[j].schedule /\ table[i].due = table[j].due => i = j

\* Inserting touches no row, and the new rows come after all there are.
LEMMA InsertedRows ==
  ASSUME NEW table \in Table, NEW s \in Schedule, NEW dates \in SUBSET Nat, IsFiniteSet(dates)
  PROVE  LET result == Inserted(table, s, dates)
         IN /\ result \in Table
            /\ \A i \in Present(table) : result[i] = table[i]
            /\ \A i \in Present(result) \ Present(table) :
                 /\ \A k \in Present(table) : k < i
                 /\ result[i].schedule = s /\ result[i].due \in dates
                 /\ result[i].status = "pending"
                 /\ \A k \in Present(result) \ Present(table) :
                      result[i].due = result[k].due => i = k
<1> SUFFICES ASSUME NEW result, result = Inserted(table, s, dates)
             PROVE  /\ result \in Table
                    /\ \A i \in Present(table) : result[i] = table[i]
                    /\ \A i \in Present(result) \ Present(table) :
                         /\ \A k \in Present(table) : k < i
                         /\ result[i].schedule = s /\ result[i].due \in dates
                         /\ result[i].status = "pending"
                         /\ \A k \in Present(result) \ Present(table) :
                              result[i].due = result[k].due => i = k
  OBVIOUS
<1> DEFINE first == NextId(table)
           size == Cardinality(dates)
           new == first..(first + size - 1)
           nth(n) == CHOOSE d \in dates : Cardinality({e \in dates : e < d}) = n
<1>1. first \in Nat \ {0} /\ \A i \in Id : table[i] # NoRow => i < first
  BY NextIdAbove
<1>2. size \in Nat
  BY FS_CardinalityType
<1>3. \A n \in 0..(size - 1) : nth(n) \in dates /\ Cardinality({e \in dates : e < nth(n)}) = n
  BY PlaceTaken
<1>4. result = [i \in Id |-> IF i \in new
                  THEN [schedule |-> s, due |-> nth(i - first),
                        assignee |-> AssigneeOf[s], status |-> "pending"]
                  ELSE table[i]]
  BY DEF Inserted
<1> HIDE DEF first, size, nth
<1>5. \A i \in Present(table) : i \notin new
  BY <1>1, <1>2 DEF Present
<1>6. \A i \in new : i - first \in 0..(size - 1)
  BY <1>1, <1>2
<1>7. ASSUME NEW i \in Id, i \in new
      PROVE  /\ result[i] \in Row /\ result[i].schedule = s
             /\ result[i].due = nth(i - first) /\ result[i].due \in dates
             /\ result[i].status = "pending"
  <2>1. PICK d \in dates : d = nth(i - first)
    BY <1>3, <1>6, <1>7
  <2>2. result[i] = [schedule |-> s, due |-> d,
                     assignee |-> AssigneeOf[s], status |-> "pending"]
    BY <1>4, <1>7, <2>1
  <2>3. AssigneeOf[s] \in Person
    BY BoardAssumption
  <2> QED
    BY <2>1, <2>2, <2>3 DEF Row, Status
<1>8. \A i \in Id \ new : result[i] = table[i]
  BY <1>4
<1>9. result \in Table
  BY <1>4, <1>7, <1>8 DEF Table
<1>10. Present(result) \ Present(table) \in SUBSET new
  BY <1>8 DEF Present
<1>11. ASSUME NEW i \in new, NEW k \in new, nth(i - first) = nth(k - first)
       PROVE  i = k
  <2>1. i - first = k - first
    BY <1>3, <1>6, <1>11
  <2> QED
    BY <1>1, <1>2, <2>1
<1>12. \A i \in Present(result) \ Present(table) : i \in Id /\ i \in new
  BY <1>10 DEF Present
<1>13. \A i \in Present(result) \ Present(table) : \A k \in Present(table) : k < i
  BY <1>1, <1>2, <1>12 DEF Present, Id
<1> QED
  BY <1>5, <1>7, <1>8, <1>9, <1>11, <1>12, <1>13 DEF Present

LEMMA InsertedDates ==
  ASSUME NEW table \in Table, OneOfEachDate(table), NEW s \in Schedule,
         NEW dates \in SUBSET Nat, IsFiniteSet(dates),
         \A i \in Present(table) : table[i].schedule = s => table[i].due \notin dates
  PROVE  OneOfEachDate(Inserted(table, s, dates))
<1> DEFINE result == Inserted(table, s, dates)
<1>1. /\ \A i \in Present(table) : result[i] = table[i]
      /\ \A i \in Present(result) \ Present(table) :
           /\ result[i].schedule = s /\ result[i].due \in dates
           /\ \A k \in Present(result) \ Present(table) :
                   result[i].due = result[k].due => i = k
  BY InsertedRows
<1> HIDE DEF result
<1> QED
  BY <1>1 DEF OneOfEachDate, result

\* Deleting what is pending from a date on leaves the other rows as they are.
LEMMA WithoutPendingRows ==
  ASSUME rows \in Table, NEW s, NEW from
  PROVE  /\ WithoutPending(s, from) \in Table
         /\ \A i \in Present(WithoutPending(s, from)) :
              i \in Ids /\ WithoutPending(s, from)[i] = rows[i]
<1> DEFINE gone(i) == rows[i].schedule = s /\ rows[i].status = "pending" /\ rows[i].due >= from
<1>1. WithoutPending(s, from) = [i \in Id |-> IF gone(i) THEN NoRow ELSE rows[i]]
  BY DEF WithoutPending
<1> HIDE DEF gone
<1> QED
  BY <1>1 DEF Table, Present, Ids

-----------------------------------------------------------------------------
(* What a step does to the table, and what it notes on a page. *)

\* Rows go and rows come: those that stay keep their occurrence, and those that come
\* have ids above them all.
Changed(gone) ==
  /\ rows' \in Table /\ OneOfEachDate(rows')
  /\ \A i \in Ids \ gone : rows'[i] # NoRow /\ SameOccurrence(rows'[i], rows[i])
  /\ \A i \in Id : /\ rows[i] = NoRow \/ i \in gone
                   /\ rows'[i] # NoRow
                   => \A k \in Ids \ gone : k < i

LEMMA PlanningChanges ==
  ASSUME rows \in Table, OneOfEachDate(rows), today \in Nat, NEW s \in Schedule,
         NEW dates \in SUBSET (today..(today + Horizon)),
         NEW kept \in Table, \A i \in Present(kept) : i \in Ids /\ kept[i] = rows[i],
         rows' = Inserted(kept, s, dates \ DatesOf(kept, s))
  PROVE  Changed({i \in Ids : kept[i] = NoRow})
<1> DEFINE new == dates \ DatesOf(kept, s)
<1>1. new \in SUBSET Nat /\ IsFiniteSet(new)
  BY HorizonDates
<1>2. \A i \in Present(kept) : kept[i].schedule = s => kept[i].due \notin new
  BY DEF DatesOf, Present
<1>3. OneOfEachDate(kept)
  BY DEF OneOfEachDate, Present, Ids
<1> HIDE DEF new
<1>4. /\ rows' \in Table
      /\ \A i \in Present(kept) : rows'[i] = kept[i]
      /\ \A i \in Present(rows') \ Present(kept) : \A k \in Present(kept) : k < i
  <2>1. kept \in Table /\ s \in Schedule /\ new \in SUBSET Nat /\ IsFiniteSet(new)
    BY <1>1
  <2>2. LET result == Inserted(kept, s, new)
         IN /\ result \in Table
            /\ \A i \in Present(kept) : result[i] = kept[i]
            /\ \A i \in Present(result) \ Present(kept) :
                 /\ \A k \in Present(kept) : k < i
                 /\ result[i].schedule = s /\ result[i].due \in new
                 /\ result[i].status = "pending"
                 /\ \A k \in Present(result) \ Present(kept) :
                      result[i].due = result[k].due => i = k
    BY <2>1, InsertedRows, Zenon
  <2>3. rows' = Inserted(kept, s, new)
    BY DEF new
  <2> QED
    BY <2>2, <2>3
<1>5. OneOfEachDate(rows')
  BY <1>1, <1>2, <1>3, InsertedDates DEF new
<1>6. \A i \in Ids : kept[i] # NoRow => i \in Present(kept)
  BY DEF Ids, Present
<1>7. \A i \in Ids \ {j \in Ids : kept[j] = NoRow} :
         rows'[i] # NoRow /\ SameOccurrence(rows'[i], rows[i])
  BY <1>4, <1>6 DEF SameOccurrence, Present
<1>8. ASSUME NEW i \in Id, rows[i] = NoRow \/ i \in {j \in Ids : kept[j] = NoRow},
             rows'[i] # NoRow
      PROVE  \A k \in Ids \ {j \in Ids : kept[j] = NoRow} : k < i
  <2>1. i \notin Present(kept)
    BY <1>8 DEF Present, Ids
  <2>2. i \in Present(rows')
    BY <1>8 DEF Present
  <2> QED
    BY <1>4, <1>6, <2>1, <2>2
<1> QED
  BY <1>4, <1>5, <1>7, <1>8 DEF Changed

LEMMA TransitionChanges ==
  ASSUME rows \in Table, OneOfEachDate(rows), NEW i \in Ids, NEW to \in Status,
         rows' = Transition(rows, i, to)
  PROVE  /\ Changed({})
         /\ rows'[i] = [rows[i] EXCEPT !.status = to]
         /\ \A j \in Id \ {i} : rows'[j] = rows[j]
<1>1. i \in Id /\ rows[i] \in Row
  BY DEF Ids, Table
<1>2. PICK r : r = [rows[i] EXCEPT !.status = to]
  OBVIOUS
<1>3. rows' = [rows EXCEPT ![i] = r]
  BY <1>2 DEF Transition
<1>4. r \in Row /\ r.schedule = rows[i].schedule /\ r.due = rows[i].due /\ r.status = to
  BY <1>1, <1>2 DEF Row
<1>5. rows'[i] = r /\ \A j \in Id \ {i} : rows'[j] = rows[j]
  BY <1>1, <1>3 DEF Table
<1>6. rows' \in Table
  BY <1>3, <1>4 DEF Table
<1>7. Present(rows') = Ids /\ Present(rows) = Ids
  BY <1>1, <1>4, <1>5, RowFields DEF Present, Ids
<1>8. OneOfEachDate(rows')
  <2>1. \A j \in Ids : rows'[j].schedule = rows[j].schedule /\ rows'[j].due = rows[j].due
    BY <1>4, <1>5 DEF Ids
  <2> QED
    BY <1>7, <2>1 DEF OneOfEachDate
<1>9. \A j \in Ids : rows'[j] # NoRow /\ SameOccurrence(rows'[j], rows[j])
  BY <1>4, <1>5, <1>7 DEF SameOccurrence, Ids, Present
<1>10. \A j \in Id : rows[j] = NoRow => rows'[j] = NoRow
  BY <1>5, <1>7 DEF Present, Ids
<1> QED
  BY <1>2, <1>5, <1>6, <1>8, <1>9, <1>10 DEF Changed

LEMMA NoTallyType == NoTally \in [Person -> [done: Nat, all: Nat]]
BY DEF NoTally

LEMMA UncountedFields ==
  ASSUME NEW page \in Page
  PROVE  LET then == Uncounted(page)
         IN /\ then \in Page
            /\ then.phase = page.phase /\ then.pressed = page.pressed
            /\ then.date = page.date /\ then.cards = page.cards
            /\ then.item = page.item /\ then.since = page.since
            /\ then.badge = page.badge /\ then.taken = page.taken
            /\ then.touched = page.touched
            /\ ~then.fresh
<1>1. PICK then : then = [page EXCEPT !.fresh = FALSE, !.tally = NoTally]
  OBVIOUS
<1>2. /\ then \in Page
      /\ then.phase = page.phase /\ then.pressed = page.pressed
      /\ then.date = page.date /\ then.cards = page.cards
      /\ then.item = page.item /\ then.since = page.since
      /\ then.badge = page.badge /\ then.taken = page.taken
      /\ then.touched = page.touched
  BY <1>1, NoTallyType DEF Page
<1>3. then.fresh = FALSE
  BY <1>1, Zenon DEF Page
<1> QED
  BY <1>1, <1>2, <1>3 DEF Uncounted

\* What is noted on a page when the table changes: which rows the change touches, on the
\* pages that did not ask for it.
NotedAs(page, then, table, gone, other) ==
  /\ then.phase = page.phase /\ then.pressed = page.pressed
  /\ then.date = page.date /\ then.cards = page.cards /\ then.item = page.item
  /\ then.badge = page.badge /\ then.taken = page.taken
  /\ then.since = page.since \ gone
  /\ then.fresh => /\ page.fresh /\ then.tally = page.tally
                   /\ other /\ page.phase \in ReadPhase => table = rows
  /\ page.phase \in ReadPhase =>
       then.touched = page.touched \cup (IF other THEN {i \in Id : table[i] # rows[i]} ELSE {})

LEMMA NotedFields ==
  ASSUME pages \in [Browser -> Page], NEW table, NEW gone, NEW others, NEW b \in Browser
  PROVE  /\ Noted(table, gone, others)[b] \in Page
         /\ NotedAs(pages[b], Noted(table, gone, others)[b], table, gone, b \in others)
<1>1. PICK page : page = pages[b]
  OBVIOUS
<1>2. page \in Page
  BY <1>1
<1>3. PICK noted : noted = [page EXCEPT !.since = @ \ gone]
  OBVIOUS
<1>4. /\ noted \in Page
      /\ noted.phase = page.phase /\ noted.pressed = page.pressed
      /\ noted.date = page.date /\ noted.cards = page.cards /\ noted.item = page.item
      /\ noted.badge = page.badge /\ noted.taken = page.taken
      /\ noted.since = page.since \ gone /\ noted.tally = page.tally
      /\ noted.touched = page.touched
  BY <1>2, <1>3 DEF Page
<1>5. noted.fresh = page.fresh
  BY <1>2, <1>3, Zenon DEF Page
<1> DEFINE touching == {i \in Id : table[i] # rows[i]}
<1>6. PICK uncounted : uncounted = Uncounted(noted)
  OBVIOUS
<1>7. /\ uncounted \in Page
      /\ uncounted.phase = page.phase /\ uncounted.pressed = page.pressed
      /\ uncounted.date = page.date /\ uncounted.cards = page.cards
      /\ uncounted.item = page.item
      /\ uncounted.badge = page.badge /\ uncounted.taken = page.taken
      /\ uncounted.since = page.since \ gone
      /\ uncounted.touched = page.touched
      /\ ~uncounted.fresh
  BY <1>4, <1>6, UncountedFields
<1>8. PICK forgotten : forgotten = [uncounted EXCEPT !.touched = @ \cup touching]
  OBVIOUS
<1>9. /\ forgotten \in Page
      /\ forgotten.phase = page.phase /\ forgotten.pressed = page.pressed
      /\ forgotten.date = page.date /\ forgotten.cards = page.cards
      /\ forgotten.item = page.item
      /\ forgotten.badge = page.badge /\ forgotten.taken = page.taken
      /\ forgotten.since = page.since \ gone
      /\ forgotten.touched = page.touched \cup touching
  BY <1>7, <1>8 DEF Page
<1>10. ~forgotten.fresh
  <2>1. forgotten.fresh = uncounted.fresh
    BY <1>7, <1>8, Zenon DEF Page
  <2> QED
    BY <1>7, <2>1
<1>11. Noted(table, gone, others)[b] =
         IF b \in others /\ table # rows /\ noted.phase \in ReadPhase THEN forgotten ELSE noted
  BY <1>1, <1>3, <1>6, <1>8 DEF Noted
<1>12. CASE b \in others /\ table # rows /\ noted.phase \in ReadPhase
  <2>1. Noted(table, gone, others)[b] = forgotten
    BY <1>11, <1>12
  <2> QED
    BY <1>1, <1>9, <1>10, <1>12, <2>1 DEF NotedAs
<1>13. CASE ~(b \in others /\ table # rows /\ noted.phase \in ReadPhase)
  <2>1. Noted(table, gone, others)[b] = noted
    BY <1>11, <1>13
  <2>2. noted.fresh => /\ page.fresh /\ noted.tally = page.tally
                       /\ b \in others /\ page.phase \in ReadPhase => table = rows
    BY <1>4, <1>5, <1>13
  <2>3. page.phase \in ReadPhase =>
          noted.touched = page.touched \cup
                            (IF b \in others THEN {i \in Id : table[i] # rows[i]} ELSE {})
    BY <1>4, <1>13
  <2> QED
    BY <1>1, <1>4, <2>1, <2>2, <2>3 DEF NotedAs
<1> QED
  BY <1>12, <1>13

-----------------------------------------------------------------------------
(* The inductive invariant. *)

\* What NamesHold says of one card.
Named(card, page) ==
  IF card.id \in page.since THEN SameOccurrence(rows[card.id], card.row)
  ELSE rows[card.id] # NoRow => \A i \in page.since : i < card.id

\* The card whose button was pressed is on the page, and the row read for the answer
\* is that card's.
NamesInv(b) ==
  LET page == pages[b]
  IN /\ page.since \subseteq Ids
     /\ \A card \in page.cards : Named(card, page)
     /\ page.phase \in {"committed", "answered"} =>
          \E card \in page.cards : card.id = page.pressed.id
     /\ page.phase = "answered" =>
          page.item \in Card /\ page.item.id = page.pressed.id /\ Named(page.item, page)

\* The daily page of a date lists what is due on it, and what is overdue then.
Listed(row, d) == row.due = d \/ (row.due < d /\ row.status = "pending")

DailyOf(table, d) ==
  {[id |-> i, row |-> table[i]] : i \in {j \in Present(table) : Listed(table[j], d)}}

Apart(cards, ids) == {card \in cards : card.id \notin ids}

\* The card of a button that is under way, until anything else touches its row: the
\* row differs from it in its status alone.
UnderWay(page, card) ==
  /\ {c \in page.cards : c.id = page.pressed.id} = {card}
  /\ Offered(card) = page.pressed.to
  /\ Listed(card.row, page.date)
  /\ rows[card.id] = [card.row EXCEPT !.status = page.pressed.to]

\* The rows a page may be wrong about.
Unsure(page) ==
  page.touched \cup (IF page.phase = "shown" THEN {} ELSE {page.pressed.id})

\* The rest of a page is what a reload would show.
FreshInv(b) ==
  LET page == pages[b]
      list == DailyOf(rows, page.date)
  IN page.phase \in ReadPhase =>
       /\ Apart(page.cards, Unsure(page)) = Apart(list, Unsure(page))
       /\ page.fresh => page.tally = TallyOf(list, page.date)
       /\ page.touched = {} => page.badge = OverdueOf(page.cards, page.date) + page.taken
       /\ page.phase # "shown" /\ page.pressed.id \notin page.touched =>
            /\ \E card \in page.cards : UnderWay(page, card)
            /\ page.phase = "answered" =>
                 page.item = [id |-> page.pressed.id, row |-> rows[page.pressed.id]]

BInv == TypeOK /\ \A b \in Browser : NamesInv(b) /\ FreshInv(b)

LEMMA TableOfType ==
  ASSUME TypeOK
  PROVE  rows \in Table /\ OneOfEachDate(rows) /\ today \in Nat
BY DEF TypeOK, Table, OneOfEachDate, Present, Ids

LEMMA TypeOfTable ==
  ASSUME rows' \in Table, OneOfEachDate(rows'), today' \in Nat,
         people' \subseteq Person, pages' \in [Browser -> Page]
  PROVE  TypeOK'
BY DEF TypeOK, Table, OneOfEachDate, Present, Ids

LEMMA PageFields ==
  ASSUME NEW page \in Page
  PROVE  /\ page.cards \in SUBSET Card /\ page.since \in SUBSET Id
         /\ page.date \in Nat /\ page.columns \in SUBSET Person
         /\ page.item \in Card \cup {NoCard} /\ page.touched \in SUBSET Id
         /\ page.badge \in Nat /\ page.taken \in Nat
BY DEF Page

\* A name that holds survives what happens to the table.
LEMMA NameSurvives ==
  ASSUME rows \in Table, NEW gone, Changed(gone), NEW page, page.since \subseteq Ids,
         NEW then, then.since = page.since \ gone,
         NEW card \in Card, Named(card, page)
  PROVE  Named(card, then)'
<1>1. card.id \in Id
  BY DEF Card
<1>2. CASE card.id \in then.since
  <2>1. card.id \in Ids \ gone /\ SameOccurrence(rows[card.id], card.row)
    BY <1>2 DEF Named
  <2>2. SameOccurrence(rows'[card.id], rows[card.id])
    BY <2>1 DEF Changed
  <2> QED
    BY <1>2, <2>1, <2>2 DEF Named, SameOccurrence
<1>3. CASE card.id \notin then.since
  <2> SUFFICES ASSUME rows'[card.id] # NoRow, NEW i \in then.since
               PROVE  i < card.id
    BY <1>3 DEF Named
  <2>1. CASE rows[card.id] = NoRow \/ card.id \in gone
    BY <1>1, <2>1 DEF Changed
  <2>2. CASE rows[card.id] # NoRow /\ card.id \notin gone
    BY <1>1, <1>3, <2>2 DEF Named
  <2> QED
    BY <2>1, <2>2
<1> QED
  BY <1>2, <1>3

\* A page on which a change of the table is noted that it did not ask for.
NotedOn(b, gone) == NotedAs(pages[b], pages'[b], rows', gone, TRUE)

\* A change of some rows leaves the other cards of a list as they are.
LEMMA ApartListed ==
  ASSUME NEW table, NEW table2, NEW d, NEW ids, \A i \in Id \ ids : table2[i] = table[i]
  PROVE  Apart(DailyOf(table2, d), ids) = Apart(DailyOf(table, d), ids)
BY DEF Apart, DailyOf, Present

LEMMA ApartFurther ==
  ASSUME NEW cards, NEW list, NEW ids, NEW more, Apart(cards, ids) = Apart(list, ids)
  PROVE  Apart(cards, ids \cup more) = Apart(list, ids \cup more)
<1>1. \A S : Apart(S, ids \cup more) = Apart(Apart(S, ids), more)
  BY DEF Apart
<1> QED
  BY <1>1

LEMMA NotedPage ==
  ASSUME BInv, NEW gone, Changed(gone), NEW b \in Browser, NotedOn(b, gone)
  PROVE  NamesInv(b)' /\ FreshInv(b)'
<1> DEFINE page == pages[b]
<1>1. PICK then : then = pages'[b]
  OBVIOUS
<1>2. /\ rows \in Table
      /\ page.cards \in SUBSET Card
      /\ page.since \subseteq Ids
      /\ \A card \in page.cards : Named(card, page)
  BY TableOfType, PageFields DEF BInv, TypeOK, NamesInv
<1>3. NamesInv(b)'
  <2>1. then.since \subseteq Ids'
    <3>1. \A i \in Ids \ gone : rows'[i] # NoRow
      BY DEF Changed
    <3> QED
      BY <1>1, <1>2, <3>1 DEF NotedOn, NotedAs, Ids
  <2>2. \A card \in Card : Named(card, page) => Named(card, then)'
    BY <1>1, <1>2, NameSurvives DEF NotedOn, NotedAs
  <2>3. \A card \in then.cards : Named(card, then)'
    BY <1>1, <1>2, <2>2 DEF NotedOn, NotedAs
  <2>4. then.phase = "answered" =>
          then.item \in Card /\ then.item.id = then.pressed.id /\ Named(then.item, then)'
    BY <1>1, <2>2 DEF NotedOn, NotedAs, BInv, NamesInv
  <2>5. then.phase \in {"committed", "answered"} =>
          \E card \in then.cards : card.id = then.pressed.id
    BY <1>1 DEF NotedOn, NotedAs, BInv, NamesInv
  <2> QED
    BY <1>1, <2>1, <2>3, <2>4, <2>5 DEF NamesInv
<1>4. FreshInv(b)'
  <2> SUFFICES ASSUME then.phase \in ReadPhase PROVE FreshInv(b)'
    BY <1>1 DEF FreshInv
  <2> DEFINE touching == {i \in Id : rows'[i] # rows[i]}
             list == DailyOf(rows, page.date)
  <2>1. /\ then.phase = page.phase /\ then.pressed = page.pressed
        /\ then.date = page.date /\ then.cards = page.cards /\ then.item = page.item
        /\ then.badge = page.badge /\ then.taken = page.taken
        /\ then.fresh => page.fresh /\ then.tally = page.tally /\ rows' = rows
        /\ then.touched = page.touched \cup touching
    BY <1>1 DEF NotedOn, NotedAs
  <2>2. /\ Apart(page.cards, Unsure(page)) = Apart(list, Unsure(page))
        /\ page.fresh => page.tally = TallyOf(list, page.date)
        /\ page.touched = {} => page.badge = OverdueOf(page.cards, page.date) + page.taken
        /\ page.phase # "shown" /\ page.pressed.id \notin page.touched =>
             /\ \E card \in page.cards : UnderWay(page, card)
             /\ page.phase = "answered" =>
                  page.item = [id |-> page.pressed.id, row |-> rows[page.pressed.id]]
    BY <2>1 DEF BInv, FreshInv
  <2>3. Unsure(then) = Unsure(page) \cup touching
    BY <2>1 DEF Unsure
  <2>4. Apart(then.cards, Unsure(then)) = Apart(DailyOf(rows', then.date), Unsure(then))
    <3>1. \A i \in Id \ Unsure(then) : rows'[i] = rows[i]
      BY <2>3
    <3>2. Apart(DailyOf(rows', page.date), Unsure(then)) = Apart(list, Unsure(then))
      BY <3>1, ApartListed
    <3>3. Apart(page.cards, Unsure(then)) = Apart(list, Unsure(then))
      BY <2>2, <2>3, ApartFurther
    <3> QED
      BY <2>1, <3>2, <3>3
  <2>5. then.fresh => then.tally = TallyOf(DailyOf(rows', then.date), then.date)
    BY <2>1, <2>2
  <2>6. then.touched = {} => then.badge = OverdueOf(then.cards, then.date) + then.taken
    BY <2>1, <2>2
  <2>7. ASSUME then.phase # "shown", then.pressed.id \notin then.touched
        PROVE  /\ \E card \in then.cards : UnderWay(then, card)'
               /\ then.phase = "answered" =>
                    then.item = [id |-> then.pressed.id, row |-> rows'[then.pressed.id]]
    <3>1. PICK card \in page.cards : UnderWay(page, card)
      BY <2>1, <2>2, <2>7
    <3>2. card.id = page.pressed.id /\ card.id \in Id
      BY <1>2, <3>1 DEF UnderWay, Card
    <3>3. rows'[card.id] = rows[card.id]
      BY <2>1, <2>7, <3>2
    <3>4. UnderWay(then, card)'
      BY <2>1, <3>1, <3>3 DEF UnderWay
    <3> QED
      BY <2>1, <2>2, <2>7, <3>2, <3>3, <3>4
  <2> QED
    BY <1>1, <2>4, <2>5, <2>6, <2>7 DEF FreshInv
<1> QED
  BY <1>3, <1>4

LEMMA ListDailyIsDaily == \A d : ListDaily(d) = DailyOf(rows, d)
BY DEF ListDaily, DailyOf, ReadCard, Ids, Present, Listed

LEMMA DailyCards ==
  ASSUME NEW table \in Table, NEW d, NEW card
  PROVE  card \in DailyOf(table, d) <=>
           /\ card \in Card /\ card.id \in Present(table)
           /\ card.row = table[card.id] /\ Listed(card.row, d)
<1>1. \A i \in Present(table) : i \in Id /\ table[i] \in Row
  BY DEF Present, Table
<1>2. ASSUME card \in DailyOf(table, d)
      PROVE  /\ card \in Card /\ card.id \in Present(table)
             /\ card.row = table[card.id] /\ Listed(card.row, d)
  BY <1>1, <1>2 DEF DailyOf, Card
<1>3. ASSUME card \in Card, card.id \in Present(table),
             card.row = table[card.id], Listed(card.row, d)
      PROVE  card \in DailyOf(table, d)
  <2>1. card = [id |-> card.id, row |-> table[card.id]]
    BY <1>3 DEF Card
  <2> QED
    BY <1>3, <2>1 DEF DailyOf
<1> QED
  BY <1>2, <1>3

-----------------------------------------------------------------------------
(* The buttons. *)

\* The page of the pressed button.
LEMMA PressedPage ==
  ASSUME BInv, NEW b \in Browser, NEW card \in pages[b].cards, Press(b, card)
  PROVE  /\ pages'[b] \in Page
         /\ NamesInv(b)' /\ FreshInv(b)'
<1> DEFINE page == pages[b]
           to == Offered(card)
           table == Transition(rows, card.id, to)
<1>0. /\ rows \in Table /\ OneOfEachDate(rows) /\ pages \in [Browser -> Page]
      /\ page \in Page /\ page.cards \in SUBSET Card /\ NamesInv(b) /\ FreshInv(b)
  BY TableOfType, PageFields DEF BInv, TypeOK
<1>1. /\ page.phase = "shown" /\ rows[card.id] # NoRow /\ rows' = table
      /\ pages' = [Noted(table, {}, Browser \ {b}) EXCEPT
             ![b] = [Uncounted(@) EXCEPT !.phase = "committed",
                                         !.pressed = [id |-> card.id, to |-> to]]]
  BY DEF Press
<1>2. to \in Status /\ card.id \in Ids /\ card.id \in Id
  BY <1>0, <1>1 DEF Offered, Status, Card, Ids
<1>3. /\ Changed({})
      /\ rows'[card.id] = [rows[card.id] EXCEPT !.status = to]
      /\ \A j \in Id \ {card.id} : rows'[j] = rows[j]
  BY <1>0, <1>1, <1>2, TransitionChanges
<1> HIDE DEF table, to
<1>4. PICK noted : noted = Noted(table, {}, Browser \ {b})[b]
  OBVIOUS
<1>5. noted \in Page /\ NotedAs(page, noted, table, {}, FALSE)
  <2>1. (b \in Browser \ {b}) = FALSE
    OBVIOUS
  <2> HIDE DEF page
  <2>2. /\ noted \in Page
        /\ NotedAs(pages[b], noted, table, {}, b \in Browser \ {b})
    BY <1>0, <1>4, NotedFields
  <2> QED
    BY <2>1, <2>2, Zenon DEF page
<1>6. PICK uncounted : uncounted = Uncounted(noted)
  OBVIOUS
<1>7. PICK then : then = [uncounted EXCEPT !.phase = "committed",
                                           !.pressed = [id |-> card.id, to |-> to]]
  OBVIOUS
<1>8. /\ uncounted \in Page
      /\ uncounted.date = page.date /\ uncounted.cards = page.cards
      /\ uncounted.since = page.since \ {}
      /\ uncounted.badge = page.badge /\ uncounted.taken = page.taken
      /\ uncounted.touched = page.touched \cup {}
      /\ ~uncounted.fresh
  BY <1>1, <1>5, <1>6, UncountedFields DEF NotedAs, ReadPhase
<1>9. /\ then \in Page
      /\ then.phase = "committed" /\ then.pressed.id = card.id /\ then.pressed.to = to
      /\ then.date = page.date /\ then.cards = page.cards /\ then.since = page.since \ {}
      /\ then.badge = page.badge /\ then.taken = page.taken
      /\ then.touched = page.touched
  <2>1. [id |-> card.id, to |-> to] \in [id: Id, to: Status]
    BY <1>2
  <2> QED
    BY <1>7, <1>8, <2>1 DEF Page, ReadPhase
<1>10. ~then.fresh
  <2>1. then.fresh = uncounted.fresh
    BY <1>7, <1>8, Zenon DEF Page
  <2> QED
    BY <1>8, <2>1
<1>11. pages'[b] = then
  <2>1. b \in DOMAIN Noted(table, {}, Browser \ {b})
    BY DEF Noted
  <2> QED
    BY <1>1, <1>4, <1>6, <1>7, <2>1
<1>12. NamesInv(b)'
  <2>1. page.since \subseteq Ids
    BY <1>0 DEF NamesInv
  <2>2. then.since \subseteq Ids'
    <3>1. \A i \in Ids : rows'[i] # NoRow
      BY <1>3 DEF Changed
    <3> QED
      BY <1>9, <2>1, <3>1 DEF Ids
  <2>3. \A c \in page.cards : Named(c, then)'
    BY <1>0, <1>3, <1>9, <2>1, NameSurvives DEF NamesInv
  <2> QED
    BY <1>9, <1>11, <2>2, <2>3 DEF NamesInv
<1>13. FreshInv(b)'
  <2> DEFINE list == DailyOf(rows, page.date)
             own == page.touched \cup {card.id}
  <2>1. /\ Apart(page.cards, page.touched) = Apart(list, page.touched)
        /\ page.touched = {} => page.badge = OverdueOf(page.cards, page.date) + page.taken
    BY <1>0, <1>1 DEF FreshInv, ReadPhase, Unsure
  <2>2. Unsure(then) = own
    BY <1>9 DEF Unsure
  <2>3. Apart(then.cards, own) = Apart(DailyOf(rows', then.date), own)
    <3>1. \A i \in Id \ own : rows'[i] = rows[i]
      BY <1>3
    <3>2. Apart(DailyOf(rows', page.date), own) = Apart(list, own)
      BY <3>1, ApartListed
    <3>3. Apart(page.cards, own) = Apart(list, own)
      <4>1. Apart(page.cards, page.touched) = Apart(list, page.touched)
        BY <2>1
      <4>2. \A more : Apart(page.cards, page.touched \cup more)
                       = Apart(list, page.touched \cup more)
        <5> HIDE DEF list, page
        <5> QED
          BY <4>1, ApartFurther
      <4> QED
        BY <4>2
    <3> QED
      BY <1>9, <3>2, <3>3
  <2>4. then.touched = {} => then.badge = OverdueOf(then.cards, then.date) + then.taken
    BY <1>9, <2>1
  <2>5. ASSUME card.id \notin page.touched
        PROVE  UnderWay(then, card)'
    <3>1. ASSUME NEW c \in page.cards, c.id = card.id
          PROVE  c = card /\ c.row = rows[card.id] /\ Listed(c.row, page.date)
      <4>1. c \in list /\ card \in list
        BY <2>1, <2>5, <3>1 DEF Apart
      <4> QED
        BY <1>0, <3>1, <4>1, DailyCards DEF Card
    <3>2. {c \in then.cards : c.id = card.id} = {card}
      BY <1>9, <3>1
    <3>3. rows'[card.id] = [card.row EXCEPT !.status = to] /\ Listed(card.row, page.date)
      BY <1>3, <3>1
    <3>4. Offered(card) = to
      BY DEF to
    <3> QED
      BY <1>9, <3>2, <3>3, <3>4 DEF UnderWay
  <2> QED
    BY <1>9, <1>10, <1>11, <2>2, <2>3, <2>4, <2>5 DEF FreshInv
<1> QED
  BY <1>9, <1>11, <1>12, <1>13

\* A change of the table noted on the pages that are not the presser's.
LEMMA NotedPages ==
  ASSUME BInv, NEW gone, Changed(gone), NEW others, NEW b \in others \cap Browser,
         pages'[b] = Noted(rows', gone, others)[b]
  PROVE  pages'[b] \in Page /\ NamesInv(b)' /\ FreshInv(b)'
<1>1. pages \in [Browser -> Page] /\ b \in Browser /\ b \in others
  BY DEF BInv, TypeOK
<1>2. PICK table : table = rows'
  OBVIOUS
<1>3. /\ Noted(table, gone, others)[b] \in Page
      /\ NotedAs(pages[b], Noted(table, gone, others)[b], table, gone, b \in others)
  BY <1>1, NotedFields
<1>4. (b \in others) = TRUE
  BY <1>1
<1>5. pages'[b] \in Page /\ NotedAs(pages[b], pages'[b], rows', gone, TRUE)
  BY <1>2, <1>3, <1>4, Zenon
<1>6. NotedOn(b, gone)
  BY <1>5 DEF NotedOn
<1> QED
  BY <1>1, <1>5, <1>6, NotedPage

\* A step that changes the table: each page is noted on, but for the presser's.
LEMMA NotedStep ==
  ASSUME BInv, NEW gone, Changed(gone), NEW others,
         today' = today, people' = people,
         pages' = Noted(rows', gone, others), Browser \subseteq others
  PROVE  BInv'
<1>1. \A b \in Browser : pages'[b] \in Page /\ NamesInv(b)' /\ FreshInv(b)'
  BY NotedPages
<1>2. pages' \in [Browser -> Page]
  <2>1. pages' = [b \in Browser |-> pages'[b]]
    BY DEF Noted
  <2> QED
    BY <1>1, <2>1
<1>3. TypeOK'
  BY <1>2, TypeOfTable DEF BInv, TypeOK, Changed
<1> QED
  BY <1>1, <1>3 DEF BInv

LEMMA ReplanStep ==
  ASSUME BInv, NEW s \in Schedule, NEW dates \in SUBSET (today..(today + Horizon)),
         Replan(s, dates)
  PROVE  BInv'
<1> DEFINE kept == WithoutPending(s, today)
           gone == {i \in Ids : kept[i] = NoRow}
<1>1. TypeOK /\ rows \in Table /\ OneOfEachDate(rows) /\ today \in Nat
  BY TableOfType DEF BInv
<1>2. kept \in Table /\ \A i \in Present(kept) : i \in Ids /\ kept[i] = rows[i]
  BY <1>1, WithoutPendingRows
<1>3. /\ rows' = Inserted(kept, s, dates \ DatesOf(kept, s))
      /\ pages' = Noted(rows', gone, Browser) /\ today' = today /\ people' = people
  BY DEF Replan
<1> HIDE DEF kept
<1>4. PICK left : left = kept
  OBVIOUS
<1>5. Changed({i \in Ids : left[i] = NoRow})
  BY <1>1, <1>2, <1>3, <1>4, PlanningChanges
<1> QED
  BY <1>3, <1>4, <1>5, NotedStep

LEMMA ExtendStep ==
  ASSUME BInv, NEW s \in Schedule, NEW dates \in SUBSET (today..(today + Horizon)),
         Extend(s, dates)
  PROVE  BInv'
<1>1. rows \in Table /\ OneOfEachDate(rows) /\ today \in Nat
  BY TableOfType DEF BInv
<1>2. /\ rows' = Inserted(rows, s, dates \ DatesOf(rows, s))
      /\ pages' = Noted(rows', {}, Browser) /\ today' = today /\ people' = people
  BY DEF Extend
<1>3. \A i \in Present(rows) : i \in Ids
  BY DEF Present, Ids
<1>4. PICK left : left = rows
  OBVIOUS
<1>5. Changed({i \in Ids : left[i] = NoRow})
  BY <1>1, <1>2, <1>3, <1>4, PlanningChanges
<1>6. {i \in Ids : left[i] = NoRow} = {}
  BY <1>4 DEF Ids
<1> QED
  BY <1>2, <1>5, <1>6, NotedStep

LEMMA PressElsewhereStep ==
  ASSUME BInv, NEW i \in Id, NEW to \in Status, PressElsewhere(i, to)
  PROVE  BInv'
<1>1. rows \in Table /\ OneOfEachDate(rows)
  BY TableOfType DEF BInv
<1>2. /\ i \in Ids /\ rows' = Transition(rows, i, to)
      /\ pages' = Noted(rows', {}, Browser) /\ today' = today /\ people' = people
  BY DEF PressElsewhere
<1>3. Changed({})
  BY <1>1, <1>2, TransitionChanges
<1> QED
  BY <1>2, <1>3, NotedStep

LEMMA PressStep ==
  ASSUME BInv, NEW b \in Browser, NEW card \in pages[b].cards, Press(b, card)
  PROVE  BInv'
<1>1. /\ rows \in Table /\ OneOfEachDate(rows) /\ TypeOK
      /\ pages[b].cards \in SUBSET Card
  BY TableOfType, PageFields DEF BInv, TypeOK
<1>2. /\ rows' = Transition(rows, card.id, Offered(card))
      /\ pages' = [Noted(rows', {}, Browser \ {b}) EXCEPT
                     ![b] = [Uncounted(@) EXCEPT !.phase = "committed",
                               !.pressed = [id |-> card.id, to |-> Offered(card)]]]
      /\ today' = today /\ people' = people
      /\ rows[card.id] # NoRow
  BY DEF Press
<1>3. card.id \in Ids /\ Offered(card) \in Status
  BY <1>1, <1>2 DEF Ids, Card, Offered, Status
<1>4. Changed({})
  BY <1>1, <1>2, <1>3, TransitionChanges
<1>5. ASSUME NEW c \in Browser, c # b
      PROVE  pages'[c] \in Page /\ NamesInv(c)' /\ FreshInv(c)'
  <2>1. pages'[c] = Noted(rows', {}, Browser \ {b})[c]
    BY <1>2, <1>5 DEF Noted
  <2> QED
    BY <1>4, <1>5, <2>1, NotedPages
<1>6. \A c \in Browser : pages'[c] \in Page /\ NamesInv(c)' /\ FreshInv(c)'
  BY <1>5, PressedPage
<1>7. pages' \in [Browser -> Page]
  <2>1. pages' = [c \in Browser |-> pages'[c]]
    BY <1>2 DEF Noted
  <2> QED
    BY <1>6, <2>1
<1>8. TypeOK'
  BY <1>1, <1>2, <1>4, <1>7, TypeOfTable DEF TypeOK, Changed
<1> QED
  BY <1>6, <1>8 DEF BInv

-----------------------------------------------------------------------------
(* Loading a page, and the answers. *)

\* A step that leaves the table alone changes the names of no other page.
LEMMA SamePage ==
  ASSUME BInv, UNCHANGED rows, NEW b \in Browser, pages'[b] = pages[b]
  PROVE  NamesInv(b)' /\ FreshInv(b)'
<1>1. Changed({})
  <2>1. rows \in Table /\ OneOfEachDate(rows)
    BY TableOfType DEF BInv
  <2>2. rows' \in Table /\ OneOfEachDate(rows')
    BY <2>1
  <2> QED
    BY <2>2 DEF Changed, Ids, SameOccurrence
<1>2. pages'[b].since = pages[b].since \ {}
  OBVIOUS
<1>3. NotedOn(b, {})
  <2>1. pages[b].touched = pages[b].touched \cup {i \in Id : rows'[i] # rows[i]}
    OBVIOUS
  <2> QED
    BY <1>2, <2>1, Zenon DEF NotedOn, NotedAs
<1> QED
  BY <1>1, <1>3, NotedPage

LEMMA OwnStep ==
  ASSUME BInv, UNCHANGED rows, today' \in Nat, people' \subseteq Person, NEW b \in Browser,
         NEW then \in Page, pages' = [pages EXCEPT ![b] = then],
         NamesInv(b)', FreshInv(b)'
  PROVE  BInv'
<1>1. pages \in [Browser -> Page] /\ rows \in Table /\ OneOfEachDate(rows)
  BY TableOfType DEF BInv, TypeOK
<1>2. pages' \in [Browser -> Page] /\ \A c \in Browser \ {b} : pages'[c] = pages[c]
  BY <1>1
<1>3. TypeOK'
  BY <1>1, <1>2, TypeOfTable
<1>4. \A c \in Browser : NamesInv(c)' /\ FreshInv(c)'
  BY <1>2, SamePage
<1> QED
  BY <1>3, <1>4 DEF BInv

LEMMA NoPageFields ==
  /\ NoPage \in Page
  /\ NoPage.cards = {} /\ NoPage.since = {} /\ NoPage.phase = "none"
<1>1. /\ NoPage.phase \in {"none", "people"} \cup ReadPhase
      /\ NoPage.date \in Nat /\ NoPage.columns \in SUBSET Person
      /\ NoPage.cards \in SUBSET Card /\ NoPage.tally \in [Person -> [done: Nat, all: Nat]]
      /\ NoPage.badge \in Nat
      /\ NoPage.pressed \in [id: Id, to: Status] \cup {NoPage.pressed}
      /\ NoPage.item \in Card \cup {NoCard} /\ NoPage.since \in SUBSET Id
      /\ NoPage.touched \in SUBSET Id /\ NoPage.taken \in Nat
      /\ NoPage.cards = {} /\ NoPage.since = {} /\ NoPage.phase = "none"
  BY NoTallyType DEF NoPage
<1>2. NoPage.fresh \in BOOLEAN
  BY DEF NoPage
<1>3. NoPage = [phase |-> NoPage.phase, date |-> NoPage.date, columns |-> NoPage.columns,
                cards |-> NoPage.cards, tally |-> NoPage.tally, badge |-> NoPage.badge,
                pressed |-> NoPage.pressed, item |-> NoPage.item,
                since |-> NoPage.since, touched |-> NoPage.touched,
                fresh |-> NoPage.fresh, taken |-> NoPage.taken]
  BY Zenon DEF NoPage
<1> QED
  BY <1>1, <1>2, <1>3, Zenon DEF Page

LEMMA LoadPageStep ==
  ASSUME BInv, NEW b \in Browser, NEW d \in PageDate, LoadPage(b, d)
  PROVE  BInv'
<1>1. PICK blank : blank = NoPage
  OBVIOUS
<1>2. PICK then : then = [blank EXCEPT !.phase = "people", !.date = d, !.columns = people]
  OBVIOUS
<1>3. d \in Nat /\ people \subseteq Person
  BY BoardAssumption DEF BInv, TypeOK
<1>4. /\ then \in Page /\ then.phase = "people"
      /\ then.cards = {} /\ then.since = {}
  BY <1>1, <1>2, <1>3, NoPageFields DEF Page
<1>5. /\ pages' = [pages EXCEPT ![b] = then]
      /\ UNCHANGED rows /\ today' \in Nat /\ people' \subseteq Person
  BY <1>1, <1>2 DEF LoadPage, BInv, TypeOK
<1>6. pages'[b] = then
  BY <1>5 DEF BInv, TypeOK
<1>7. NamesInv(b)' /\ FreshInv(b)'
  BY <1>4, <1>6 DEF NamesInv, FreshInv, ReadPhase
<1> QED
  BY <1>4, <1>5, <1>7, OwnStep

\* A list is finite, so that its numbers are.
LEMMA FiniteList ==
  ASSUME NEW d
  PROVE  /\ IsFiniteSet(DailyOf(rows, d))
         /\ \A cards \in SUBSET DailyOf(rows, d) :
              IsFiniteSet(cards) /\ Cardinality(cards) \in Nat
<1> DEFINE listed == {j \in Present(rows) : Listed(rows[j], d)}
           f == [i \in listed |-> [id |-> i, row |-> rows[i]]]
<1>1. IsFiniteSet(Id)
  <2>1. 1 \in Int /\ MaxId \in Int
    BY BoardAssumption
  <2> QED
    BY <2>1, FS_Interval DEF Id
<1>2. IsFiniteSet(listed)
  BY <1>1, FS_Subset DEF Present
<1>3. DailyOf(rows, d) = {f[i] : i \in listed}
  BY DEF DailyOf
<1>4. DOMAIN f = listed
  OBVIOUS
<1> HIDE DEF f, listed
<1>5. IsFiniteSet(DailyOf(rows, d))
  BY <1>2, <1>3, <1>4, FiniteImage
<1> QED
  BY <1>5, FS_Subset, FS_CardinalityType

LEMMA NumbersType ==
  ASSUME NEW d
  PROVE  /\ TallyOf(DailyOf(rows, d), d) \in [Person -> [done: Nat, all: Nat]]
         /\ OverdueOf(DailyOf(rows, d), d) \in Nat
<1> DEFINE cards == DailyOf(rows, d)
<1>1. \A S \in SUBSET cards : Cardinality(S) \in Nat
  BY FiniteList
<1> HIDE DEF cards
<1>2. ASSUME NEW p \in Person
      PROVE  LET mine == {c \in cards : c.row.assignee = p /\ c.row.due = d}
             IN /\ Cardinality(mine) \in Nat
                /\ Cardinality({c \in mine : c.row.status = "done"}) \in Nat
  BY <1>1
<1>3. OverdueOf(cards, d) \in Nat
  BY <1>1 DEF OverdueOf
<1> QED
  BY <1>2, <1>3 DEF TallyOf, cards

LEMMA ShowPageStep ==
  ASSUME BInv, NEW b \in Browser, ShowPage(b)
  PROVE  BInv'
<1>1. PICK page : page = pages[b]
  OBVIOUS
<1> DEFINE items == ListDaily(page.date)
           columns == Columns(page.columns, items)
<1>2. page \in Page /\ page.date \in Nat /\ page.taken \in Nat /\ rows \in Table
  BY <1>1, PageFields, TableOfType DEF BInv, TypeOK
<1>3. items = DailyOf(rows, page.date)
  BY ListDailyIsDaily
<1>4. CardsShown(columns, items) = items
  BY DEF CardsShown, Columns
<1>5. items \in SUBSET Card
  BY <1>2, <1>3, DailyCards
<1>6. PICK tally, badge : /\ tally = TallyOf(items, page.date)
                          /\ badge = OverdueOf(items, page.date)
  OBVIOUS
<1>7. tally \in [Person -> [done: Nat, all: Nat]] /\ badge \in Nat
  BY <1>3, <1>6, NumbersType
<1>8. pages' = [pages EXCEPT ![b] =
          [page EXCEPT !.phase = "shown", !.columns = {}, !.cards = items,
                       !.tally = tally, !.badge = badge,
                       !.since = Ids, !.touched = {}, !.fresh = TRUE, !.taken = 0]]
  BY <1>1, <1>4, <1>6 DEF ShowPage
<1> HIDE DEF items
<1>9. PICK then :
        then = [page EXCEPT !.phase = "shown", !.columns = {}, !.cards = items,
                            !.tally = tally, !.badge = badge,
                            !.since = Ids, !.touched = {}, !.fresh = TRUE, !.taken = 0]
  OBVIOUS
<1>10. /\ then \in Page /\ then.phase = "shown" /\ then.date = page.date
       /\ then.cards = items /\ then.tally = tally /\ then.badge = badge
       /\ then.since = Ids /\ then.touched = {} /\ then.taken = 0
  BY <1>2, <1>5, <1>7, <1>9 DEF Page, Ids, ReadPhase
<1>11. /\ pages' = [pages EXCEPT ![b] = then]
       /\ UNCHANGED rows /\ today' \in Nat /\ people' \subseteq Person
  BY <1>8, <1>9 DEF ShowPage, BInv, TypeOK
<1>12. pages'[b] = then
  BY <1>11 DEF BInv, TypeOK
<1>13. NamesInv(b)'
  <2>1. \A card \in items : card.id \in Ids /\ card.row = rows[card.id]
    BY <1>2, <1>3, DailyCards DEF Present, Ids
  <2>2. \A card \in items : Named(card, then)'
    BY <1>10, <1>11, <2>1 DEF Named, SameOccurrence
  <2> QED
    BY <1>10, <1>11, <1>12, <2>2 DEF NamesInv, Ids
<1>14. FreshInv(b)'
  <2>1. badge = OverdueOf(items, page.date) + 0
    BY <1>6, <1>7
  <2> QED
    BY <1>3, <1>6, <1>10, <1>11, <1>12, <2>1 DEF FreshInv
<1> QED
  BY <1>10, <1>11, <1>13, <1>14, OwnStep

LEMMA KeptFields ==
  ASSUME NEW page \in Page
  PROVE  /\ Kept(page) \in Page /\ Kept(page).phase = "shown"
         /\ Kept(page).date = page.date /\ Kept(page).cards = page.cards
         /\ Kept(page).since = page.since /\ Kept(page).tally = page.tally
         /\ Kept(page).badge = page.badge /\ Kept(page).taken = page.taken
         /\ Kept(page).touched = page.touched
         /\ Kept(page).fresh = page.fresh
<1>1. NoPage.pressed \in [id: Id, to: Status] \cup {NoPage.pressed}
  OBVIOUS
<1>2. PICK none : none = NoPage.pressed
  OBVIOUS
<1>3. PICK then : then = [page EXCEPT !.phase = "shown", !.pressed = none, !.item = NoCard]
  OBVIOUS
<1>4. /\ then \in Page /\ then.phase = "shown"
      /\ then.date = page.date /\ then.cards = page.cards
      /\ then.since = page.since /\ then.tally = page.tally
      /\ then.badge = page.badge /\ then.taken = page.taken
      /\ then.touched = page.touched
  BY <1>1, <1>2, <1>3 DEF Page, ReadPhase
<1>5. then.fresh = page.fresh
  BY <1>3, Zenon DEF Page
<1>6. then = Kept(page)
  BY <1>2, <1>3 DEF Kept
<1> QED
  BY <1>4, <1>5, <1>6, Zenon

LEMMA ReadItemStep ==
  ASSUME BInv, NEW b \in Browser, ReadItem(b)
  PROVE  BInv'
<1>1. PICK page : page = pages[b]
  OBVIOUS
<1> DEFINE id == page.pressed.id
<1>2. /\ page \in Page /\ rows \in Table /\ page.phase = "committed"
      /\ page.cards \in SUBSET Card
      /\ UNCHANGED rows /\ today' \in Nat /\ people' \subseteq Person
      /\ pages \in [Browser -> Page]
  BY <1>1, PageFields, TableOfType DEF BInv, TypeOK, ReadItem
<1>3. NamesInv(b) /\ FreshInv(b)
  BY DEF BInv
<1>4. PICK card \in page.cards : card.id = id
  BY <1>1, <1>2, <1>3 DEF NamesInv
<1>5. id \in Id /\ Named(card, page)
  BY <1>1, <1>2, <1>3, <1>4 DEF NamesInv, Card
<1>6. CASE rows[id] = NoRow
  <2>1. PICK then : then = Kept(page)
    OBVIOUS
  <2>2. pages' = [pages EXCEPT ![b] = then]
    BY <1>1, <1>6, <2>1 DEF ReadItem
  <2>3. /\ then \in Page /\ then.phase = "shown" /\ then.date = page.date
        /\ then.cards = page.cards /\ then.since = page.since /\ then.tally = page.tally
        /\ then.badge = page.badge /\ then.taken = page.taken
        /\ then.touched = page.touched
    BY <1>2, <2>1, KeptFields
  <2>4. pages'[b] = then
    BY <1>2, <2>2
  <2>5. NamesInv(b)'
    BY <1>1, <1>2, <1>3, <2>3, <2>4 DEF NamesInv, Named, Ids
  <2>6. id \in page.touched
    <3> SUFFICES ASSUME id \notin page.touched PROVE FALSE
      OBVIOUS
    <3>1. PICK c \in page.cards : UnderWay(page, c)
      BY <1>1, <1>2, <1>3 DEF FreshInv, ReadPhase
    <3>2. /\ c.id = id /\ c.row \in Row /\ Offered(c) \in Status
          /\ Offered(c) = page.pressed.to
          /\ rows[c.id] = [c.row EXCEPT !.status = page.pressed.to]
      BY <1>2, <3>1 DEF UnderWay, Card, Offered, Status
    <3>3. rows[id] \in Row
      BY <3>2 DEF Row
    <3> QED
      BY <1>6, <3>3, RowFields
  <2>7. Unsure(then) = Unsure(page)
    BY <1>2, <2>3, <2>6 DEF Unsure
  <2>8. then.fresh => page.fresh
    BY <1>2, <2>1, KeptFields, Zenon
  <2>9. FreshInv(b)'
    BY <1>1, <1>2, <1>3, <2>3, <2>4, <2>7, <2>8 DEF FreshInv, ReadPhase
  <2> QED
    BY <1>2, <2>2, <2>3, <2>5, <2>9, OwnStep
<1>7. CASE rows[id] # NoRow
  <2>1. PICK item : item = [id |-> id, row |-> rows[id]]
    OBVIOUS
  <2>2. PICK then : then = [page EXCEPT !.phase = "answered", !.item = item]
    OBVIOUS
  <2>3. pages' = [pages EXCEPT ![b] = then]
    BY <1>1, <1>7, <2>1, <2>2 DEF ReadItem, ReadCard
  <2>4. item \in Card /\ item.id = id /\ item.row = rows[id]
    <3>1. rows[id] \in Row
      BY <1>2, <1>5, <1>7 DEF Table
    <3> QED
      BY <1>5, <2>1, <3>1 DEF Card
  <2>5. /\ then \in Page /\ then.phase = "answered" /\ then.item = item
        /\ then.cards = page.cards /\ then.since = page.since /\ then.tally = page.tally
        /\ then.pressed = page.pressed /\ then.date = page.date
        /\ then.badge = page.badge /\ then.taken = page.taken
        /\ then.touched = page.touched
    BY <1>2, <2>2, <2>4 DEF Page, ReadPhase
  <2>6. pages'[b] = then
    BY <1>2, <2>3
  <2>7. then.fresh = page.fresh
    BY <1>2, <2>2, Zenon DEF Page
  <2>8. Named(item, page)
    BY <1>4, <1>5, <1>7, <2>4 DEF Named, SameOccurrence
  <2>9. NamesInv(b)'
    BY <1>1, <1>2, <1>3, <2>4, <2>5, <2>6, <2>8 DEF NamesInv, Named, Ids
  <2>10. FreshInv(b)'
    <3>1. /\ Apart(page.cards, Unsure(page)) = Apart(DailyOf(rows, page.date), Unsure(page))
          /\ page.fresh => page.tally = TallyOf(DailyOf(rows, page.date), page.date)
          /\ page.touched = {} => page.badge = OverdueOf(page.cards, page.date) + page.taken
          /\ id \notin page.touched => \E c \in page.cards : UnderWay(page, c)
      BY <1>1, <1>2, <1>3 DEF FreshInv, ReadPhase
    <3>2. Unsure(then) = Unsure(page)
      BY <1>2, <2>5 DEF Unsure
    <3>3. \A c : UnderWay(page, c) => UnderWay(then, c)'
      BY <1>2, <2>5 DEF UnderWay
    <3>4. then.item = [id |-> then.pressed.id, row |-> rows'[then.pressed.id]]
      BY <1>2, <2>1, <2>5
    <3>5. then.fresh => then.tally = TallyOf(DailyOf(rows', then.date), then.date)
      BY <1>2, <2>5, <2>7, <3>1
    <3> QED
      BY <1>2, <2>5, <2>6, <3>1, <3>2, <3>3, <3>4, <3>5 DEF FreshInv
  <2> QED
    BY <1>2, <2>3, <2>5, <2>9, <2>10, OwnStep
<1> QED
  BY <1>6, <1>7

\* An answer takes the card off the page exactly when its row is no longer listed.
LEMMA AnsweredCard ==
  ASSUME rows \in Table, NEW page \in Page, NEW card \in Card, UnderWay(page, card),
         page.item = [id |-> page.pressed.id, row |-> rows[page.pressed.id]]
  PROVE  LET removed == IsRemoved(page.item, page.pressed.to, page.date)
         IN /\ {c \in DailyOf(rows, page.date) : c.id = page.pressed.id}
                 = IF removed THEN {} ELSE {page.item}
            /\ removed <=> card.row.due < page.date
            /\ page.item.row.due = card.row.due
<1> DEFINE id == page.pressed.id
           to == page.pressed.to
           d == page.date
           item == page.item
<1>0. /\ card.id = id /\ Offered(card) = to /\ Listed(card.row, d)
      /\ rows[card.id] = [card.row EXCEPT !.status = to]
  BY DEF UnderWay
<1>1. card.row \in Row /\ card.id \in Id /\ to \in Status /\ d \in Nat
  BY <1>0, PageFields DEF Card, Offered, Status
<1>2. /\ rows[card.id].due = card.row.due /\ rows[card.id].status = to
      /\ rows[card.id] \in Row
  BY <1>0, <1>1 DEF Row
<1>3. item \in Card /\ item.id = id /\ item.row = rows[id]
  BY <1>0, <1>1, <1>2 DEF Card
<1>4. id \in Present(rows)
  BY <1>0, <1>1, <1>2, RowFields DEF Present
<1>5. item.row.due = card.row.due /\ item.row.status = to
  BY <1>0, <1>2, <1>3
<1>6. card.row.due \in Nat /\ card.row.status \in Status
  BY <1>1, RowFields
<1>7. /\ Listed(item.row, d) <=> ~IsRemoved(item, to, d)
      /\ IsRemoved(item, to, d) <=> card.row.due < d
  <2> HIDE DEF item, to, d
  <2>1. CASE card.row.status = "pending"
    <3>1. to = "done"
      BY <1>0, <2>1 DEF Offered
    <3> QED
      BY <1>0, <1>1, <1>5, <1>6, <2>1, <3>1 DEF Listed, IsRemoved
  <2>2. CASE card.row.status = "done"
    <3>1. to = "pending"
      BY <1>0, <2>2 DEF Offered
    <3> QED
      BY <1>0, <1>1, <1>5, <1>6, <2>2, <3>1 DEF Listed, IsRemoved
  <2> QED
    BY <1>6, <2>1, <2>2 DEF Status
<1>8. item \in DailyOf(rows, d) <=> Listed(item.row, d)
  BY <1>3, <1>4, DailyCards
<1>9. ASSUME NEW c \in DailyOf(rows, d), c.id = id
      PROVE  c = item
  BY <1>3, <1>9, DailyCards DEF Card
<1> QED
  BY <1>3, <1>5, <1>7, <1>8, <1>9

\* What the answer makes of the page is again the list of its date, but for the rows that
\* anything else has touched.
LEMMA SwappedIsListed ==
  ASSUME rows \in Table, NEW page \in Page, page.item.id = page.pressed.id,
         Apart(page.cards, page.touched \cup {page.pressed.id}) =
           Apart(DailyOf(rows, page.date), page.touched \cup {page.pressed.id}),
         page.pressed.id \notin page.touched =>
           /\ page.item = [id |-> page.pressed.id, row |-> rows[page.pressed.id]]
           /\ \E card \in Card : UnderWay(page, card)
  PROVE  Apart(Swapped(page.cards, page.pressed, page.item, page.date), page.touched) =
           Apart(DailyOf(rows, page.date), page.touched)
<1> DEFINE id == page.pressed.id
           list == DailyOf(rows, page.date)
           removed == IsRemoved(page.item, page.pressed.to, page.date)
           stays == IF removed THEN {} ELSE {page.item}
           swapped == Swapped(page.cards, page.pressed, page.item, page.date)
<1>1. swapped = {c \in page.cards : c.id # id} \cup stays
  BY DEF Swapped
<1>2. \A c \in stays : c.id = id
  OBVIOUS
<1>3. CASE id \in page.touched
  <2> HIDE DEF list, stays, swapped
  <2>1. page.touched \cup {id} = page.touched
    BY <1>3
  <2>2. Apart(swapped, page.touched) = Apart(page.cards, page.touched)
    BY <1>1, <1>2, <1>3 DEF Apart
  <2> QED
    BY <2>1, <2>2 DEF list, swapped
<1>4. CASE id \notin page.touched
  <2>1. {c \in list : c.id = id} = stays
    BY <1>4, AnsweredCard
  <2> HIDE DEF list, stays, swapped
  <2>2. Apart(swapped, page.touched) = Apart(page.cards, page.touched \cup {id}) \cup stays
    BY <1>1, <1>2, <1>4 DEF Apart
  <2>3. Apart(list, page.touched) =
          Apart(list, page.touched \cup {id}) \cup {c \in list : c.id = id}
    BY <1>4 DEF Apart
  <2> QED
    BY <2>1, <2>2, <2>3 DEF list, swapped
<1> QED
  BY <1>3, <1>4

\* Each overdue card that an answer takes off is one the count keeps.
LEMMA OverdueTaken ==
  ASSUME rows \in Table, NEW page \in Page, NEW card \in page.cards, UnderWay(page, card),
         page.item = [id |-> page.pressed.id, row |-> rows[page.pressed.id]],
         Apart(page.cards, {page.pressed.id}) =
           Apart(DailyOf(rows, page.date), {page.pressed.id})
  PROVE  LET removed == IsRemoved(page.item, page.pressed.to, page.date)
             cards == Swapped(page.cards, page.pressed, page.item, page.date)
         IN /\ OverdueOf(cards, page.date) \in Nat
            /\ OverdueOf(page.cards, page.date)
                 = OverdueOf(cards, page.date) + (IF removed THEN 1 ELSE 0)
<1> DEFINE id == page.pressed.id
           d == page.date
           removed == IsRemoved(page.item, page.pressed.to, d)
           cards == Swapped(page.cards, page.pressed, page.item, d)
           rest == {c \in Apart(page.cards, {id}) : c.row.due < d}
<1>1. /\ removed <=> card.row.due < d
      /\ page.item.row.due = card.row.due
  <2>1. card \in Card
    BY PageFields
  <2> QED
    BY <2>1, AnsweredCard
<1>2. {c \in page.cards : c.id = id} = {card}
  BY DEF UnderWay
<1>3. IsFiniteSet(rest) /\ Cardinality(rest) \in Nat
  <2>1. rest \in SUBSET DailyOf(rows, d)
    BY DEF Apart
  <2> QED
    BY <2>1, FiniteList
<1>4. {c \in cards : c.row.due < d} = rest
  <2>1. cards = Apart(page.cards, {id}) \cup (IF removed THEN {} ELSE {page.item})
    BY DEF Swapped, Apart
  <2> HIDE DEF cards, removed, id, d
  <2> QED
    BY <1>1, <2>1 DEF id
<1>5. {c \in page.cards : c.row.due < d} = rest \cup (IF removed THEN {card} ELSE {})
  <2>1. page.cards = Apart(page.cards, {id}) \cup {card}
    BY <1>2 DEF Apart
  <2> HIDE DEF removed, id, d
  <2> QED
    BY <1>1, <2>1 DEF id
<1>6. card \notin rest
  BY <1>2 DEF Apart
<1> HIDE DEF rest, removed, cards, id, d
<1>7. Cardinality(rest \cup (IF removed THEN {card} ELSE {}))
        = Cardinality(rest) + (IF removed THEN 1 ELSE 0)
  <2>1. CASE removed
    BY <1>3, <1>6, <2>1, FS_AddElement
  <2>2. CASE ~removed
    BY <1>3, <2>2
  <2> QED
    BY <2>1, <2>2
<1> QED
  BY <1>3, <1>4, <1>5, <1>7 DEF OverdueOf, removed, cards, d

LEMMA ShowAnswerStep ==
  ASSUME BInv, NEW b \in Browser, ShowAnswer(b)
  PROVE  BInv'
<1>1. PICK page : page = pages[b]
  OBVIOUS
<1> DEFINE id == page.pressed.id
           list == DailyOf(rows, page.date)
           removed == IsRemoved(page.item, page.pressed.to, page.date)
<1>2. /\ page \in Page /\ rows \in Table /\ page.phase = "answered"
      /\ page.cards \in SUBSET Card /\ page.date \in Nat
      /\ page.badge \in Nat /\ page.taken \in Nat
      /\ UNCHANGED rows /\ today' \in Nat /\ people' \subseteq Person
      /\ pages \in [Browser -> Page]
  BY <1>1, PageFields, TableOfType DEF BInv, TypeOK, ShowAnswer
<1>3. NamesInv(b) /\ FreshInv(b)
  BY DEF BInv
<1>4. /\ page.item \in Card /\ page.item.id = id /\ Named(page.item, page)
      /\ \A card \in page.cards : Named(card, page)
      /\ page.since \subseteq Ids
  BY <1>1, <1>2, <1>3 DEF NamesInv
<1>5. /\ Apart(page.cards, page.touched \cup {id}) = Apart(list, page.touched \cup {id})
      /\ page.touched = {} => page.badge = OverdueOf(page.cards, page.date) + page.taken
      /\ id \notin page.touched => /\ \E card \in page.cards : UnderWay(page, card)
                                   /\ page.item = [id |-> id, row |-> rows[id]]
  BY <1>1, <1>2, <1>3 DEF FreshInv, ReadPhase, Unsure
<1>6. PICK cards, tally, taken :
             /\ cards = Swapped(page.cards, page.pressed, page.item, page.date)
             /\ tally = TallyOf(list, page.date)
             /\ taken = IF removed THEN page.taken + 1 ELSE page.taken
  OBVIOUS
<1>7. tally \in [Person -> [done: Nat, all: Nat]] /\ taken \in Nat
  BY <1>2, <1>6, NumbersType
<1>8. \A card \in cards : card \in page.cards \/ card = page.item
  BY <1>6 DEF Swapped
<1>9. PICK kept : kept = Kept(page)
  OBVIOUS
<1>10. /\ kept \in Page /\ kept.phase = "shown" /\ kept.cards = page.cards
       /\ kept.date = page.date /\ kept.since = page.since
       /\ kept.badge = page.badge /\ kept.taken = page.taken
       /\ kept.touched = page.touched
  BY <1>2, <1>9, KeptFields
<1>11. PICK then :
         then = [kept EXCEPT !.cards = cards, !.tally = tally, !.fresh = TRUE,
                             !.taken = taken]
  OBVIOUS
<1>12. /\ then \in Page /\ then.phase = "shown" /\ then.cards = cards
       /\ then.tally = tally /\ then.date = page.date /\ then.since = page.since
       /\ then.badge = page.badge /\ then.taken = taken
       /\ then.touched = page.touched
  BY <1>2, <1>4, <1>7, <1>8, <1>10, <1>11 DEF Page, ReadPhase
<1>13. pages' = [pages EXCEPT ![b] = then]
  <2>1. pages' = [pages EXCEPT ![b] =
          [kept EXCEPT
             !.cards = Swapped(@, page.pressed, page.item, page.date),
             !.tally = TallyOf(ListDaily(page.date), page.date),
             !.fresh = TRUE,
             !.taken = IF removed THEN @ + 1 ELSE @]]
    BY <1>1, <1>9 DEF ShowAnswer
  <2>2. ListDaily(page.date) = list
    BY ListDailyIsDaily
  <2> HIDE DEF list, removed
  <2> QED
    BY <1>6, <1>10, <1>11, <2>1, <2>2
<1>14. pages'[b] = then
  BY <1>2, <1>13
<1>15. NamesInv(b)'
  BY <1>2, <1>4, <1>8, <1>12, <1>14 DEF NamesInv, Named, Ids
<1>16. FreshInv(b)'
  <2>1. Apart(cards, page.touched) = Apart(list, page.touched)
    <3>1. id \notin page.touched =>
            /\ page.item = [id |-> id, row |-> rows[id]]
            /\ \E card \in Card : UnderWay(page, card)
      BY <1>2, <1>5
    <3> QED
      BY <1>2, <1>4, <1>5, <1>6, <3>1, SwappedIsListed
  <2>2. ASSUME page.touched = {}
        PROVE  page.badge = OverdueOf(cards, page.date) + taken
    <3>1. PICK card \in page.cards : UnderWay(page, card)
      BY <1>5, <2>2
    <3>2. page.item = [id |-> id, row |-> rows[id]] /\ Apart(page.cards, {id}) = Apart(list, {id})
      <4>1. page.touched \cup {id} = {id}
        BY <2>2
      <4> QED
        BY <1>5, <2>2, <4>1
    <3>3. /\ OverdueOf(cards, page.date) \in Nat
          /\ OverdueOf(page.cards, page.date)
               = OverdueOf(cards, page.date) + (IF removed THEN 1 ELSE 0)
      BY <1>2, <1>6, <3>1, <3>2, OverdueTaken
    <3> HIDE DEF removed
    <3> QED
      BY <1>2, <1>5, <1>6, <2>2, <3>3
  <2>3. Unsure(then) = page.touched
    BY <1>12 DEF Unsure
  <2> QED
    BY <1>2, <1>6, <1>12, <1>14, <2>1, <2>2, <2>3 DEF FreshInv
<1> QED
  BY <1>2, <1>12, <1>13, <1>15, <1>16, OwnStep

LEMMA LoseAnswerStep ==
  ASSUME BInv, NEW b \in Browser, LoseAnswer(b)
  PROVE  BInv'
<1>1. PICK page : page = pages[b]
  OBVIOUS
<1> DEFINE id == page.pressed.id
<1>2. /\ page \in Page /\ page.phase \in {"committed", "answered"}
      /\ page.cards \in SUBSET Card
      /\ UNCHANGED rows /\ today' \in Nat /\ people' \subseteq Person
      /\ pages \in [Browser -> Page]
  BY <1>1, PageFields DEF BInv, TypeOK, LoseAnswer
<1>3. NamesInv(b) /\ FreshInv(b)
  BY DEF BInv
<1>4. id \in Id
  BY <1>1, <1>2, <1>3 DEF NamesInv, Card
<1>5. PICK kept : kept = Kept(page)
  OBVIOUS
<1>6. /\ kept \in Page /\ kept.phase = "shown" /\ kept.cards = page.cards
      /\ kept.date = page.date /\ kept.since = page.since /\ kept.tally = page.tally
      /\ kept.touched = page.touched
      /\ kept.fresh = page.fresh
  BY <1>2, <1>5, KeptFields, Zenon
<1>7. PICK then : then = [kept EXCEPT !.touched = @ \cup {id}]
  OBVIOUS
<1>8. /\ then \in Page /\ then.phase = "shown" /\ then.cards = page.cards
      /\ then.date = page.date /\ then.since = page.since /\ then.tally = page.tally
      /\ then.touched = page.touched \cup {id}
  BY <1>4, <1>6, <1>7 DEF Page
<1>9. then.fresh => page.fresh
  <2>1. then.fresh = kept.fresh
    BY <1>6, <1>7, Zenon DEF Page
  <2> QED
    BY <1>6, <2>1
<1>10. pages' = [pages EXCEPT ![b] = then]
  BY <1>1, <1>5, <1>7 DEF LoseAnswer
<1>11. pages'[b] = then
  BY <1>2, <1>10
<1>12. NamesInv(b)'
  BY <1>1, <1>2, <1>3, <1>8, <1>11 DEF NamesInv, Named, Ids
<1>13. FreshInv(b)'
  <2>1. Unsure(then) = Unsure(page) /\ then.touched # {}
    BY <1>2, <1>8 DEF Unsure
  <2>2. /\ Apart(page.cards, Unsure(page)) = Apart(DailyOf(rows, page.date), Unsure(page))
        /\ page.fresh => page.tally = TallyOf(DailyOf(rows, page.date), page.date)
    BY <1>1, <1>2, <1>3 DEF FreshInv, ReadPhase
  <2>3. then.fresh => then.tally = TallyOf(DailyOf(rows', then.date), then.date)
    BY <1>2, <1>8, <1>9, <2>2
  <2> QED
    BY <1>2, <1>8, <1>11, <2>1, <2>2, <2>3 DEF FreshInv
<1> QED
  BY <1>2, <1>8, <1>10, <1>12, <1>13, OwnStep

-----------------------------------------------------------------------------
(* The theorems. *)

LEMMA BoardInit == Init => BInv
<1> SUFFICES ASSUME Init PROVE BInv
  OBVIOUS
<1>1. TypeOK
  BY BoardAssumption, NoPageFields DEF Init, TypeOK, Ids
<1>2. ASSUME NEW b \in Browser
      PROVE  NamesInv(b) /\ FreshInv(b)
  BY NoPageFields DEF Init, NamesInv, FreshInv, ReadPhase
<1> QED
  BY <1>1, <1>2 DEF BInv

LEMMA BoardNext == BInv /\ [Next]_vars => BInv'
<1> SUFFICES ASSUME BInv, [Next]_vars PROVE BInv'
  OBVIOUS
<1>1. ASSUME UNCHANGED <<rows, pages>>, today' \in Nat, people' \subseteq Person
      PROVE  BInv'
  <2>1. rows \in Table /\ OneOfEachDate(rows) /\ pages \in [Browser -> Page]
    BY TableOfType DEF BInv, TypeOK
  <2>2. TypeOK'
    BY <1>1, <2>1, TypeOfTable
  <2>3. \A b \in Browser : NamesInv(b)' /\ FreshInv(b)'
    BY <1>1, SamePage
  <2> QED
    BY <2>2, <2>3 DEF BInv
<1>2. CASE \E s \in Schedule, dates \in SUBSET (today..(today + Horizon)) :
             Replan(s, dates) \/ Extend(s, dates)
  BY <1>2, ReplanStep, ExtendStep
<1>3. CASE \E p \in Person : Join(p)
  <2>1. UNCHANGED <<rows, pages>> /\ today' \in Nat /\ people' \subseteq Person
    BY <1>3 DEF Join, BInv, TypeOK
  <2> QED
    BY <1>1, <2>1
<1>4. CASE \E b \in Browser, d \in PageDate : LoadPage(b, d)
  BY <1>4, LoadPageStep
<1>5. CASE \E b \in Browser : ShowPage(b) \/ ReadItem(b) \/ ShowAnswer(b) \/ LoseAnswer(b)
  BY <1>5, ShowPageStep, ReadItemStep, ShowAnswerStep, LoseAnswerStep
<1>6. CASE \E b \in Browser : \E card \in pages[b].cards : Press(b, card)
  BY <1>6, PressStep
<1>7. CASE \E i \in Id, to \in Status : PressElsewhere(i, to)
  BY <1>7, PressElsewhereStep
<1>8. CASE NextDay \/ UNCHANGED vars
  <2>1. UNCHANGED <<rows, pages>> /\ today' \in Nat /\ people' \subseteq Person
    BY <1>8 DEF NextDay, vars, BInv, TypeOK
  <2> QED
    BY <1>1, <2>1
<1> QED
  BY <1>2, <1>3, <1>4, <1>5, <1>6, <1>7, <1>8 DEF Next

LEMMA BoardInvariance == Spec => []BInv
BY BoardInit, BoardNext, PTL DEF Spec

\* Types, and with them that no replanning gives a schedule two rows of one date.
THEOREM BoardTypes == Spec => []TypeOK
<1>1. BInv => TypeOK
  BY DEF BInv
<1> QED
  BY <1>1, BoardInvariance, PTL

\* A card of whatever age names its own row, or one that is no longer there, until
\* every row above it that its page was read with is gone too.
THEOREM CardsNameTheirRows == Spec => []NamesHold
<1>1. BInv => NamesHold
  BY DEF BInv, NamesInv, Named, NamesHold
<1> QED
  BY <1>1, BoardInvariance, PTL

\* What nothing but its page's own answered buttons has touched is on the page exactly
\* when, and as, a reload would show it; the numbers of the persons are a reload's until a
\* row changes after them; and the count of overdue cards is a reload's and one more for
\* every overdue card that was completed on the page.
THEOREM PagesNeedNoReload == Spec => []PageAsReloaded
<1>1. ASSUME BInv, NEW b \in Browser, pages[b].phase = "shown"
      PROVE  LET page == pages[b]
                 reload == ListDaily(page.date)
                 facts(cards) == {<<c.id, c.row>> : c \in {x \in cards : x.id \notin page.touched}}
             IN /\ facts(page.cards) = facts(reload)
                /\ page.fresh => page.tally = TallyOf(reload, page.date)
                /\ page.touched = {} => page.badge = OverdueOf(reload, page.date) + page.taken
  <2> DEFINE page == pages[b]
             reload == ListDaily(page.date)
  <2>1. reload = DailyOf(rows, page.date)
    BY ListDailyIsDaily
  <2>2. /\ Apart(page.cards, page.touched) = Apart(reload, page.touched)
        /\ page.fresh => page.tally = TallyOf(reload, page.date)
        /\ page.touched = {} => page.badge = OverdueOf(page.cards, page.date) + page.taken
    BY <1>1, <2>1 DEF BInv, FreshInv, ReadPhase, Unsure
  <2> HIDE DEF reload
  <2>3. \A S : Apart(S, {}) = S
    BY DEF Apart
  <2>4. page.touched = {} => page.cards = reload
    BY <2>2, <2>3
  <2> QED
    BY <2>2, <2>4 DEF Apart, reload
<1>2. BInv => PageAsReloaded
  BY <1>1 DEF PageAsReloaded
<1> QED
  BY <1>2, BoardInvariance, PTL

-----------------------------------------------------------------------------
(* The calendar pages. *)

\* The Monday of a date is at most six days before it, and its own Monday.
LEMMA Mondays ==
  ASSUME NEW d \in Int
  PROVE  /\ MondayOf(d) \in Int /\ MondayOf(d) \in (d - 6)..d
         /\ MondayOf(MondayOf(d)) = MondayOf(d)
<1> DEFINE back(x) == (((x + 6) % 7) + 6) % 7
<1>1. back(d) \in 0..6 /\ MondayOf(d) = d - back(d)
  BY DEF MondayOf, Weekday
<1>2. back(d - back(d)) = 0
  OBVIOUS
<1>3. MondayOf(d - back(d)) = d - back(d)
  BY <1>1, <1>2 DEF MondayOf, Weekday
<1> QED
  BY <1>1, <1>3

\* The cards of a date, as the daily page has them.
CardsOf(d) == {c \in ListDaily(d) : c.row.due = d}

OverdueToday == {c \in ListDaily(today) : c.row.due < today}

\* A query of a period has the cards of its dates.
LEMMA ScheduledCards ==
  ASSUME TypeOK, NEW from \in Int, NEW through \in Int
  PROVE  /\ ListScheduled(from, through) \in SUBSET Card
         /\ \A c \in ListScheduled(from, through) :
              /\ c \in CardsOf(c.row.due) /\ c.row.due \in from..through
              /\ c.row.due \in Nat
         /\ \A d \in from..through : \A c \in CardsOf(d) : c \in ListScheduled(from, through)
<1>1. rows \in Table
  BY TableOfType
<1>2. \A i \in Ids : i \in Id /\ rows[i] \in Row /\ rows[i].due \in Nat
  BY <1>1, RowFields DEF Ids, Table
<1>3. ASSUME NEW c \in ListScheduled(from, through)
      PROVE  /\ c \in Card /\ c \in CardsOf(c.row.due) /\ c.row.due \in from..through
             /\ c.row.due \in Nat
  <2>1. PICK i \in Ids : c = [id |-> i, row |-> rows[i]] /\ rows[i].due \in from..through
    BY <1>3 DEF ListScheduled, ReadCard
  <2>2. c \in ListDaily(rows[i].due)
    BY <2>1 DEF ListDaily, ReadCard
  <2> QED
    BY <1>2, <2>1, <2>2 DEF CardsOf, Card
<1>4. ASSUME NEW d \in from..through, NEW c \in CardsOf(d)
      PROVE  c \in ListScheduled(from, through)
  <2>1. PICK i \in Ids : c = ReadCard(i) /\ rows[i].due = d
    BY <1>4 DEF CardsOf, ListDaily, ReadCard
  <2> QED
    BY <2>1 DEF ListScheduled
<1> QED
  BY <1>3, <1>4

\* A card is marked on a calendar page exactly if the page of today lists it as overdue.
LEMMA MarkedCards ==
  ASSUME TypeOK, NEW d \in Int, NEW c \in CardsOf(d)
  PROVE  IsOverdue(c) <=> c \in OverdueToday
<1>1. PICK i \in Ids : c = ReadCard(i) /\ rows[i].due = d
  BY DEF CardsOf, ListDaily, ReadCard
<1>2. c.row = rows[i]
  BY <1>1 DEF ReadCard
<1>3. rows[i].due \in Nat /\ today \in Nat
  BY RowFields, TableOfType DEF Table, Ids
<1>4. ASSUME IsOverdue(c) PROVE c \in OverdueToday
  BY <1>1, <1>2, <1>3, <1>4 DEF IsOverdue, OverdueToday, ListDaily
<1>5. ASSUME c \in OverdueToday PROVE IsOverdue(c)
  <2>1. PICK j \in Ids : /\ c = ReadCard(j)
                         /\ rows[j].due = today \/ (rows[j].due < today /\ rows[j].status = "pending")
    BY <1>5 DEF OverdueToday, ListDaily
  <2>2. c.row = rows[j] /\ rows[j].due < today /\ rows[j].due \in Nat
    BY <1>2, <1>3, <1>5, <2>1 DEF ReadCard, OverdueToday
  <2> QED
    BY <1>3, <2>1, <2>2 DEF IsOverdue
<1> QED
  BY <1>4, <1>5

LEMMA WeeksAgree ==
  ASSUME TypeOK, NEW date \in Days, NEW start, start = MondayOf(date)
  PROVE  LET page == WeeklyPage(start)
             week == start..(start + 6)
         IN /\ page.summary = Ratio(UNION {CardsOf(d) : d \in week})
            /\ \A d \in week \cap Days : \A p \in DOMAIN page.cells :
                 LET cell == page.cells[p][d - start]
                 IN /\ cell.shown = {c \in CardsOf(d) : c.row.assignee = p}
                    /\ cell.marked = cell.shown \cap OverdueToday
<1>1. start \in Int /\ MondayOf(start) = start
  BY Mondays DEF Days
<1> DEFINE items == ListScheduled(start, start + 6)
           week == start..(start + 6)
           domain == Columns(people, items)
           view == [p \in domain |-> [n \in 0..6 |-> WeekCell(items, start, p, n)]]
           page == WeeklyPage(start)
           cell(p, n) == [shown |-> view[p][n], marked |-> {c \in view[p][n] : IsOverdue(c)}]
<1>2. /\ items \in SUBSET Card
      /\ \A c \in items : c \in CardsOf(c.row.due) /\ c.row.due \in week /\ c.row.due \in Nat
      /\ \A d \in week : \A c \in CardsOf(d) : c \in items
  BY <1>1, ScheduledCards
<1>3. WeeklyView(start) = view
  BY <1>1 DEF WeeklyView
<1> DEFINE cells == [p \in domain |-> [n \in 0..6 |-> cell(p, n)]]
<1>4. page.summary = WeeklySummary(view) /\ page.cells = cells
  <2>1. page = [summary |-> WeeklySummary(view), cells |-> cells]
    BY <1>3 DEF WeeklyPage
  <2> HIDE DEF view, cells, page
  <2> QED
    BY <2>1
<1> HIDE DEF items
<1>5. UNION {CardsOf(d) : d \in week} = items
  <2>1. \A d \in week : \A c \in CardsOf(d) : c.row.due = d
    BY DEF CardsOf
  <2> QED
    BY <1>2, <2>1
<1>6. UNION {UNION {view[p][n] : n \in 0..6} : p \in DOMAIN view} = items
  <2>1. ASSUME NEW c \in items
        PROVE  \E p \in DOMAIN view : \E n \in 0..6 : c \in view[p][n]
    <3> DEFINE q == c.row.assignee
               k == c.row.due - start
    <3>1. q \in domain
      BY DEF Columns
    <3>2. k \in 0..6
      BY <1>1, <1>2
    <3>3. c \in WeekCell(items, start, q, k)
      BY DEF WeekCell
    <3> QED
      BY <3>1, <3>2, <3>3
  <2>2. ASSUME NEW p \in DOMAIN view, NEW n \in 0..6, NEW c \in view[p][n]
        PROVE  c \in items
    BY DEF WeekCell
  <2> HIDE DEF view
  <2>3. ASSUME NEW c \in UNION {UNION {view[p][n] : n \in 0..6} : p \in DOMAIN view}
        PROVE  c \in items
    <3>1. PICK p \in DOMAIN view : c \in UNION {view[p][n] : n \in 0..6}
      OBVIOUS
    <3>2. PICK n \in 0..6 : c \in view[p][n]
      BY <3>1
    <3> QED
      BY <2>2, <3>1, <3>2
  <2>4. ASSUME NEW c \in items
        PROVE  c \in UNION {UNION {view[p][n] : n \in 0..6} : p \in DOMAIN view}
    <3>1. PICK p \in DOMAIN view : \E n \in 0..6 : c \in view[p][n]
      BY <2>1
    <3>2. c \in UNION {view[p][n] : n \in 0..6}
      BY <3>1
    <3> QED
      BY <3>2
  <2> QED
    BY <2>3, <2>4
<1>7. page.summary = Ratio(items)
  <2> HIDE DEF view, page
  <2> QED
    BY <1>4, <1>6 DEF WeeklySummary
<1>8. ASSUME NEW d \in week \cap Days, NEW p \in DOMAIN page.cells
      PROVE  /\ page.cells[p][d - start].shown = {c \in CardsOf(d) : c.row.assignee = p}
             /\ page.cells[p][d - start].marked =
                  page.cells[p][d - start].shown \cap OverdueToday
  <2>0. DOMAIN page.cells = domain
    BY <1>4
  <2>1. p \in domain /\ d - start \in 0..6 /\ d \in Int
    BY <1>1, <1>8, <2>0 DEF Days
  <2>2. page.cells[p][d - start] = cell(p, d - start)
    BY <1>4, <2>1
  <2>3. view[p][d - start] = {c \in items : c.row.assignee = p /\ c.row.due - start = d - start}
    BY <2>1 DEF WeekCell
  <2>4. view[p][d - start] = {c \in CardsOf(d) : c.row.assignee = p}
    <3>1. ASSUME NEW c \in items, c.row.due - start = d - start
          PROVE  c \in CardsOf(d)
      <4>1. c.row.due = d
        BY <1>1, <1>2, <2>1, <3>1
      <4> QED
        BY <1>2, <4>1
    <3>2. ASSUME NEW c \in CardsOf(d)
          PROVE  c \in items /\ c.row.due - start = d - start
      BY <1>2 DEF CardsOf
    <3> QED
      BY <2>3, <3>1, <3>2
  <2>5. \A c \in view[p][d - start] : IsOverdue(c) <=> c \in OverdueToday
    BY <2>1, <2>4, MarkedCards
  <2> HIDE DEF view
  <2> QED
    BY <2>2, <2>4, <2>5
<1> QED
  BY <1>5, <1>7, <1>8

LEMMA MonthsAgree ==
  ASSUME TypeOK, NEW m \in Months
  PROVE  LET page == MonthlyPage(m)
             month == MonthStart[m]..(MonthStart[m + 1] - 1)
         IN /\ page.summary = Ratio(UNION {CardsOf(d) : d \in month})
            /\ \A d \in Days \cap month :
                 /\ page.cells[d].dots = CardsOf(d)
                 /\ page.cells[d].ratio = Ratio(CardsOf(d))
                 /\ page.cells[d].marked <=> CardsOf(d) \cap OverdueToday # {}
<1> DEFINE start == MondayOf(MonthStart[m])
           items == ListScheduled(start, start + 41)
           shown == start..(start + 41)
           month == MonthStart[m]..(MonthStart[m + 1] - 1)
           view == [d \in shown |-> {c \in items : c.row.due = d}]
           page == MonthlyPage(m)
<1>1. /\ MonthStart[m] \in Nat /\ MonthStart[m + 1] \in Nat
      /\ MonthStart[m + 1] <= MonthStart[m] + 31
  <2>1. m \in 1..Len(MonthStart) /\ m + 1 \in 1..Len(MonthStart)
    BY CalendarAssumption DEF Months
  <2>2. MonthStart[m] \in Nat /\ MonthStart[m + 1] \in Nat
    BY <2>1, CalendarAssumption
  <2>3. MonthStart[m + 1] - MonthStart[m] \in 28..31
    BY CalendarAssumption
  <2> QED
    BY <2>2, <2>3
<1>2. start \in Int /\ start <= MonthStart[m] /\ MonthStart[m] <= start + 6
  BY <1>1, Mondays
<1> HIDE DEF start
<1>3. month \in SUBSET shown
  BY <1>1, <1>2
<1>4. /\ \A c \in items : c \in CardsOf(c.row.due)
      /\ \A d \in shown : \A c \in CardsOf(d) : c \in items
  BY <1>2, ScheduledCards
<1>5. MonthlyView(m) = view
  BY DEF MonthlyView, start
<1> DEFINE cells == [d \in shown |-> [dots |-> view[d], ratio |-> Ratio(view[d]),
                                      marked |-> \E c \in view[d] : IsOverdue(c)]]
<1>6. page.summary = MonthlySummary(m, view) /\ page.cells = cells
  <2>1. page = [summary |-> MonthlySummary(m, view), cells |-> cells]
    BY <1>5 DEF MonthlyPage
  <2> HIDE DEF view, cells, page
  <2> QED
    BY <2>1
<1> HIDE DEF items
<1>7. \A d \in shown : view[d] = CardsOf(d)
  BY <1>4 DEF CardsOf
<1> HIDE DEF view
<1>8. page.summary = Ratio(UNION {CardsOf(d) : d \in month})
  <2>1. {view[d] : d \in month} = {CardsOf(d) : d \in month}
    BY <1>3, <1>7
  <2>2. MonthlySummary(m, view) = Ratio(UNION {view[d] : d \in month})
    BY DEF MonthlySummary
  <2> QED
    BY <1>6, <2>1, <2>2
<1>9. ASSUME NEW d \in Days \cap month
      PROVE  /\ page.cells[d].dots = CardsOf(d)
             /\ page.cells[d].ratio = Ratio(CardsOf(d))
             /\ page.cells[d].marked <=> CardsOf(d) \cap OverdueToday # {}
  <2>1. d \in shown /\ d \in Int
    BY <1>1, <1>3
  <2>2. page.cells[d] = [dots |-> view[d], ratio |-> Ratio(view[d]),
                         marked |-> \E c \in view[d] : IsOverdue(c)]
    BY <1>6, <2>1
  <2>3. view[d] = CardsOf(d)
    BY <1>7, <2>1
  <2>4. page.cells[d].dots = CardsOf(d) /\ page.cells[d].ratio = Ratio(CardsOf(d))
    BY <2>2, <2>3
  <2>5. page.cells[d].marked = (\E c \in view[d] : IsOverdue(c))
    <3> DEFINE P == \E c \in view[d] : IsOverdue(c)
    <3>1. [dots |-> view[d], ratio |-> Ratio(view[d]), marked |-> P].marked = P
      BY Zenon
    <3> QED
      BY <2>2, <3>1, Zenon
  <2>6. (\E c \in view[d] : IsOverdue(c)) <=> CardsOf(d) \cap OverdueToday # {}
    BY <2>1, <2>3, MarkedCards
  <2> QED
    BY <2>4, <2>5, <2>6, Zenon
<1> QED
  BY <1>8, <1>9, Zenon

\* The weekly and monthly pages agree with the daily ones, in every calendar.
THEOREM CalendarPagesAgree == Spec => []PagesAgree
<1>1. ASSUME BInv
      PROVE  PagesAgree
  <2>1. TypeOK
    BY <1>1 DEF BInv
  <2>2. \A m \in Months :
          LET page == MonthlyPage(m)
              month == MonthStart[m]..(MonthStart[m + 1] - 1)
          IN /\ page.summary = Ratio(UNION {CardsOf(d) : d \in month})
             /\ \A d \in Days \cap month :
                 /\ page.cells[d].dots = CardsOf(d)
                 /\ page.cells[d].ratio = Ratio(CardsOf(d))
                 /\ page.cells[d].marked <=> CardsOf(d) \cap OverdueToday # {}
    BY <2>1, MonthsAgree, Zenon
  <2>3. \A start \in {MondayOf(d) : d \in Days} :
          LET page == WeeklyPage(start)
              week == start..(start + 6)
          IN /\ page.summary = Ratio(UNION {CardsOf(d) : d \in week})
             /\ \A d \in week \cap Days : \A p \in DOMAIN page.cells :
                  LET cell == page.cells[p][d - start]
                  IN /\ cell.shown = {c \in CardsOf(d) : c.row.assignee = p}
                     /\ cell.marked = cell.shown \cap OverdueToday
    BY <2>1, WeeksAgree, Zenon
  <2> QED
    BY <2>2, <2>3, Zenon DEF PagesAgree, CardsOf, OverdueToday
<1>2. BInv => PagesAgree
  BY <1>1
<1> QED
  BY <1>2, BoardInvariance, PTL

-----------------------------------------------------------------------------
(* Everybody who has a row is listed. *)

PeopleInv ==
  /\ IsFiniteSet(people)
  /\ \A i \in Ids : rows[i].assignee \in people

\* A planned row is the assignee's of its schedule.
LEMMA InsertedAssignees ==
  ASSUME NEW table \in Table, NEW s, NEW dates, NEW i \in Id
  PROVE  \/ Inserted(table, s, dates)[i] = table[i]
         \/ Inserted(table, s, dates)[i].assignee = AssigneeOf[s]
BY DEF Inserted

LEMMA PeopleNext == TypeOK /\ PeopleInv /\ [Next]_vars => PeopleInv'
<1> SUFFICES ASSUME TypeOK, PeopleInv, [Next]_vars PROVE PeopleInv'
  OBVIOUS
<1> USE DEF PeopleInv
<1>0. rows \in Table
  BY TableOfType
<1>1. ASSUME rows' = rows, people \in SUBSET people', IsFiniteSet(people') PROVE PeopleInv'
  BY <1>1 DEF Ids
<1>2. ASSUME NEW s \in Schedule, NEW dates, NEW kept \in Table,
             \A i \in Id : kept[i] \in {rows[i], NoRow},
             rows' = Inserted(kept, s, dates \ DatesOf(kept, s)),
             AssigneeOf[s] \in people, people' = people
      PROVE  PeopleInv'
  <2> SUFFICES ASSUME NEW i \in Id, rows'[i] # NoRow PROVE rows'[i].assignee \in people
    BY <1>2 DEF Ids
  <2>1. rows'[i] = kept[i] \/ rows'[i].assignee = AssigneeOf[s]
    BY <1>2, InsertedAssignees
  <2>2. rows'[i] = kept[i] => rows[i] = kept[i] /\ i \in Ids
    BY <1>2 DEF Ids
  <2> QED
    BY <1>2, <2>1, <2>2
<1>3. ASSUME NEW i \in Ids, NEW to, rows' = Transition(rows, i, to), people' = people
      PROVE  PeopleInv'
  <2>1. i \in Id /\ rows[i] \in Row
    BY <1>0 DEF Ids, Table
  <2>2. \A j \in Id : rows'[j] = IF j = i THEN [rows[i] EXCEPT !.status = to] ELSE rows[j]
    BY <1>0, <1>3, <2>1 DEF Transition, Table
  <2>3. [rows[i] EXCEPT !.status = to].assignee = rows[i].assignee
    BY <2>1 DEF Row
  <2> QED
    BY <1>3, <2>2, <2>3 DEF Ids
<1>4. ASSUME NEW s \in Schedule, NEW dates \in SUBSET (today..(today + Horizon)),
             Replan(s, dates)
      PROVE  PeopleInv'
  <2>1. WithoutPending(s, today) \in Table
    BY <1>0 DEF WithoutPending, Table
  <2>2. \A i \in Id : WithoutPending(s, today)[i] \in {rows[i], NoRow}
    BY DEF WithoutPending
  <2> QED
    BY <1>2, <1>4, <2>1, <2>2 DEF Replan
<1>5. ASSUME NEW s \in Schedule, NEW dates \in SUBSET (today..(today + Horizon)),
             Extend(s, dates)
      PROVE  PeopleInv'
  BY <1>0, <1>2, <1>5 DEF Extend
<1>6. ASSUME NEW p \in Person, Join(p) PROVE PeopleInv'
  <2>1. IsFiniteSet(people \cup {p})
    BY FS_AddElement
  <2> QED
    BY <1>1, <1>6, <2>1 DEF Join
<1>7. ASSUME NEW b \in Browser, NEW card \in pages[b].cards, Press(b, card)
      PROVE  PeopleInv'
  <2>1. card.id \in Id
    BY PageFields DEF Card, TypeOK
  <2> QED
    BY <1>3, <1>7, <2>1 DEF Press, Ids
<1>8. ASSUME NEW i \in Id, NEW to \in Status, PressElsewhere(i, to) PROVE PeopleInv'
  BY <1>3, <1>8 DEF PressElsewhere
<1> QED
  BY <1>1, <1>4, <1>5, <1>6, <1>7, <1>8
  DEF Next, LoadPage, ShowPage, ReadItem, ShowAnswer, LoseAnswer, NextDay, vars

LEMMA PeopleInvariance == Spec => []PeopleInv
<1>1. Init => PeopleInv
  BY BoardAssumption DEF Init, PeopleInv, Ids
<1> QED
  BY <1>1, BoardTypes, PeopleNext, PTL DEF Spec

-----------------------------------------------------------------------------
(* The dashboard. *)

\* A rate in percent is the whole number next to the share.
LEMMA RateIsRounded ==
  ASSUME NEW done \in Nat, NEW all \in Nat, done <= all
  PROVE  2 * (100 * done - Rate(done, all) * all) \in (0 - all)..all
<1>1. CASE all = 0
  BY <1>1 DEF Rate
<1>2. CASE all # 0
  <2> DEFINE half == all \div 2
             whole == done * 100 + half
             rate == whole \div all
  <2>1. half \in Int /\ 2 * half <= all /\ all - 1 <= 2 * half
    OBVIOUS
  <2>2. whole \in Int
    BY <2>1
  <2>3. rate \in Int /\ rate * all <= whole /\ whole <= rate * all + all - 1
    BY <1>2, <2>2
  <2>4. Rate(done, all) = rate
    BY <1>2 DEF Rate
  <2> QED
    BY <2>1, <2>3, <2>4
<1> QED
  BY <1>1, <1>2

\* As many cards as rows.
LEMMA CardsCount ==
  ASSUME NEW I \in SUBSET Id
  PROVE  /\ IsFiniteSet(I)
         /\ Cardinality({ReadCard(i) : i \in I}) = Cardinality(I)
<1> DEFINE cards == {ReadCard(i) : i \in I}
           f == [i \in I |-> ReadCard(i)]
<1>1. IsFiniteSet(I)
  <2>1. MaxId \in Int /\ 1 \in Int
    BY BoardAssumption
  <2>2. IsFiniteSet(1..MaxId)
    BY <2>1, FS_Interval
  <2> QED
    BY <2>2, FS_Subset DEF Id
<1>2. f \in Bijection(I, cards)
  <2>1. \A i, j \in I : f[i] = f[j] => i = j
    BY DEF ReadCard
  <2>2. f \in [I -> cards] /\ \A c \in cards : \E i \in I : f[i] = c
    OBVIOUS
  <2> QED
    BY <2>1, <2>2 DEF Bijection, Injection, Surjection, IsInjective
<1>3. ExistsBijection(I, cards)
  BY <1>2 DEF ExistsBijection
<1> QED
  BY <1>1, <1>3, FS_Bijection

\* The rows of a person that are due on a date, and those of them that are done.
RowsOf(p, d) == {i \in Ids : rows[i].assignee = p /\ rows[i].due = d}

DoneRows(I) == {i \in I : rows[i].status = "done"}

OverdueRows == {i \in Ids : rows[i].due < today /\ rows[i].status = "pending"}

\* What a daily page says of a person is the number of the person's rows of its date.
LEMMA TallyCounts ==
  ASSUME NEW p \in Person, NEW d
  PROVE  LET tally == TallyOf(ListDaily(d), d)[p]
         IN /\ tally.all = Cardinality(RowsOf(p, d))
            /\ tally.done = Cardinality(DoneRows(RowsOf(p, d)))
<1> DEFINE mine == {c \in ListDaily(d) : c.row.assignee = p /\ c.row.due = d}
<1>1. mine = {ReadCard(i) : i \in RowsOf(p, d)}
  BY DEF ListDaily, ReadCard, RowsOf
<1>2. {c \in mine : c.row.status = "done"} = {ReadCard(i) : i \in DoneRows(RowsOf(p, d))}
  BY <1>1 DEF ReadCard, DoneRows
<1>3. RowsOf(p, d) \in SUBSET Id /\ DoneRows(RowsOf(p, d)) \in SUBSET Id
  BY DEF RowsOf, DoneRows, Ids
<1>4. TallyOf(ListDaily(d), d)[p] =
        [all |-> Cardinality(mine), done |-> Cardinality({c \in mine : c.row.status = "done"})]
  BY DEF TallyOf
<1>5. /\ Cardinality({ReadCard(i) : i \in RowsOf(p, d)}) = Cardinality(RowsOf(p, d))
      /\ Cardinality({ReadCard(i) : i \in DoneRows(RowsOf(p, d))})
           = Cardinality(DoneRows(RowsOf(p, d)))
  BY <1>3, CardsCount
<1> HIDE DEF mine
<1>6. /\ TallyOf(ListDaily(d), d)[p].all = Cardinality(mine)
      /\ TallyOf(ListDaily(d), d)[p].done = Cardinality({c \in mine : c.row.status = "done"})
  BY <1>4
<1> QED
  BY <1>1, <1>2, <1>5, <1>6

\* The cards that the page of today lists as overdue are those of the rows that are.
LEMMA OverdueCounts ==
  ASSUME TypeOK
  PROVE  /\ Cardinality({c \in ListDaily(today) : c.row.due < today})
              = Cardinality(OverdueRows)
         /\ \A p : Cardinality({c \in ListDaily(today) :
                                  c.row.assignee = p /\ c.row.due < today})
              = Cardinality({i \in OverdueRows : rows[i].assignee = p})
         /\ \A p : OverdueCount(p) = Cardinality({i \in OverdueRows : rows[i].assignee = p})
<1>0. today \in Nat /\ \A i \in Ids : rows[i].due \in Nat
  BY RowFields, TableOfType DEF Table, Ids, TypeOK
<1>1. {c \in ListDaily(today) : c.row.due < today} = {ReadCard(i) : i \in OverdueRows}
  BY <1>0 DEF ListDaily, ReadCard, OverdueRows
<1>2. ASSUME NEW p
      PROVE  {c \in ListDaily(today) : c.row.assignee = p /\ c.row.due < today}
               = {ReadCard(i) : i \in {j \in OverdueRows : rows[j].assignee = p}}
  BY <1>0 DEF ListDaily, ReadCard, OverdueRows
<1>3. ASSUME NEW p
      PROVE  OverdueCount(p) = Cardinality({i \in OverdueRows : rows[i].assignee = p})
  <2>1. {i \in Ids : rows[i].assignee = p /\ rows[i].due < today /\ rows[i].status = "pending"}
          = {i \in OverdueRows : rows[i].assignee = p}
    BY DEF OverdueRows
  <2> QED
    BY <2>1 DEF OverdueCount
<1>4. OverdueRows \in SUBSET Id
  BY DEF OverdueRows, Ids
<1>5. Cardinality({ReadCard(i) : i \in OverdueRows}) = Cardinality(OverdueRows)
  BY <1>4, CardsCount
<1>6. ASSUME NEW p
      PROVE  Cardinality({ReadCard(i) : i \in {j \in OverdueRows : rows[j].assignee = p}})
               = Cardinality({i \in OverdueRows : rows[i].assignee = p})
  BY <1>4, CardsCount
<1> QED
  BY <1>1, <1>2, <1>3, <1>5, <1>6

\* The lines of the dashboard add up to all that is overdue.
LEMMA OverdueAddsUp ==
  ASSUME TypeOK, PeopleInv
  PROVE  AdminPage.overdue = Cardinality(OverdueRows)
<1> DEFINE of == [i \in OverdueRows |-> rows[i].assignee]
           e == [p \in people |-> Dashboard[p].overdue]
           sums(g) == g = [s \in SUBSET people |->
                 IF s = {} THEN 0
                 ELSE Dashboard[CHOOSE x \in s : TRUE].overdue
                        + g[s \ {CHOOSE x \in s : TRUE}]]
<1>1. OverdueRows \in SUBSET Id
  BY DEF OverdueRows, Ids
<1>2. IsFiniteSet(OverdueRows) /\ IsFiniteSet(people)
  BY <1>1, CardsCount DEF PeopleInv
<1>3. \A p \in people : Dashboard[p].overdue = Cardinality(Owned(OverdueRows, of, {p}))
  <2> SUFFICES ASSUME NEW p \in people
               PROVE  Dashboard[p].overdue = Cardinality(Owned(OverdueRows, of, {p}))
    OBVIOUS
  <2>1. Dashboard[p].overdue = OverdueCount(p)
    BY DEF Dashboard
  <2>2. Owned(OverdueRows, of, {p}) = {i \in OverdueRows : rows[i].assignee = p}
    BY DEF Owned
  <2> QED
    BY <2>1, <2>2, OverdueCounts
<1>4. \A p \in people : e[p] = Cardinality(Owned(OverdueRows, of, {p}))
  BY <1>3
<1> HIDE DEF of
<1>5. /\ SumsUp(Counts(OverdueRows, of, people), e, people)
      /\ \A g : SumsUp(g, e, people) =>
                  g[people] = Cardinality(Owned(OverdueRows, of, people))
  <2> HIDE DEF e
  <2> QED
    BY <1>2, <1>4, CountsAddUp
<1>6. \A g : sums(g) <=> SumsUp(g, e, people)
  <2> SUFFICES ASSUME NEW g
               PROVE  \A s \in SUBSET people :
                        s # {} => Dashboard[CHOOSE x \in s : TRUE].overdue = e[CHOOSE x \in s : TRUE]
    BY DEF SumsUp
  <2> QED
    OBVIOUS
<1>7. AdminPage.overdue = (CHOOSE g : sums(g))[people]
  BY DEF AdminPage, MapThenSumSet, MapThenFoldSet
<1> HIDE DEF e, sums
<1>8. sums(CHOOSE g : sums(g))
  BY <1>5, <1>6
<1>9. Owned(OverdueRows, of, people) = OverdueRows
  BY DEF Owned, of, OverdueRows, PeopleInv
<1> QED
  BY <1>5, <1>6, <1>7, <1>8, <1>9


DueOn(T, d) == {i \in T : rows[i].due = d}

\* What the daily pages from a date up to today say of a person, added up.
Total(p, what, from) ==
  MapThenSumSet(LAMBDA d : TallyOf(ListDaily(d), d)[p][what], from..today)

\* That is the number of the person's rows of those days.
LEMMA TalliesAddUp ==
  ASSUME TypeOK, NEW p, NEW from \in Nat, NEW what, NEW T \in SUBSET Id,
         \A i \in T : rows[i].due \in from..today,
         \A d \in from..today :
           TallyOf(ListDaily(d), d)[p][what] = Cardinality(DueOn(T, d))
  PROVE  Total(p, what, from) = Cardinality(T)
<1> DEFINE S == from..today
           of == [i \in T |-> rows[i].due]
           e == [d \in S |-> TallyOf(ListDaily(d), d)[p][what]]
           sums(g) == g = [s \in SUBSET S |->
                 IF s = {} THEN 0
                 ELSE TallyOf(ListDaily(CHOOSE x \in s : TRUE), CHOOSE x \in s : TRUE)[p][what]
                        + g[s \ {CHOOSE x \in s : TRUE}]]
<1>1. IsFiniteSet(T) /\ IsFiniteSet(S)
  <2>1. from \in Int /\ today \in Int
    BY DEF TypeOK
  <2> QED
    BY <2>1, CardsCount, FS_Interval
<1>2. \A d \in S : e[d] = Cardinality(Owned(T, of, {d}))
  <2> SUFFICES ASSUME NEW d \in S PROVE e[d] = Cardinality(Owned(T, of, {d}))
    OBVIOUS
  <2>1. Owned(T, of, {d}) = DueOn(T, d)
    BY DEF Owned, DueOn
  <2> QED
    BY <2>1
<1>3. Owned(T, of, S) = T
  BY DEF Owned
<1>4. \A g : sums(g) <=> SumsUp(g, e, S)
  <2> SUFFICES ASSUME NEW g
               PROVE  \A s \in SUBSET S : s # {} =>
                        TallyOf(ListDaily(CHOOSE x \in s : TRUE), CHOOSE x \in s : TRUE)[p][what]
                          = e[CHOOSE x \in s : TRUE]
    BY DEF SumsUp
  <2> QED
    OBVIOUS
<1>5. Total(p, what, from) = (CHOOSE g : sums(g))[S]
  BY DEF Total, MapThenSumSet, MapThenFoldSet
<1> HIDE DEF S, of, e, sums
<1>6. /\ SumsUp(Counts(T, of, S), e, S)
      /\ \A g : SumsUp(g, e, S) => g[S] = Cardinality(Owned(T, of, S))
  BY <1>1, <1>2, CountsAddUp
<1>7. sums(CHOOSE g : sums(g))
  BY <1>4, <1>6
<1> QED
  BY <1>3, <1>4, <1>5, <1>6, <1>7

\* The rate is the whole number next to what the daily pages add up to.
LEMMA RatesAgree ==
  ASSUME TypeOK, NEW p \in Person
  PROVE  LET count(what) == Total(p, what, RatedFrom)
         IN 2 * (100 * count("done") - Rated(p, RatedFrom) * count("all"))
              \in (0 - count("all"))..count("all")
<1> DEFINE count(what) == Total(p, what, RatedFrom)
           mine == Assigned(p, RatedFrom)
           done == DoneRows(mine)
<1>1. RatedFrom \in Nat
  BY RatedDaysAssumption DEF RatedFrom, TypeOK
<1>2. mine \in SUBSET Id /\ done \in SUBSET mine
  BY DEF Assigned, DoneRows, Ids
<1>3. \A i \in mine : rows[i].due \in RatedFrom..today
  BY DEF Assigned
<1>4. ASSUME NEW d \in RatedFrom..today
      PROVE  /\ TallyOf(ListDaily(d), d)[p]["all"] = Cardinality(DueOn(mine, d))
             /\ TallyOf(ListDaily(d), d)[p]["done"] = Cardinality(DueOn(done, d))
  <2>1. RowsOf(p, d) = DueOn(mine, d)
    BY DEF RowsOf, Assigned, DueOn
  <2>2. DoneRows(RowsOf(p, d)) = DueOn(done, d)
    BY <2>1 DEF DoneRows, DueOn
  <2> QED
    BY <2>1, <2>2, TallyCounts
<1>5. count("all") = Cardinality(mine)
  <2> HIDE DEF mine
  <2> QED
    BY <1>1, <1>2, <1>3, <1>4, TalliesAddUp
<1>6. count("done") = Cardinality(done)
  <2> HIDE DEF mine, done
  <2> QED
    BY <1>1, <1>2, <1>3, <1>4, TalliesAddUp
<1>7. /\ Cardinality(mine) \in Nat /\ Cardinality(done) \in Nat
      /\ Cardinality(done) <= Cardinality(mine)
  BY <1>2, CardsCount, FS_Subset, FS_CardinalityType
<1>8. Rated(p, RatedFrom) = Rate(Cardinality(done), Cardinality(mine))
  BY DEF Rated, DoneRows
<1> HIDE DEF mine, done, count
<1>9. 2 * (100 * count("done") - Rated(p, RatedFrom) * count("all"))
        \in (0 - count("all"))..count("all")
  BY <1>5, <1>6, <1>7, <1>8, RateIsRounded
<1> QED
  BY <1>9 DEF count

\* A streak is as long as the run of dates up to today whose daily pages are done.
LEMMA StreaksAgree ==
  ASSUME TypeOK, NEW p \in Person
  PROVE  LET tally(d) == TallyOf(ListDaily(d), d)[p]
             done(d) == tally(d).done = tally(d).all
         IN Streak(p) = Cardinality({d \in 0..today :
                                       tally(d).all > 0 /\ \A e \in d..today : done(e)})
<1> DEFINE tally(d) == TallyOf(ListDaily(d), d)[p]
           done(d) == tally(d).done = tally(d).all
           run == {d \in 0..today : tally(d).all > 0 /\ \A e \in d..today : done(e)}
           broken == ChoreDays(p) \ CompleteDays(p)
<1>0. today \in Nat /\ \A i \in Ids : i \in Id /\ rows[i].due \in Nat
  BY RowFields, TableOfType DEF Table, Ids, TypeOK
<1>1. ASSUME NEW d \in 0..today
      PROVE  /\ tally(d).all > 0 <=> d \in ChoreDays(p)
             /\ done(d) <=> d \notin broken
  <2> DEFINE mine == RowsOf(p, d)
  <2>1. mine \in SUBSET Id /\ IsFiniteSet(mine) /\ DoneRows(mine) \in SUBSET mine
    BY CardsCount DEF RowsOf, DoneRows, Ids
  <2>2. d \in ChoreDays(p) <=> mine # {}
    BY <1>0 DEF ChoreDays, Assigned, RowsOf
  <2>3. d \in broken <=> DoneRows(mine) # mine
    BY <1>0 DEF ChoreDays, CompleteDays, Assigned, RowsOf, DoneRows
  <2> HIDE DEF mine, broken
  <2>4. Cardinality(mine) \in Nat /\ (Cardinality(mine) > 0 <=> mine # {})
    BY <2>1, FS_EmptySet, FS_CardinalityType
  <2>5. Cardinality(DoneRows(mine)) = Cardinality(mine) <=> DoneRows(mine) = mine
    BY <2>1, FS_Subset
  <2>6. tally(d).all = Cardinality(mine) /\ tally(d).done = Cardinality(DoneRows(mine))
    BY TallyCounts DEF mine
  <2> QED
    BY <2>2, <2>3, <2>4, <2>5, <2>6
<1>2. ChoreDays(p) \in SUBSET (0..today) /\ broken \in SUBSET (0..today)
  BY <1>0 DEF ChoreDays, Assigned
<1>3. {d \in ChoreDays(p) : \A b \in broken : d > b} = run
  <2> HIDE DEF broken, tally
  <2> QED
    BY <1>0, <1>1, <1>2
<1>4. Streak(p) = Cardinality({d \in ChoreDays(p) : \A b \in broken : d > b})
  BY DEF Streak
<1> QED
  BY <1>3, <1>4

\* The dashboard counts what the pages show, in every calendar and over any number of days.
THEOREM DashboardCountsThePages == Spec => []DashboardAgrees
<1>1. ASSUME TypeOK, PeopleInv
      PROVE  DashboardAgrees
  <2>1. AdminPage.overdue = Cardinality({c \in ListDaily(today) : c.row.due < today})
    BY <1>1, OverdueAddsUp, OverdueCounts
  <2>2. ASSUME NEW p \in people
        PROVE  LET line == Dashboard[p]
                   tally(d) == TallyOf(ListDaily(d), d)[p]
                   done(d) == tally(d).done = tally(d).all
                   count(what) == MapThenSumSet(LAMBDA d : tally(d)[what], RatedFrom..today)
                   run == {d \in 0..today : tally(d).all > 0 /\ \A e \in d..today : done(e)}
               IN /\ line.overdue =
                       Cardinality({c \in ListDaily(today) :
                                      c.row.assignee = p /\ c.row.due < today})
                  /\ line.streak = Cardinality(run)
                  /\ 2 * (100 * count("done") - line.rate * count("all"))
                       \in (0 - count("all"))..count("all")
    <3>1. p \in Person
      BY <1>1 DEF TypeOK
    <3>2. /\ Dashboard[p].overdue = OverdueCount(p)
          /\ Dashboard[p].streak = Streak(p)
          /\ Dashboard[p].rate = Rated(p, RatedFrom)
      BY DEF Dashboard
    <3>3. OverdueCount(p) = Cardinality({c \in ListDaily(today) :
                                           c.row.assignee = p /\ c.row.due < today})
      BY <1>1, OverdueCounts
    <3> QED
      BY <1>1, <3>1, <3>2, <3>3, StreaksAgree, RatesAgree DEF Total
  <2> QED
    BY <2>1, <2>2 DEF DashboardAgrees
<1> QED
  BY <1>1, BoardTypes, PeopleInvariance, PTL
=============================================================================
