----------------------------- MODULE DailyBoard -----------------------------
(***************************************************************************)
(* The daily page and the cards on it: internal/handlers/daily.go over     *)
(* DailyView and transitionInstance, internal/store/instances.go, and      *)
(* internal/views/components/instance_card.templ.                          *)
(*                                                                         *)
(* A card names a row by its id.  A page is put together from several      *)
(* queries and may be as old as it likes when one of its buttons is        *)
(* pressed, and the answer to the button is read after its transaction.    *)
(* How a replanning chooses its dates is the business of Chores: here it   *)
(* may choose any.                                                         *)
(***************************************************************************)
EXTENDS Integers, FiniteSetsExt

CONSTANTS
  Schedule, Person,
  AssigneeOf,    \* the assignee of each schedule, which is fixed
  Founders,      \* the people there from the start
  Browser,       \* the browsers whose daily pages are followed
  PageDate,      \* the dates asked for in the address of a page
  Horizon,       \* days planned ahead: 60, service.HorizonDays
  MaxId,         \* bound on the ids of rows
  MaxDay         \* bound on the calendar

ASSUME BoardAssumption ==
  /\ Founders \subseteq Person /\ IsFiniteSet(Founders)
  /\ AssigneeOf \in [Schedule -> Person]
  /\ PageDate \cup {Horizon, MaxId, MaxDay} \subseteq Nat

VARIABLES
  today,         \* the household's date
  people,        \* rows of people; nobody is ever deactivated
  rows,          \* rows of chore_instances, by id
  pages          \* what each browser shows, and what its request has read so far

vars == <<today, people, rows, pages>>

Id == 1..MaxId
Status == {"pending", "done"}

\* The columns of chore_instances that a page shows.
Row == [schedule: Schedule, due: Nat, assignee: Person, status: Status]
NoRow == [schedule |-> "none", due |-> 0, assignee |-> "none", status |-> "none"]

Ids == {i \in Id : rows[i] # NoRow}

\* A card shows a row as it was read.
Card == [id: Id, row: Row]
NoCard == [id |-> 0, row |-> NoRow]

\* A page of a date: the people listed for its columns until it is shown, its cards,
\* how many of the date's are done of how many, for each person, and how many are
\* overdue, the button pressed on it and the row read since for the answer.  History: the
\* rows that have been there ever since it was loaded, those that anything but an answered
\* button of the page has changed since, whether the numbers of the persons were read
\* after the last change, and how many overdue cards answers have taken off the page.
NoTally == [p \in Person |-> [done |-> 0, all |-> 0]]
NoPage == [phase |-> "none", date |-> 0, columns |-> {}, cards |-> {}, tally |-> NoTally,
           badge |-> 0, pressed |-> [id |-> 0, to |-> "none"], item |-> NoCard,
           since |-> {}, touched |-> {}, fresh |-> FALSE, taken |-> 0]

\* A page whose cards have been read.
ReadPhase == {"shown", "committed", "answered"}

Page == [phase: {"none", "people"} \cup ReadPhase, date: Nat,
         columns: SUBSET Person, cards: SUBSET Card,
         tally: [Person -> [done: Nat, all: Nat]], badge: Nat,
         pressed: [id: Id, to: Status] \cup {NoPage.pressed},
         item: Card \cup {NoCard}, since: SUBSET Id,
         touched: SUBSET Id, fresh: BOOLEAN, taken: Nat]

-----------------------------------------------------------------------------
(* The store. *)

\* Fault: the ids of the rows deleted first are taken first.
LowestId(table) == Min({i \in 1..(MaxId + 1) : i \in Id => table[i] = NoRow})

\* INTEGER PRIMARY KEY: one more than the highest id in the table.
NextId(table) ==
  LET used == {i \in Id : table[i] # NoRow}
  IN IF used = {} THEN 1 ELSE Max(used) + 1

\* CreateInstance, of one date after another.
Inserted(table, s, dates) ==
  LET first == NextId(table)
      nth(n) == CHOOSE d \in dates : Cardinality({e \in dates : e < d}) = n
  IN [i \in Id |->
        IF i \in first..(first + Cardinality(dates) - 1)
        THEN [schedule |-> s, due |-> nth(i - first),
              assignee |-> AssigneeOf[s], status |-> "pending"]
        ELSE table[i]]

\* DeletePendingInstancesFrom
WithoutPending(s, from) ==
  [i \in Id |-> IF rows[i].schedule = s /\ rows[i].status = "pending" /\ rows[i].due >= from
                THEN NoRow ELSE rows[i]]

\* InstanceDates
DatesOf(table, s) == {table[i].due : i \in {j \in Id : table[j].schedule = s}}

ReadCard(i) == [id |-> i, row |-> rows[i]]

\* ListDailyInstances: what is due on the date, and what is overdue then.
ListDaily(d) ==
  {ReadCard(i) : i \in {j \in Ids : \/ rows[j].due = d
                                    \/ rows[j].due < d /\ rows[j].status = "pending"}}

-----------------------------------------------------------------------------
(* What the page shows of it. *)

\* DailyView: a column for each person listed, and for each assignee who was not.
Columns(listed, cards) == listed \cup {c.row.assignee : c \in cards}

\* dailyContent: the overdue cards, and the cards of the date in their columns.
CardsShown(columns, cards) == {c \in cards : c.row.assignee \in columns}

\* personProgress, and with it dailySummary: only the cards of the date count.
TallyOf(cards, d) ==
  [p \in Person |->
     LET mine == {c \in cards : c.row.assignee = p /\ c.row.due = d}
     IN [all |-> Cardinality(mine),
         done |-> Cardinality({c \in mine : c.row.status = "done"})]]

\* overdueCount
OverdueOf(cards, d) == Cardinality({c \in cards : c.row.due < d})

\* InstanceCard: a pending card can be completed, a done one reopened.
Offered(card) == IF card.row.status = "pending" THEN "done" ELSE "pending"

\* Fault: a card stays until the page is loaded again.
IsNeverRemoved(card, to, d) == FALSE

\* removeCard: a completed overdue card is no longer listed.
IsRemoved(card, to, d) == to = "done" /\ card.row.due < d

\* TransitionResult takes the place of the card whose button was pressed.
Swapped(cards, pressed, item, d) ==
  {c \in cards : c.id # pressed.id}
    \cup (IF IsRemoved(item, pressed.to, d) THEN {} ELSE {item})

-----------------------------------------------------------------------------
Init ==
  /\ today = 0
  /\ people = Founders
  /\ rows = [i \in Id |-> NoRow]
  /\ pages = [b \in Browser |-> NoPage]

\* History: the numbers on a page are of an earlier state.
Uncounted(page) == [page EXCEPT !.fresh = FALSE, !.tally = NoTally]

\* History: rows are gone, and rows of others' pages are touched.  What the numbers of a
\* page were before is forgotten: nothing asks for it.
Noted(table, gone, others) ==
  [b \in Browser |->
     LET page == [pages[b] EXCEPT !.since = @ \ gone]
     IN IF b \in others /\ table # rows /\ page.phase \in ReadPhase
        THEN [Uncounted(page) EXCEPT !.touched = @ \cup {i \in Id : table[i] # rows[i]}]
        ELSE page]

\* An edit, an archiving or a creation plans anew: what is pending goes, what is
\* done keeps its date.  Bound: MaxId.
Replan(s, dates) ==
  LET kept == WithoutPending(s, today)
      new == dates \ DatesOf(kept, s)
      table == Inserted(kept, s, new)
  IN /\ AssigneeOf[s] \in people
     /\ NextId(kept) + Cardinality(new) <= MaxId + 1
     /\ rows' = table
     /\ pages' = Noted(table, {i \in Ids : kept[i] = NoRow}, Browser)
     /\ UNCHANGED <<today, people>>

\* A maintenance run adds what is missing.
Extend(s, dates) ==
  LET new == dates \ DatesOf(rows, s)
      table == Inserted(rows, s, new)
  IN /\ AssigneeOf[s] \in people
     /\ NextId(rows) + Cardinality(new) <= MaxId + 1
     /\ rows' = table
     /\ pages' = Noted(table, {}, Browser)
     /\ UNCHANGED <<today, people>>

\* CreatePerson: with fixed assignees nothing is planned anew.
Join(p) ==
  /\ p \notin people
  /\ people' = people \cup {p}
  /\ UNCHANGED <<today, rows, pages>>

\* A daily page of any date is loaded in place of the last one: first the people,
\* then the instances.
LoadPage(b, d) ==
  /\ pages[b].phase \in {"none", "shown"}
  /\ pages' = [pages EXCEPT ![b] =
       [NoPage EXCEPT !.phase = "people", !.date = d, !.columns = people]]
  /\ UNCHANGED <<today, people, rows>>

ShowPage(b) ==
  LET page == pages[b]
      items == ListDaily(page.date)
      columns == Columns(page.columns, items)
  IN /\ page.phase = "people"
     /\ pages' = [pages EXCEPT ![b] =
          [page EXCEPT !.phase = "shown", !.columns = {},
                       !.cards = CardsShown(columns, items),
                       !.tally = TallyOf(items, page.date),
                       !.badge = OverdueOf(items, page.date),
                       !.since = Ids, !.touched = {}, !.fresh = TRUE, !.taken = 0]]
     /\ UNCHANGED <<today, people, rows>>

\* transitionInstance, in one transaction: a row already in that status is left.
Transition(table, i, to) == [table EXCEPT ![i].status = to]

\* A button.  Of a row that is gone, 404: nothing happens, and the page stays.
Press(b, card) ==
  LET to == Offered(card)
      table == Transition(rows, card.id, to)
  IN /\ pages[b].phase = "shown"
     /\ card \in pages[b].cards
     /\ rows[card.id] # NoRow
     /\ rows' = table
     /\ pages' = [Noted(table, {}, Browser \ {b}) EXCEPT
          ![b] = [Uncounted(@) EXCEPT !.phase = "committed",
                                      !.pressed = [id |-> card.id, to |-> to]]]
     /\ UNCHANGED <<today, people>>

\* A button of a page that is not followed here, of whatever age.
PressElsewhere(i, to) ==
  LET table == Transition(rows, i, to)
  IN /\ i \in Ids
     /\ rows' = table
     /\ pages' = Noted(table, {}, Browser)
     /\ UNCHANGED <<today, people>>

Kept(page) == [page EXCEPT !.phase = "shown", !.pressed = NoPage.pressed, !.item = NoCard]

\* GetDailyInstance, after the transaction: the row as it is by now, or 404.
ReadItem(b) ==
  LET page == pages[b]
      id == page.pressed.id
  IN /\ page.phase = "committed"
     /\ pages' = [pages EXCEPT ![b] =
          IF rows[id] = NoRow THEN Kept(page)
          ELSE [page EXCEPT !.phase = "answered", !.item = ReadCard(id)]]
     /\ UNCHANGED <<today, people, rows>>

\* The handler reads the view as well, and the answer replaces the card, the summary
\* and the progress of each person; the count of overdue cards is left as it was.
ShowAnswer(b) ==
  LET page == pages[b]
      removed == IsRemoved(page.item, page.pressed.to, page.date)
  IN /\ page.phase = "answered"
     /\ pages' = [pages EXCEPT ![b] =
          [Kept(page) EXCEPT
             !.cards = Swapped(@, page.pressed, page.item, page.date),
             !.tally = TallyOf(ListDaily(page.date), page.date),
             !.fresh = TRUE,
             !.taken = IF removed THEN @ + 1 ELSE @]]
     /\ UNCHANGED <<today, people, rows>>

\* A query after the transaction fails, or the answer is lost: the page still shows
\* what was before.
LoseAnswer(b) ==
  LET page == pages[b]
  IN /\ page.phase \in {"committed", "answered"}
     /\ pages' = [pages EXCEPT ![b] =
          [Kept(page) EXCEPT !.touched = @ \cup {page.pressed.id}]]
     /\ UNCHANGED <<today, people, rows>>

NextDay ==
  /\ today < MaxDay
  /\ today' = today + 1
  /\ UNCHANGED <<people, rows, pages>>

Next ==
  \/ \E s \in Schedule, dates \in SUBSET (today..(today + Horizon)) :
       Replan(s, dates) \/ Extend(s, dates)
  \/ \E p \in Person : Join(p)
  \/ \E b \in Browser, d \in PageDate : LoadPage(b, d)
  \/ \E b \in Browser : ShowPage(b) \/ ReadItem(b) \/ ShowAnswer(b) \/ LoseAnswer(b)
  \/ \E b \in Browser : \E card \in pages[b].cards : Press(b, card)
  \/ \E i \in Id, to \in Status : PressElsewhere(i, to)
  \/ NextDay

Spec == Init /\ [][Next]_vars

-----------------------------------------------------------------------------
(* What the board promises. *)

\* Every variable keeps its type, and no schedule has two rows of one date.
TypeOK ==
  /\ today \in Nat
  /\ people \subseteq Person
  /\ rows \in [Id -> Row \cup {NoRow}]
  /\ \A i, j \in Ids :
       rows[i].schedule = rows[j].schedule /\ rows[i].due = rows[j].due => i = j
  /\ pages \in [Browser -> Page]

SameOccurrence(row, other) == row.schedule = other.schedule /\ row.due = other.due

\* However old a page is: while the row of a card is there, it is the occurrence the
\* card shows.  Once it is gone its id names nothing, until every row above it that
\* the page was read with is gone too.
NamesHold ==
  \A b \in Browser : \A c \in pages[b].cards :
    IF c.id \in pages[b].since THEN SameOccurrence(rows[c.id], c.row)
    ELSE rows[c.id] # NoRow => \A i \in pages[b].since : i < c.id

\* A page is a mixture of what was read when, but every card on it whose row nothing but
\* its own answered buttons has touched is there if and only if a reload would show it,
\* and as it would.  The numbers of the persons are those of a reload until a row changes
\* again.  The count of overdue cards is not: no answer renews it, and it is too high by
\* every one that was completed on the page since.
PageAsReloaded ==
  \A b \in Browser :
    LET page == pages[b]
        reload == ListDaily(page.date)
        facts(cards) == {<<c.id, c.row>> : c \in {x \in cards : x.id \notin page.touched}}
    IN page.phase = "shown" =>
         /\ facts(page.cards) = facts(reload)
         /\ page.fresh => page.tally = TallyOf(reload, page.date)
         /\ page.touched = {} => page.badge = OverdueOf(reload, page.date) + page.taken

-----------------------------------------------------------------------------
(* What the handler says of an old page, and the code does not keep. *)

\* "This chore changed in another request. Refresh and try again." (daily.go): a
\* button acts on the occurrence its card shows, or not at all.
PressActsOnItsCard ==
  [][\A b \in Browser :
       pages[b].phase = "shown" /\ pages'[b].phase = "committed" =>
         \E c \in pages[b].cards :
           c.id = pages'[b].pressed.id /\ SameOccurrence(rows[c.id], c.row)]_vars
=============================================================================
