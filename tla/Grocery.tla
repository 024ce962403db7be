------------------------------ MODULE Grocery -------------------------------
(***************************************************************************)
(* The shopping list of the kitchen: CreateGroceryItem, UpdateGroceryItem, *)
(* DeleteGroceryItem and the load of the list in internal/kitchen, over    *)
(* internal/mealie/client.go, and what handlers/kitchen.go answers.        *)
(*                                                                         *)
(* KinOps keeps nothing of this: the items, foods and units are Mealie's,  *)
(* and every operation is a row of calls to it, any of which may fail      *)
(* before or after Mealie has done what was asked.  An item is changed by  *)
(* reading it and writing all of it back; a food or a unit is searched and *)
(* created when it is not found; the list is read page after page.  A form *)
(* may come from a page of any age.  What the cache between the list and   *)
(* its readers does is the business of KitchenCache.                       *)
(***************************************************************************)
EXTENDS Integers, SequencesExt

CONSTANTS
  Client,        \* the browsers
  Form,          \* the forms they send
  Text,          \* name, note and quantity of an item; "" is refused
  Spelling,      \* how the name of a food or unit can be written
  FoldOf,        \* and what it is without regard to case
  LabelOf,       \* Mealie's label of each item, "" for none
  Known,         \* the labels in the settings of the list
  ItemsAtFirst, CatalogAtFirst,
  PerPage,       \* items or ingredients in one answer: 100, mealPageSize
  MaxItem, MaxIngredient, MaxRequests, MaxElsewhere   \* bounds

ItemId == 1..MaxItem
Kind == {"food", "unit"}

\* ShoppingItem.  A unit is a place in the catalog, or 0.
ItemType == [text: Text \ {""}, unit: 0..MaxIngredient, checked: BOOLEAN, position: Nat]
NoItem == [text |-> "gone", unit |-> 0, checked |-> FALSE, position |-> 0]

\* What the forms of the page send: KitchenGroceryCreate, or the id and the patch, which
\* has only the fields of its form.
FormType ==
  [kind: {"create"}, text: Text, food: Spelling, unit: Spelling \cup {""}]
    \cup [kind: {"check"}, item: ItemId, checked: BOOLEAN]
    \cup [kind: {"edit"}, item: ItemId, text: Text, unit: Spelling \cup {""}]
    \cup [kind: {"delete"}, item: ItemId]
    \cup [kind: {"view"}]

ASSUME GroceryAssumption ==
  /\ Form \subseteq FormType
  /\ FoldOf \in [Spelling -> Spelling]
  /\ DOMAIN LabelOf = ItemId
  /\ {PerPage, MaxItem, MaxIngredient, MaxRequests, MaxElsewhere} \subseteq Nat
  /\ PerPage > 0
  /\ "" \notin Spelling
  /\ ItemsAtFirst \in Seq(ItemType) /\ Len(ItemsAtFirst) <= MaxItem
  /\ CatalogAtFirst \in Seq([kind: Kind, name: Spelling])
  /\ Len(CatalogAtFirst) <= MaxIngredient
  /\ \A i \in DOMAIN ItemsAtFirst : ItemsAtFirst[i].unit <= Len(CatalogAtFirst)

VARIABLES
  items,         \* the items of the list in Mealie, in the order they were made
  catalog,       \* Mealie's foods and units, in the order they were made
  requests,      \* each browser's request
  sent,          \* bound: the requests begun
  elsewhere      \* bound: the changes made in Mealie itself

vars == <<items, catalog, requests, sent, elsewhere>>

Ids == {i \in DOMAIN items : items[i] # NoItem}

\* A request: its form, the item as it was read, what is still to be looked up and what
\* was found, the pages of the list read so far, and how it ended.  History: what the last
\* search returned and how long the catalog was then, whether its item was written by
\* others since it was read, whether an item came, went or moved since it began to read
\* the list, and whether it changed an item itself.
Idle == [phase |-> "idle", form |-> [kind |-> "view"], item |-> NoItem, todo |-> <<>>,
         unit |-> 0, page |-> 0, seen |-> <<>>, result |-> "none",
         searched |-> 0, found |-> {}, overtaken |-> FALSE, disturbed |-> FALSE,
         wrote |-> FALSE]

Result == {"none", "saved", "notFound", "rejected", "unavailable", "malformed", "invalid"}

Request == [phase: {"idle", "read", "search", "create", "write", "load", "over"},
            form: Form \cup {Idle.form}, item: ItemType \cup {NoItem},
            todo: Seq([kind: Kind, name: Spelling]),
            unit: 0..MaxIngredient, page: 0..(MaxItem + 2),
            seen: Seq([id: ItemId, item: ItemType]),
            result: Result, searched: 0..MaxIngredient, found: SUBSET (1..MaxIngredient),
            overtaken: BOOLEAN, disturbed: BOOLEAN, wrote: BOOLEAN]

\* What is left of a request once it is answered, or when the list is read after it.
Over(r, result) ==
  [Idle EXCEPT !.phase = "over", !.form = r.form, !.result = result, !.wrote = r.wrote]

Loading(r, result) == [Over(r, result) EXCEPT !.phase = "load", !.page = 1]

Shown(r) == r.phase = "over" /\ r.page > 0

-----------------------------------------------------------------------------
(* Mealie, as its client sees it. *)

\* doJSON and statusError: no answer in time, or refused, and nothing was done.
Refusal == {"rejected", "unavailable"}

\* It was done, but the answer is lost, or is not what it should be.
Answer == {"saved", "unavailable", "malformed"}

\* Fault: an answer without the item is taken for a missing item.
StatusByItem(result) ==
  CASE result = "saved" -> 200
    [] result \in {"notFound", "malformed"} -> 404
    [] result = "unavailable" -> 503
    [] OTHER -> 422

\* kitchenErrorStatus
Status(result) ==
  CASE result = "saved" -> 200
    [] result = "notFound" -> 404
    [] result = "unavailable" -> 503
    [] OTHER -> 422

\* Its list is ordered by position, and each item listed after those before it.
Before(i, j) ==
  \/ items[i].position < items[j].position
  \/ items[i].position = items[j].position /\ i < j

Listed == [k \in 1..Cardinality(Ids) |->
             CHOOSE i \in Ids : Cardinality({j \in Ids : Before(j, i)}) = k - 1]

TotalPages == (Cardinality(Ids) + PerPage - 1) \div PerPage

PageOf(n) ==
  LET list == Listed
      first == (n - 1) * PerPage
      last == IF first + PerPage < Len(list) THEN first + PerPage ELSE Len(list)
  IN [k \in 1..(last - first) |-> [id |-> list[first + k], item |-> items[list[first + k]]]]

\* What a search may return: all ingredients of the kind, or a page full of them.
SearchPages(kind) ==
  LET all == {k \in DOMAIN catalog : catalog[k].kind = kind}
  IN IF Cardinality(all) <= PerPage THEN {all}
     ELSE {page \in SUBSET all : Cardinality(page) = PerPage}

-----------------------------------------------------------------------------
(* What the service makes of it. *)

NameOf(unit) == IF unit = 0 THEN "" ELSE FoldOf[catalog[unit].name]

Folded(name) == IF name = "" THEN "" ELSE FoldOf[name]

\* Details that are refused: a name is required.
Refused(form) == form.kind \in {"create", "edit"} /\ form.text = ""

\* Fault: names are compared as they are written.
SameSpelling(name, other) == name = other

\* strings.EqualFold
SameName(name, other) == Folded(name) = Folded(other)

\* resolveIngredient: the first of the page with that name, or nothing.
Matching(page, name) == {k \in page : SameName(catalog[k].name, name)}

\* Fault: what the form does not send is reset.
WriteOfForm(r) ==
  [text |-> IF r.form.kind = "edit" THEN r.form.text ELSE r.item.text,
   unit |-> r.unit,
   checked |-> r.form.kind = "check" /\ r.form.checked,
   position |-> r.item.position]

\* groceryWriteFromItem, with the patch.
Write(r) ==
  [text |-> IF r.form.kind = "edit" THEN r.form.text ELSE r.item.text,
   unit |-> r.unit,
   checked |-> IF r.form.kind = "check" THEN r.form.checked ELSE r.item.checked,
   position |-> r.item.position]

\* Fault: only the last page itself ends the list.
EndsAtLastPage(n) == TotalPages = n \/ TotalPages = 0

\* shoppingItems: the last page was read.
EndsList(n) == TotalPages <= n \/ TotalPages = 0

\* What has a label, and what is to be bought, by its place in the list.
Labelled(seen, l) == {k \in DOMAIN seen : ~seen[k].item.checked /\ LabelOf[seen[k].id] = l}

CheckedOff(seen) == {k \in DOMAIN seen : seen[k].item.checked}

\* Fault: an item with a label that is not in the settings is left out.
GroupedByKnown(seen) ==
  [checked |-> CheckedOff(seen),
   groups |-> {[label |-> l, items |-> Labelled(seen, l)] : l \in Known}]

\* groupGroceryItems: a group for each label that is met, and the checked items.  How they
\* and the groups are sorted for the page is left out.
Grouped(seen) ==
  [checked |-> CheckedOff(seen),
   groups |-> {[label |-> l, items |-> Labelled(seen, l)] :
                 l \in {LabelOf[seen[k].id] : k \in DOMAIN seen \ CheckedOff(seen)}}]

\* KitchenGroceryContent: a card for each item of each group, and those of the checked.
Cards(page, seen) ==
  {[section |-> "checked", at |-> k, id |-> seen[k].id] : k \in page.checked}
    \cup UNION {{[section |-> g.label, at |-> k, id |-> seen[k].id] : k \in g.items}
                 : g \in page.groups}

-----------------------------------------------------------------------------
Init ==
  /\ items = ItemsAtFirst
  /\ catalog = CatalogAtFirst
  /\ requests = [c \in Client |-> Idle]
  /\ sent = 0
  /\ elsewhere = 0

\* History: "table" takes the place of the items, by the request "r" of "c" if that is one.
Noticed(table, c, r) ==
  LET here(t) == {i \in DOMAIN t : t[i] # NoItem}
      moved == \/ here(table) # Ids
               \/ \E i \in Ids : table[i].position # items[i].position
      noticed(q) ==
        [q EXCEPT
           !.overtaken = @ \/ /\ q.phase \in {"search", "create", "write"}
                              /\ q.form.kind \in {"check", "edit"}
                              /\ table[q.form.item] # items[q.form.item],
           !.disturbed = @ \/ (moved /\ (q.phase = "load" \/ Shown(q)))]
  IN [d \in Client |-> IF d = c THEN r ELSE noticed(requests[d])]

\* GroceryCreate, GroceryUpdate, GroceryDelete, Groceries.  Bound: MaxRequests.
Begin(c, f) ==
  LET r == [Idle EXCEPT !.form = f]
      food == <<[kind |-> "food", name |-> f.food]>>
      unit == IF f.unit = "" THEN <<>> ELSE <<[kind |-> "unit", name |-> f.unit]>>
  IN /\ requests[c].phase \in {"idle", "over"}
     /\ sent < MaxRequests
     /\ f.kind \in {"check", "edit", "delete"} => f.item \in DOMAIN items
     /\ requests' = [requests EXCEPT ![c] =
          CASE f.kind = "view" -> Loading(r, "none")
            [] f.kind \in {"check", "edit"} -> [r EXCEPT !.phase = "read"]
            [] f.kind = "delete" -> [r EXCEPT !.phase = "write"]
            [] f.kind = "create" /\ Refused(f) -> Over(r, "invalid")
            [] OTHER -> [r EXCEPT !.phase = "search", !.todo = food \o unit]]
     /\ sent' = sent + 1
     /\ UNCHANGED <<items, catalog, elsewhere>>

\* UpdateGroceryItem has the item: the unit stays if the form names the same one.
WithItem(r, item) ==
  LET read == [r EXCEPT !.item = item, !.unit = item.unit, !.phase = "write"]
  IN IF Refused(r.form) THEN Over(r, "invalid")
     ELSE IF r.form.kind = "edit" /\ Folded(r.form.unit) # NameOf(item.unit)
     THEN IF r.form.unit = "" THEN [read EXCEPT !.unit = 0]
          ELSE [read EXCEPT !.unit = 0, !.phase = "search",
                            !.todo = <<[kind |-> "unit", name |-> r.form.unit]>>]
     ELSE read

ReadItem(c) ==
  LET r == requests[c]
      item == items[r.form.item]
  IN /\ r.phase = "read"
     /\ \/ requests' = [requests EXCEPT ![c] =
               IF item = NoItem THEN Over(r, "notFound") ELSE WithItem(r, item)]
        \/ \E result \in Refusal : requests' = [requests EXCEPT ![c] = Over(r, result)]
     /\ UNCHANGED <<items, catalog, sent, elsewhere>>

\* A name is resolved: the next one, or the write.
Resolved(r, k) ==
  [r EXCEPT !.unit = IF Head(r.todo).kind = "unit" THEN k ELSE @,
            !.todo = Tail(@), !.searched = 0, !.found = {},
            !.phase = IF Len(r.todo) = 1 THEN "write" ELSE "search"]

SearchIngredient(c) ==
  LET r == requests[c]
  IN /\ r.phase = "search"
     /\ \/ \E page \in SearchPages(Head(r.todo).kind) :
             LET matching == Matching(page, Head(r.todo).name)
             IN \/ \E k \in matching : requests' = [requests EXCEPT ![c] = Resolved(r, k)]
                \/ /\ matching = {}
                   /\ requests' = [requests EXCEPT ![c] =
                        [r EXCEPT !.phase = "create", !.found = page,
                                  !.searched = Len(catalog)]]
        \/ \E result \in Refusal : requests' = [requests EXCEPT ![c] = Over(r, result)]
     /\ UNCHANGED <<items, catalog, sent, elsewhere>>

\* CreateFood, CreateUnit.  Bound: MaxIngredient.
CreateIngredient(c) ==
  LET r == requests[c]
  IN /\ r.phase = "create"
     /\ \/ \E result \in Refusal :
             /\ requests' = [requests EXCEPT ![c] = Over(r, result)]
             /\ UNCHANGED catalog
        \/ \E result \in Answer :
             /\ Len(catalog) < MaxIngredient
             /\ catalog' = Append(catalog, Head(r.todo))
             /\ requests' = [requests EXCEPT ![c] =
                  IF result = "saved" THEN Resolved(r, Len(catalog) + 1) ELSE Over(r, result)]
     /\ UNCHANGED <<items, sent, elsewhere>>

\* The call that changes the list, and how it ends; after it the list is read again.
WriteItem(c) ==
  LET r == requests[c]
      i == r.form.item
      accepted(table) ==
        \E result \in Answer :
          LET q == [r EXCEPT !.wrote = TRUE]
          IN /\ items' = table
             /\ requests' = Noticed(table, c,
                  IF result = "saved" THEN Loading(q, result) ELSE Over(q, result))
      fails(result) == /\ requests' = [requests EXCEPT ![c] = Over(r, result)]
                       /\ UNCHANGED items
  IN /\ r.phase = "write"
     /\ \/ \E result \in Refusal : fails(result)
        \/ /\ r.form.kind # "create" /\ items[i] = NoItem
           /\ fails("notFound")
        \/ /\ r.form.kind \in {"check", "edit"} /\ items[i] # NoItem
           /\ accepted([items EXCEPT ![i] = Write(r)])
        \/ /\ r.form.kind = "delete" /\ items[i] # NoItem
           /\ accepted([items EXCEPT ![i] = NoItem])
        \/ /\ r.form.kind = "create" /\ Len(items) < MaxItem
           /\ accepted(Append(items, [text |-> r.form.text, unit |-> r.unit,
                                      checked |-> FALSE, position |-> 0]))
     /\ UNCHANGED <<catalog, sent, elsewhere>>

\* One page of the list.  When it fails there is no list, or an older one from the
\* cache; a change is still reported as saved.  Bound: two numbers stand for all the
\* pages after the last.
LoadPage(c) ==
  LET r == requests[c]
      seen == r.seen \o PageOf(r.page)
  IN /\ r.phase = "load"
     /\ \/ requests' = [requests EXCEPT ![c] =
               IF EndsList(r.page) THEN [r EXCEPT !.phase = "over", !.seen = seen]
               ELSE [r EXCEPT !.page = IF @ < MaxItem + 2 THEN @ + 1 ELSE MaxItem + 1,
                              !.seen = seen]]
        \/ requests' = [requests EXCEPT ![c] =
               Over(r, IF r.form.kind = "view" THEN "unavailable" ELSE r.result)]
     /\ UNCHANGED <<items, catalog, sent, elsewhere>>

\* Mealie's own page changes an item, removes it, moves it, or makes an ingredient.
\* Bound: MaxElsewhere.
ChangeElsewhere(i, item) ==
  LET table == [items EXCEPT ![i] = item]
  IN /\ elsewhere < MaxElsewhere
     /\ items[i] \notin {item, NoItem}
     /\ items' = table
     /\ requests' = Noticed(table, "none", Idle)
     /\ elsewhere' = elsewhere + 1
     /\ UNCHANGED <<catalog, sent>>

IngredientElsewhere(kind, name) ==
  /\ elsewhere < MaxElsewhere
  /\ Len(catalog) < MaxIngredient
  /\ catalog' = Append(catalog, [kind |-> kind, name |-> name])
  /\ elsewhere' = elsewhere + 1
  /\ UNCHANGED <<items, requests, sent>>

Step(c) ==
  ReadItem(c) \/ SearchIngredient(c) \/ CreateIngredient(c) \/ WriteItem(c) \/ LoadPage(c)

\* What Mealie's page may make of an item.
Otherwise(item) ==
  {NoItem} \cup {[item EXCEPT !.text = t] : t \in Text \ {""}}
    \cup {[item EXCEPT !.checked = ~@]} \cup {[item EXCEPT !.position = p] : p \in {0, MaxItem}}

Next ==
  \/ \E c \in Client : Step(c)
  \/ \E c \in Client, f \in Form : Begin(c, f)
  \/ \E i \in DOMAIN items : \E item \in Otherwise(items[i]) : ChangeElsewhere(i, item)
  \/ \E kind \in Kind, name \in Spelling : IngredientElsewhere(kind, name)

Spec == Init /\ [][Next]_vars

\* A call to Mealie ends: the client has a timeout.
FairSpec == Spec /\ \A c \in Client : WF_vars(Step(c))

-----------------------------------------------------------------------------
(* What the list promises. *)

\* Every variable keeps its type.
TypeOK ==
  /\ items \in Seq(ItemType \cup {NoItem})
  /\ catalog \in Seq([kind: Kind, name: Spelling])
  /\ requests \in [Client -> Request]

\* A form changes what it sends and nothing else, whatever the age of its page: only
\* what others write between the reading of the item and its writing is undone.
OnlyOverlappingUpdatesAreLost ==
  [][\A c \in Client :
       LET r == requests[c]
           i == r.form.item
       IN r.phase = "write" /\ r.form.kind \in {"check", "edit"} /\ requests'[c].wrote =>
            /\ r.form.kind = "check" => items'[i].checked = r.form.checked
            /\ r.form.kind = "edit" => /\ items'[i].text = r.form.text
                                      /\ NameOf(items'[i].unit) = Folded(r.form.unit)
            /\ \/ r.overtaken
               \/ /\ items'[i].position = items[i].position
                  /\ r.form.kind = "edit" => items'[i].checked = items[i].checked
                  /\ r.form.kind = "check" => /\ items'[i].text = items[i].text
                                             /\ items'[i].unit = items[i].unit]_vars

\* A food or unit is made a second time only when the first was made after the search,
\* or was not on the page that the search returned.
OneOfEachName ==
  [][\A c \in Client :
       LET r == requests[c]
       IN r.phase = "create" /\ catalog' # catalog /\ requests'[c] # r =>
            \A k \in DOMAIN catalog :
              /\ catalog[k].kind = Head(r.todo).kind
              /\ FoldOf[catalog[k].name] = FoldOf[Head(r.todo).name]
              => k > r.searched \/ k \notin r.found]_vars

\* The answer tells what became of the item: saved is saved, an item that is said to be
\* gone was left alone, and only when Mealie is called unavailable or the details are
\* to be checked may the change have been made all the same.
AnswerTells ==
  \A c \in Client :
    LET r == requests[c]
    IN r.phase = "over" /\ r.form.kind # "view" =>
         /\ Status(r.result) = 200 => r.wrote
         /\ Status(r.result) = 404 => ~r.wrote

\* A list that was read while nothing came, went or moved has every item once: under its
\* label while it is to be bought, or among the checked ones.
ListIsWhole ==
  \A c \in Client :
    LET r == requests[c]
        cards == Cards(Grouped(r.seen), r.seen)
    IN Shown(r) /\ ~r.disturbed =>
         {card.id : card \in cards} = Ids /\ Cardinality(cards) = Cardinality(Ids)

\* Every request is answered, although the list may become shorter while it is read.
RequestsEnd ==
  \A c \in Client : requests[c].phase # "idle" ~> requests[c].phase \in {"idle", "over"}
=============================================================================
