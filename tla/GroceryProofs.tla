---------------------------- MODULE GroceryProofs ----------------------------
(***************************************************************************)
(* What holds of the shopping list for every household, catalog and page   *)
(* size: the answer tells what became of an item, an update undoes no more *)
(* than what overlapped it, a food or unit that a search returned is not   *)
(* made again, and a list that was read in peace is whole.                 *)
(*                                                                         *)
(* Items and ingredients are only ever added to the list and the catalog,  *)
(* so what a request has read and found of them stays where it was; the    *)
(* invariant says of each phase of a request what it knows of them.        *)
(***************************************************************************)
EXTENDS Grocery, FiniteSetTheorems, TLAPS

Ingredient == [kind: Kind, name: Spelling]

\* The name, without regard to case, of a place in the catalog.
NameIn(names, unit) == IF unit = 0 THEN "" ELSE FoldOf[names[unit].name]

\* A request is a record of its fields; what it has seen of the list is left open.
IsRequest(r) ==
  r \in [phase: {"idle", "read", "search", "create", "write", "load", "over"},
         form: Form \cup {Idle.form}, item: ItemType \cup {NoItem},
         todo: Seq(Ingredient), unit: Nat, page: {r.page}, seen: {r.seen},
         result: Result, searched: Nat, found: {r.found},
         overtaken: BOOLEAN, disturbed: BOOLEAN, wrote: BOOLEAN]

\* It has changed an item only if it said so: saved, or, when the list was then read,
\* anything but gone.
Answered(r) ==
  /\ r.phase \in {"read", "search", "create", "write"} => ~ r.wrote
  /\ r.phase = "load" /\ r.form.kind # "view" => r.result = "saved" /\ r.wrote
  /\ r.phase = "over" /\ r.form.kind # "view" =>
       /\ r.result = "saved" => r.wrote
       /\ r.result = "notFound" => ~ r.wrote

\* What a request at work knows of the items and the catalog.
Knows(r, table, names) ==
  /\ r.form.kind \in {"check", "edit", "delete"} => r.form.item \in DOMAIN table
  /\ r.unit <= Len(names) /\ r.item.unit <= Len(names)
  /\ r.phase = "read" => r.form.kind \in {"check", "edit"}
  /\ r.phase \in {"search", "create", "write"} /\ r.form.kind \in {"check", "edit"} =>
       r.item \in ItemType /\ (r.overtaken \/ table[r.form.item] = r.item)
  /\ r.phase \in {"search", "create", "write"} => r.form.kind # "view" /\ ~ Refused(r.form)
  /\ r.phase \in {"search", "create"} =>
       /\ r.todo # <<>> /\ r.form.kind \in {"create", "edit"}
       /\ r.form.kind = "edit" => r.todo = <<[kind |-> "unit", name |-> r.form.unit]>>
  /\ r.phase = "create" =>
       \A k \in r.found : /\ k \in DOMAIN names
                          /\ ~ SameName(names[k].name, Head(r.todo).name)
  /\ r.phase = "write" /\ r.form.kind = "edit" =>
       NameIn(names, r.unit) = Folded(r.form.unit)
  /\ r.phase = "write" /\ r.form.kind = "check" => r.unit = r.item.unit

RequestOk(r, table, names) == IsRequest(r) /\ Answered(r) /\ Knows(r, table, names)

Items(table, names) ==
  /\ table \in Seq(ItemType \cup {NoItem})
  /\ \A i \in DOMAIN table : table[i].unit <= Len(names)

Names(names) == names \in Seq(Ingredient) /\ Len(names) <= MaxIngredient

GInv ==
  /\ Names(catalog)
  /\ Items(items, catalog)
  /\ requests = [c \in Client |-> requests[c]]
  /\ \A c \in Client : RequestOk(requests[c], items, catalog)


-----------------------------------------------------------------------------
(* Forms, items and requests. *)

LEMMA BoundTypes == MaxItem \in Nat /\ MaxIngredient \in Nat
BY GroceryAssumption

LEMMA NameTypes == FoldOf \in [Spelling -> Spelling] /\ "" \notin Spelling
BY GroceryAssumption

LEMMA FormFields ==
  ASSUME NEW f \in Form \cup {Idle.form}
  PROVE  /\ f.kind \in {"create", "check", "edit", "delete", "view"}
         /\ f.kind \in {"check", "edit", "delete"} => f.item \in ItemId
         /\ f.kind = "check" => f.checked \in BOOLEAN
         /\ f.kind \in {"create", "edit"} => f.text \in Text /\ f.unit \in Spelling \cup {""}
         /\ f.kind = "create" => f.food \in Spelling
<1>1. CASE f = Idle.form
  BY <1>1 DEF Idle
<1>2. CASE f \in FormType
  BY <1>2 DEF FormType
<1> QED
  BY <1>1, <1>2, GroceryAssumption

LEMMA NoItemFields == NoItem.unit = 0 /\ NoItem.checked = FALSE
BY DEF NoItem

LEMMA ItemUnit == \A item \in ItemType \cup {NoItem} : item.unit \in Nat
<1> SUFFICES ASSUME NEW item \in ItemType PROVE item.unit \in Nat
  BY NoItemFields
<1>1. item.unit \in 0..MaxIngredient
  BY DEF ItemType
<1>2. MaxIngredient \in Nat
  BY BoundTypes
<1> QED
  BY <1>1, <1>2

\* The fields of a request that was answered, or begins to read the list.
LEMMA OverFields ==
  ASSUME NEW r, IsRequest(r), NEW result \in Result
  PROVE  LET q == Over(r, result)
         IN /\ IsRequest(q)
            /\ q.phase = "over" /\ q.form = r.form /\ q.result = result
            /\ q.wrote = r.wrote /\ q.unit = 0 /\ q.item = NoItem
<1>1. PICK q : q = Over(r, result)
  OBVIOUS
<1>2. q = [phase |-> "over", form |-> r.form, item |-> NoItem, todo |-> <<>>, unit |-> 0,
           page |-> 0, seen |-> <<>>, result |-> result, searched |-> 0, found |-> {},
           overtaken |-> FALSE, disturbed |-> FALSE, wrote |-> r.wrote]
  BY <1>1 DEF Over, Idle
<1>3. r.form \in Form \cup {Idle.form} /\ r.wrote \in BOOLEAN
  BY DEF IsRequest
<1>4. <<>> \in Seq(Ingredient)
  OBVIOUS
<1>5. /\ q.phase = "over" /\ q.form = r.form /\ q.result = result
      /\ q.wrote = r.wrote /\ q.unit = 0 /\ q.item = NoItem
      /\ q.page = 0 /\ q.seen = <<>> /\ q.found = {}
  BY <1>2
<1>6. IsRequest(q)
  BY <1>2, <1>3, <1>4, <1>5 DEF IsRequest
<1> QED
  BY <1>1, <1>5, <1>6

LEMMA LoadingFields ==
  ASSUME NEW r, IsRequest(r), NEW result \in Result
  PROVE  LET q == Loading(r, result)
         IN /\ IsRequest(q)
            /\ q.phase = "load" /\ q.form = r.form /\ q.result = result
            /\ q.wrote = r.wrote /\ q.unit = 0 /\ q.item = NoItem
<1>1. PICK q : q = Over(r, result)
  OBVIOUS
<1>2. /\ IsRequest(q) /\ q.form = r.form /\ q.result = result
      /\ q.wrote = r.wrote /\ q.unit = 0 /\ q.item = NoItem
  <2>1. LET p == Over(r, result)
        IN /\ IsRequest(p)
           /\ p.phase = "over" /\ p.form = r.form /\ p.result = result
           /\ p.wrote = r.wrote /\ p.unit = 0 /\ p.item = NoItem
    BY OverFields, Zenon
  <2> QED
    BY <1>1, <2>1
<1>3. PICK p : p = [q EXCEPT !.phase = "load", !.page = 1]
  OBVIOUS
<1>4. /\ p.phase = "load" /\ p.form = q.form /\ p.result = q.result
      /\ p.wrote = q.wrote /\ p.unit = q.unit /\ p.item = q.item
      /\ p.page = 1 /\ p.seen = q.seen /\ p.found = q.found
  BY <1>2, <1>3 DEF IsRequest
<1>5. IsRequest(p)
  BY <1>2, <1>3, <1>4 DEF IsRequest
<1> QED
  BY <1>1, <1>2, <1>3, <1>4, <1>5 DEF Loading

\* An answered request is as it should be if its result says whether it wrote.
LEMMA OverOk ==
  ASSUME NEW r, NEW table, NEW names \in Seq(Ingredient), NEW result \in Result, IsRequest(r),
         r.form.kind \in {"check", "edit", "delete"} => r.form.item \in DOMAIN table,
         r.form.kind # "view" =>
           (result = "saved" => r.wrote) /\ (result = "notFound" => ~ r.wrote)
  PROVE  RequestOk(Over(r, result), table, names)
<1>1. LET q == Over(r, result)
      IN /\ IsRequest(q)
         /\ q.phase = "over" /\ q.form = r.form /\ q.result = result
         /\ q.wrote = r.wrote /\ q.unit = 0 /\ q.item = NoItem
  BY OverFields, Zenon
<1>2. PICK q : q = Over(r, result)
  OBVIOUS
<1>3. Answered(q)
  BY <1>1, <1>2 DEF Answered
<1>4. Knows(q, table, names)
  BY <1>1, <1>2, NoItemFields DEF Knows
<1> QED
  BY <1>1, <1>2, <1>3, <1>4 DEF RequestOk

LEMMA LoadingOk ==
  ASSUME NEW r, NEW table, NEW names \in Seq(Ingredient), NEW result \in Result, IsRequest(r),
         r.form.kind \in {"check", "edit", "delete"} => r.form.item \in DOMAIN table,
         r.form.kind # "view" => result = "saved" /\ r.wrote
  PROVE  RequestOk(Loading(r, result), table, names)
<1>1. LET q == Loading(r, result)
      IN /\ IsRequest(q)
         /\ q.phase = "load" /\ q.form = r.form /\ q.result = result
         /\ q.wrote = r.wrote /\ q.unit = 0 /\ q.item = NoItem
  BY LoadingFields, Zenon
<1>2. PICK q : q = Loading(r, result)
  OBVIOUS
<1>3. Answered(q)
  BY <1>1, <1>2 DEF Answered
<1>4. Knows(q, table, names)
  BY <1>1, <1>2, NoItemFields DEF Knows
<1> QED
  BY <1>1, <1>2, <1>3, <1>4 DEF RequestOk


-----------------------------------------------------------------------------
(* What a request knows stays true while others work. *)

\* The list or the catalog "more" has what "less" has, at its place.
Extends(more, less) == DOMAIN less \subseteq DOMAIN more /\ \A k \in DOMAIN less : more[k] = less[k]

\* q is r, but for what is noticed of the work of others.
SameRequest(q, r) ==
  /\ IsRequest(q)
  /\ q.phase = r.phase /\ q.form = r.form /\ q.item = r.item /\ q.todo = r.todo
  /\ q.unit = r.unit /\ q.result = r.result /\ q.found = r.found /\ q.wrote = r.wrote

LEMMA NamesStay ==
  ASSUME NEW names \in Seq(Ingredient), NEW more \in Seq(Ingredient), Extends(more, names)
  PROVE  /\ Len(names) <= Len(more)
         /\ \A unit \in Nat : unit <= Len(names) => NameIn(more, unit) = NameIn(names, unit)
<1>1. Len(names) <= Len(more)
  <2>1. CASE Len(names) = 0
    BY <2>1
  <2>2. CASE Len(names) # 0
    <3>1. Len(names) \in DOMAIN names
      BY <2>2
    <3> QED
      BY <3>1 DEF Extends
  <2> QED
    BY <2>1, <2>2
<1>2. ASSUME NEW unit \in Nat, unit <= Len(names)
      PROVE  NameIn(more, unit) = NameIn(names, unit)
  <2>1. unit # 0 => unit \in DOMAIN names
    BY <1>2
  <2> QED
    BY <2>1 DEF Extends, NameIn
<1> QED
  BY <1>1, <1>2

LEMMA StaysOk ==
  ASSUME NEW r, NEW q, NEW table, NEW rows,
         NEW names \in Seq(Ingredient), NEW more \in Seq(Ingredient),
         RequestOk(r, table, names), SameRequest(q, r),
         DOMAIN table \subseteq DOMAIN rows, Extends(more, names),
         r.phase \in {"search", "create", "write"} /\ r.form.kind \in {"check", "edit"} =>
           (~ q.overtaken => ~ r.overtaken /\ rows[r.form.item] = table[r.form.item])
  PROVE  RequestOk(q, rows, more)
<1>1. IsRequest(q) /\ Answered(q)
  <2>1. Answered(r)
    BY DEF RequestOk
  <2> QED
    BY <2>1 DEF SameRequest, Answered
<1>2. r.unit \in Nat /\ r.item.unit \in Nat
  <2>1. r.unit \in Nat /\ r.item \in ItemType \cup {NoItem}
    BY DEF RequestOk, IsRequest
  <2> QED
    BY <2>1, ItemUnit
<1>3. /\ q.form.kind \in {"check", "edit", "delete"} => q.form.item \in DOMAIN rows
      /\ q.unit <= Len(more) /\ q.item.unit <= Len(more)
      /\ q.phase = "read" => q.form.kind \in {"check", "edit"}
  BY <1>2, NamesStay DEF RequestOk, Knows, SameRequest
<1>4. q.phase \in {"search", "create", "write"} /\ q.form.kind \in {"check", "edit"} =>
        q.item \in ItemType /\ (q.overtaken \/ rows[q.form.item] = q.item)
  <2>1. r.phase \in {"search", "create", "write"} /\ r.form.kind \in {"check", "edit"} =>
          r.item \in ItemType /\ (r.overtaken \/ table[r.form.item] = r.item)
    BY Zenon DEF RequestOk, Knows
  <2> QED
    BY <2>1, Zenon DEF SameRequest
<1>5. /\ q.phase \in {"search", "create", "write"} => q.form.kind # "view" /\ ~ Refused(q.form)
      /\ q.phase \in {"search", "create"} =>
           /\ q.todo # <<>> /\ q.form.kind \in {"create", "edit"}
           /\ q.form.kind = "edit" => q.todo = <<[kind |-> "unit", name |-> q.form.unit]>>
  BY DEF RequestOk, Knows, SameRequest
<1>6. q.phase = "create" =>
        \A k \in q.found : /\ k \in DOMAIN more
                           /\ ~ SameName(more[k].name, Head(q.todo).name)
  BY DEF RequestOk, Knows, SameRequest, Extends
<1>7. /\ q.phase = "write" /\ q.form.kind = "edit" =>
           NameIn(more, q.unit) = Folded(q.form.unit)
      /\ q.phase = "write" /\ q.form.kind = "check" => q.unit = q.item.unit
  BY <1>2, NamesStay DEF RequestOk, Knows, SameRequest
<1> QED
  BY <1>1, <1>3, <1>4, <1>5, <1>6, <1>7 DEF RequestOk, Knows

LEMMA ExtendsItself == \A s : Extends(s, s)
BY DEF Extends

\* A step that leaves the list alone leaves the requests it leaves alone as they should be.
LEMMA OthersStayOk ==
  ASSUME GInv, NEW c \in Client, NEW more \in Seq(Ingredient), Extends(more, catalog)
  PROVE  RequestOk(requests[c], items, more)
<1>1. RequestOk(requests[c], items, catalog) /\ catalog \in Seq(Ingredient)
  BY DEF GInv, Names
<1>2. IsRequest(requests[c])
  BY <1>1 DEF RequestOk
<1>3. SameRequest(requests[c], requests[c])
  BY <1>2 DEF SameRequest
<1> QED
  BY <1>1, <1>3, StaysOk, Zenon

\* What others notice of a change of the list.
LEMMA NoticedOk ==
  ASSUME GInv, NEW table, DOMAIN items \subseteq DOMAIN table, NEW c, NEW r,
         c \in Client => RequestOk(r, table, catalog)
  PROVE  \A d \in Client : RequestOk(Noticed(table, c, r)[d], table, catalog)
<1> SUFFICES ASSUME NEW d \in Client
             PROVE  RequestOk(Noticed(table, c, r)[d], table, catalog)
  OBVIOUS
<1>1. CASE d = c
  <2>1. Noticed(table, c, r)[d] = r
    BY <1>1 DEF Noticed
  <2> QED
    BY <1>1, <2>1
<1>2. CASE d # c
  <2> DEFINE q == requests[d]
             here(t) == {i \in DOMAIN t : t[i] # NoItem}
             moved == \/ here(table) # Ids
                      \/ \E i \in Ids : table[i].position # items[i].position
             overtaken == q.overtaken \/ /\ q.phase \in {"search", "create", "write"}
                                         /\ q.form.kind \in {"check", "edit"}
                                         /\ table[q.form.item] # items[q.form.item]
             disturbed == q.disturbed \/ (moved /\ (q.phase = "load" \/ Shown(q)))
  <2>1. Noticed(table, c, r)[d] = [q EXCEPT !.overtaken = overtaken, !.disturbed = disturbed]
    BY <1>2 DEF Noticed
  <2>2. RequestOk(q, items, catalog) /\ IsRequest(q)
    BY DEF GInv, RequestOk
  <2>3. q.overtaken \in BOOLEAN /\ q.disturbed \in BOOLEAN
    BY <2>2 DEF IsRequest
  <2>4. overtaken \in BOOLEAN /\ disturbed \in BOOLEAN
    BY <2>3, Zenon
  <2>6. q.phase \in {"search", "create", "write"} /\ q.form.kind \in {"check", "edit"} =>
          (~ overtaken => ~ q.overtaken /\ table[q.form.item] = items[q.form.item])
    BY Zenon
  <2> HIDE DEF overtaken, disturbed, q
  <2>7. PICK p : p = [q EXCEPT !.overtaken = overtaken, !.disturbed = disturbed]
    OBVIOUS
  <2>8. /\ p.phase = q.phase /\ p.form = q.form /\ p.item = q.item /\ p.todo = q.todo
        /\ p.unit = q.unit /\ p.result = q.result /\ p.found = q.found
        /\ p.page = q.page /\ p.seen = q.seen
    BY <2>2, <2>7 DEF IsRequest
  <2>9. p.wrote = q.wrote /\ p.overtaken = overtaken
    BY <2>2, <2>7 DEF IsRequest
  <2>10. IsRequest(p)
    BY <2>2, <2>4, <2>7, <2>8 DEF IsRequest
  <2>11. SameRequest(p, q)
    BY <2>8, <2>9, <2>10 DEF SameRequest
  <2>12. q.phase \in {"search", "create", "write"} /\ q.form.kind \in {"check", "edit"} =>
          (~ p.overtaken => ~ q.overtaken /\ table[q.form.item] = items[q.form.item])
    BY <2>6, <2>9, Zenon
  <2>13. RequestOk(p, table, catalog)
    <3>1. catalog \in Seq(Ingredient)
      BY DEF GInv, Names
    <3> QED
      BY <2>2, <2>11, <2>12, <3>1, ExtendsItself, StaysOk, Zenon
  <2> QED
    BY <2>1, <2>7, <2>13
<1> QED
  BY <1>1, <1>2


-----------------------------------------------------------------------------
(* The steps of a request. *)

\* A step that changes one request and may add to the catalog.
LEMMA OneRequest ==
  ASSUME GInv, NEW c \in Client, NEW r, NEW more,
         requests' = [requests EXCEPT ![c] = r], UNCHANGED items, catalog' = more,
         Names(more), Extends(more, catalog), RequestOk(r, items, more)
  PROVE  GInv'
<1>1. more \in Seq(Ingredient) /\ catalog \in Seq(Ingredient)
  BY DEF GInv, Names
<1>2. Len(catalog) <= Len(more)
  BY <1>1, NamesStay
<1>3. Items(items, more)
  <2>1. Items(items, catalog) /\ items \in Seq(ItemType \cup {NoItem})
    BY DEF GInv, Items
  <2>2. \A i \in DOMAIN items : items[i].unit \in Nat
    <3> SUFFICES ASSUME NEW i \in DOMAIN items PROVE items[i].unit \in Nat
      OBVIOUS
    <3>1. items[i] \in ItemType \cup {NoItem}
      BY <2>1
    <3> QED
      BY <3>1, ItemUnit
  <2> QED
    BY <1>1, <1>2, <2>1, <2>2 DEF Items
<1>4. requests' = [d \in Client |-> requests'[d]]
  BY DEF GInv
<1>5. \A d \in Client : RequestOk(requests'[d], items, more)
  <2> SUFFICES ASSUME NEW d \in Client PROVE RequestOk(requests'[d], items, more)
    OBVIOUS
  <2>1. CASE d = c
    <3>1. requests'[d] = r
      BY <2>1 DEF GInv
    <3> QED
      BY <3>1
  <2>2. CASE d # c
    <3>1. requests'[d] = requests[d]
      BY <2>2 DEF GInv
    <3> QED
      BY <1>1, <3>1, OthersStayOk
  <2> QED
    BY <2>1, <2>2
<1> QED
  BY <1>3, <1>4, <1>5 DEF GInv

\* A step that changes the list.
LEMMA OneWrite ==
  ASSUME GInv, NEW table, NEW c, NEW r, items' = table, UNCHANGED catalog,
         requests' = Noticed(table, c, r), DOMAIN items \subseteq DOMAIN table,
         Items(table, catalog), c \in Client => RequestOk(r, table, catalog)
  PROVE  GInv'
<1>1. \A d \in Client : RequestOk(requests'[d], table, catalog)
  BY NoticedOk
<1>2. requests' = [d \in Client |-> requests'[d]]
  BY DEF Noticed
<1>3. Names(catalog')
  BY DEF GInv
<1> QED
  BY <1>1, <1>2, <1>3 DEF GInv

\* A request is given up: its answer says whether it wrote.
LEMMA GivenUp ==
  ASSUME GInv, NEW c \in Client, NEW result \in Result, NEW more \in Seq(Ingredient),
         requests[c].form.kind # "view" =>
           /\ result = "saved" => requests[c].wrote
           /\ result = "notFound" => ~ requests[c].wrote
  PROVE  RequestOk(Over(requests[c], result), items, more)
<1>1. RequestOk(requests[c], items, catalog)
  BY DEF GInv
<1>2. IsRequest(requests[c])
  BY <1>1 DEF RequestOk
<1>3. requests[c].form.kind \in {"check", "edit", "delete"} =>
        requests[c].form.item \in DOMAIN items
  BY <1>1 DEF RequestOk, Knows
<1> QED
  BY <1>2, <1>3, OverOk, Zenon

LEMMA LiteralRequest ==
  ASSUME NEW f \in Form \cup {Idle.form}
  PROVE  IsRequest([phase |-> "idle", form |-> f, item |-> NoItem, todo |-> <<>>,
                    unit |-> 0, page |-> 0, seen |-> <<>>, result |-> "none",
                    searched |-> 0, found |-> {}, overtaken |-> FALSE,
                    disturbed |-> FALSE, wrote |-> FALSE])
<1>1. PICK r :
        r = [phase |-> "idle", form |-> f, item |-> NoItem, todo |-> <<>>,
             unit |-> 0, page |-> 0, seen |-> <<>>, result |-> "none",
             searched |-> 0, found |-> {}, overtaken |-> FALSE,
             disturbed |-> FALSE, wrote |-> FALSE]
  OBVIOUS
<1>2. <<>> \in Seq(Ingredient) /\ "none" \in Result
  BY DEF Result
<1>3. r.page = 0 /\ r.seen = <<>> /\ r.found = {}
  BY <1>1
<1>4. IsRequest(r)
  BY <1>1, <1>2, <1>3 DEF IsRequest
<1> QED
  BY <1>1, <1>4

LEMMA BegunOk ==
  ASSUME GInv, NEW f \in Form, NEW r, r = [Idle EXCEPT !.form = f],
         f.kind \in {"check", "edit", "delete"} => f.item \in DOMAIN items
  PROVE  /\ IsRequest(r) /\ r.form = f /\ ~ r.wrote
         /\ f.kind \in {"check", "edit"} => RequestOk([r EXCEPT !.phase = "read"], items, catalog)
         /\ f.kind = "delete" => RequestOk([r EXCEPT !.phase = "write"], items, catalog)
         /\ \A todo \in Seq(Ingredient) :
              f.kind = "create" /\ ~ Refused(f) /\ todo # <<>> =>
                RequestOk([r EXCEPT !.phase = "search", !.todo = todo], items, catalog)
<1>0. Len(catalog) \in Nat
  BY DEF GInv, Names
<1>1. r = [phase |-> "idle", form |-> f, item |-> NoItem, todo |-> <<>>, unit |-> 0,
           page |-> 0, seen |-> <<>>, result |-> "none", searched |-> 0, found |-> {},
           overtaken |-> FALSE, disturbed |-> FALSE, wrote |-> FALSE]
  BY DEF Idle
<1>2. /\ r.form = f /\ r.unit = 0 /\ r.item = NoItem
      /\ r.page = 0 /\ r.seen = <<>> /\ r.found = {}
  BY <1>1
<1>3. ~ r.wrote
  BY <1>1
<1>4. <<>> \in Seq(Ingredient)
  OBVIOUS
<1>5. IsRequest(r)
  <2>1. f \in Form \cup {Idle.form}
    OBVIOUS
  <2> QED
    BY <1>1, <2>1, LiteralRequest, Zenon
<1>6. ASSUME f.kind \in {"check", "edit"}
      PROVE  RequestOk([r EXCEPT !.phase = "read"], items, catalog)
  <2>1. PICK q : q = [r EXCEPT !.phase = "read"]
    OBVIOUS
  <2>2. IsRequest(q) /\ q.phase = "read" /\ q.form = f /\ q.unit = 0 /\ q.item = NoItem /\ ~ q.wrote
    <3>1. /\ q.phase = "read" /\ q.form = f /\ q.unit = 0 /\ q.item = NoItem
          /\ q.wrote = r.wrote /\ q.page = r.page /\ q.seen = r.seen /\ q.found = r.found
      BY <1>2, <1>5, <2>1 DEF IsRequest
    <3>2. IsRequest(q)
      BY <1>5, <2>1, <3>1 DEF IsRequest
    <3> QED
      BY <1>3, <3>1, <3>2
  <2>3. Knows(q, items, catalog)
    BY <1>0, <1>6, <2>2, NoItemFields DEF Knows
  <2>4. Answered(q)
    BY <2>2 DEF Answered
  <2> QED
    BY <2>1, <2>2, <2>3, <2>4 DEF RequestOk
<1>7. ASSUME f.kind = "delete"
      PROVE  RequestOk([r EXCEPT !.phase = "write"], items, catalog)
  <2>1. PICK q : q = [r EXCEPT !.phase = "write"]
    OBVIOUS
  <2>2. IsRequest(q) /\ q.phase = "write" /\ q.form = f /\ q.unit = 0 /\ q.item = NoItem /\ ~ q.wrote
    <3>1. /\ q.phase = "write" /\ q.form = f /\ q.unit = 0 /\ q.item = NoItem
          /\ q.wrote = r.wrote /\ q.page = r.page /\ q.seen = r.seen /\ q.found = r.found
      BY <1>2, <1>5, <2>1 DEF IsRequest
    <3>2. IsRequest(q)
      BY <1>5, <2>1, <3>1 DEF IsRequest
    <3> QED
      BY <1>3, <3>1, <3>2
  <2>3. Knows(q, items, catalog)
    <3>1. ~ Refused(f)
      BY <1>7 DEF Refused
    <3> QED
      BY <1>0, <1>7, <2>2, <3>1, NoItemFields DEF Knows
  <2>4. Answered(q)
    BY <2>2 DEF Answered
  <2> QED
    BY <2>1, <2>2, <2>3, <2>4 DEF RequestOk
<1>8. ASSUME NEW todo \in Seq(Ingredient), f.kind = "create", ~ Refused(f), todo # <<>>
      PROVE  RequestOk([r EXCEPT !.phase = "search", !.todo = todo], items, catalog)
  <2>1. PICK q : q = [r EXCEPT !.phase = "search", !.todo = todo]
    OBVIOUS
  <2>2. /\ IsRequest(q) /\ q.phase = "search" /\ q.form = f /\ q.todo = todo /\ q.unit = 0
        /\ q.item = NoItem /\ ~ q.wrote
    <3>1. /\ q.phase = "search" /\ q.form = f /\ q.todo = todo /\ q.unit = 0
          /\ q.item = NoItem
          /\ q.wrote = r.wrote /\ q.page = r.page /\ q.seen = r.seen /\ q.found = r.found
      BY <1>2, <1>5, <2>1 DEF IsRequest
    <3>2. IsRequest(q)
      BY <1>5, <2>1, <3>1 DEF IsRequest
    <3> QED
      BY <1>3, <3>1, <3>2
  <2>3. Knows(q, items, catalog)
    BY <1>0, <1>8, <2>2, NoItemFields DEF Knows
  <2>4. Answered(q)
    BY <2>2 DEF Answered
  <2> QED
    BY <2>1, <2>2, <2>3, <2>4 DEF RequestOk
<1> QED
  BY <1>2, <1>3, <1>5, <1>6, <1>7, <1>8

LEMMA BeginStep ==
  ASSUME GInv, NEW c \in Client, NEW f \in Form, Begin(c, f)
  PROVE  GInv'
<1>1. PICK r : r = [Idle EXCEPT !.form = f]
  OBVIOUS
<1> DEFINE food == <<[kind |-> "food", name |-> f.food]>>
           unit == IF f.unit = "" THEN <<>> ELSE <<[kind |-> "unit", name |-> f.unit]>>
           next == CASE f.kind = "view" -> Loading(r, "none")
                     [] f.kind \in {"check", "edit"} -> [r EXCEPT !.phase = "read"]
                     [] f.kind = "delete" -> [r EXCEPT !.phase = "write"]
                     [] f.kind = "create" /\ Refused(f) -> Over(r, "invalid")
                     [] OTHER -> [r EXCEPT !.phase = "search", !.todo = food \o unit]
<1>2. /\ requests' = [requests EXCEPT ![c] = next] /\ UNCHANGED <<items, catalog>>
      /\ f.kind \in {"check", "edit", "delete"} => f.item \in DOMAIN items
  BY <1>1 DEF Begin
<1>3. /\ IsRequest(r) /\ r.form = f /\ ~ r.wrote
      /\ f.kind \in {"check", "edit"} => RequestOk([r EXCEPT !.phase = "read"], items, catalog)
      /\ f.kind = "delete" => RequestOk([r EXCEPT !.phase = "write"], items, catalog)
      /\ \A todo \in Seq(Ingredient) :
           f.kind = "create" /\ ~ Refused(f) /\ todo # <<>> =>
             RequestOk([r EXCEPT !.phase = "search", !.todo = todo], items, catalog)
  BY <1>1, <1>2, BegunOk, Zenon
<1>4. catalog \in Seq(Ingredient) /\ Names(catalog)
  BY DEF GInv, Names
<1>5. RequestOk(next, items, catalog)
  <2>1. CASE f.kind = "view"
    <3>1. RequestOk(Loading(r, "none"), items, catalog)
      <4>1. "none" \in Result
        BY DEF Result
      <4> QED
        BY <1>3, <1>4, <2>1, <4>1, LoadingOk
    <3> QED
      BY <2>1, <3>1
  <2>2. CASE f.kind \in {"check", "edit"}
    BY <1>3, <2>2
  <2>3. CASE f.kind = "delete"
    BY <1>3, <2>3
  <2>4. CASE f.kind = "create" /\ Refused(f)
    <3>1. RequestOk(Over(r, "invalid"), items, catalog)
      <4>1. "invalid" \in Result
        BY DEF Result
      <4> QED
        BY <1>3, <1>4, <2>4, <4>1, OverOk
    <3> QED
      BY <2>4, <3>1
  <2>5. CASE f.kind = "create" /\ ~ Refused(f)
    <3>1. f.food \in Spelling /\ f.unit \in Spelling \cup {""}
      BY <2>5, FormFields
    <3>2. food \in Seq(Ingredient) /\ unit \in Seq(Ingredient) /\ Len(food) = 1
      <4>1. [kind |-> "food", name |-> f.food] \in Ingredient
        BY <3>1 DEF Ingredient, Kind
      <4>2. f.unit # "" => [kind |-> "unit", name |-> f.unit] \in Ingredient
        BY <3>1 DEF Ingredient, Kind
      <4>3. \A ingredient \in Ingredient :
              <<ingredient>> \in Seq(Ingredient) /\ Len(<<ingredient>>) = 1
        OBVIOUS
      <4>4. food \in Seq(Ingredient) /\ Len(food) = 1
        BY <4>1, <4>3
      <4>5. unit \in Seq(Ingredient)
        <5>1. CASE f.unit = ""
          <6>1. unit = <<>>
            BY <5>1
          <6>2. <<>> \in Seq(Ingredient)
            OBVIOUS
          <6> QED
            BY <6>1, <6>2, Zenon
        <5>2. CASE f.unit # ""
          BY <4>2, <4>3, <5>2
        <5> QED
          BY <5>1, <5>2
      <4> QED
        BY <4>4, <4>5
    <3> HIDE DEF food, unit
    <3>3. food \o unit \in Seq(Ingredient) /\ food \o unit # <<>>
      BY <3>2
    <3> QED
      BY <1>3, <2>5, <3>3
  <2> QED
    BY <2>1, <2>2, <2>3, <2>4, <2>5, FormFields
<1> HIDE DEF next
<1> QED
  BY <1>2, <1>4, <1>5, ExtendsItself, OneRequest


\* The item was read: it is known as it is, or as the form asks for.
LEMMA WithItemOk ==
  ASSUME GInv, NEW c \in Client, requests[c].phase = "read",
         requests[c].form.kind \in {"check", "edit"},
         NEW item, item = items[requests[c].form.item], item # NoItem
  PROVE  RequestOk(WithItem(requests[c], item), items, catalog)
<1> DEFINE r == requests[c]
<1>1. IsRequest(r) /\ ~ r.wrote /\ Names(catalog) /\ catalog \in Seq(Ingredient)
  <2>1. RequestOk(r, items, catalog)
    BY DEF GInv
  <2> QED
    BY <2>1 DEF RequestOk, Answered, GInv, Names
<1>2. /\ r.form.item \in DOMAIN items
      /\ item \in ItemType /\ item.unit <= Len(catalog) /\ item.unit \in Nat
  <2>1. r.form.item \in DOMAIN items
    BY DEF GInv, RequestOk, Knows
  <2>2. items[r.form.item] \in ItemType \cup {NoItem} /\ items[r.form.item].unit <= Len(catalog)
    BY <2>1 DEF GInv, Items
  <2> QED
    BY <2>1, <2>2, ItemUnit
<1>3. r.form.kind = "edit" => r.form.unit \in Spelling \cup {""}
  BY <1>1, FormFields DEF IsRequest
<1> HIDE DEF r
<1>4. CASE Refused(r.form)
  <2>1. RequestOk(Over(r, "invalid"), items, catalog)
    BY <1>1, GivenUp DEF Result, r
  <2> QED
    BY <1>4, <2>1 DEF WithItem, r
<1>5. CASE ~ Refused(r.form)
  <2> DEFINE edited == r.form.kind = "edit" /\ Folded(r.form.unit) # NameOf(item.unit)
  <2>1. PICK read : read = [r EXCEPT !.item = item, !.unit = item.unit, !.phase = "write"]
    OBVIOUS
  <2>2. /\ read.item = item /\ read.unit = item.unit /\ read.phase = "write"
        /\ read.form = r.form /\ read.wrote = r.wrote
        /\ read.page = r.page /\ read.seen = r.seen /\ read.found = r.found
    BY <1>1, <2>1 DEF IsRequest
  <2>3. IsRequest(read)
    BY <1>1, <1>2, <2>1, <2>2 DEF IsRequest
  <2>4. CASE ~ edited
    <3>1. WithItem(r, item) = read
      BY <1>5, <2>1, <2>4 DEF WithItem
    <3>2. r.form.kind = "edit" => NameIn(catalog, item.unit) = Folded(r.form.unit)
      BY <2>4 DEF NameOf, NameIn
    <3>3. Knows(read, items, catalog)
      BY <1>2, <1>5, <2>2, <3>2 DEF Knows, r
    <3>4. Answered(read)
      BY <1>1, <2>2 DEF Answered
    <3> QED
      BY <2>3, <3>1, <3>3, <3>4 DEF RequestOk, r
  <2>5. CASE edited /\ r.form.unit = ""
    <3>1. PICK q : q = [read EXCEPT !.unit = 0]
      OBVIOUS
    <3>2. WithItem(r, item) = q
      BY <1>5, <2>1, <2>5, <3>1 DEF WithItem
    <3>3. /\ q.item = item /\ q.unit = 0 /\ q.phase = "write"
          /\ q.form = r.form /\ q.wrote = r.wrote
          /\ q.page = r.page /\ q.seen = r.seen /\ q.found = r.found
      BY <2>2, <2>3, <3>1 DEF IsRequest
    <3>4. IsRequest(q)
      BY <2>2, <2>3, <3>1, <3>3 DEF IsRequest
    <3>5. NameIn(catalog, 0) = Folded(r.form.unit)
      BY <2>5 DEF NameIn, Folded
    <3>6. Knows(q, items, catalog)
      <4>1. q.form.kind = "edit" /\ 0 <= Len(catalog)
        <5>1. q.form.kind = "edit"
          BY <2>5, <3>3
        <5>2. Len(catalog) \in Nat
          BY <1>1
        <5> QED
          BY <5>1, <5>2
      <4>2. ~ Refused(q.form) /\ q.form.item \in DOMAIN items /\ items[q.form.item] = q.item
        BY <1>2, <1>5, <3>3 DEF r
      <4> QED
        BY <1>2, <3>3, <3>5, <4>1, <4>2 DEF Knows
    <3>7. Answered(q)
      BY <1>1, <3>3 DEF Answered
    <3> QED
      BY <3>2, <3>4, <3>6, <3>7 DEF RequestOk, r
  <2>6. CASE edited /\ r.form.unit # ""
    <3> DEFINE todo == <<[kind |-> "unit", name |-> r.form.unit]>>
    <3>1. PICK q : q = [read EXCEPT !.unit = 0, !.phase = "search", !.todo = todo]
      OBVIOUS
    <3>2. WithItem(r, item) = q
      BY <1>5, <2>1, <2>6, <3>1 DEF WithItem
    <3>3. todo \in Seq(Ingredient) /\ todo # <<>>
      <4>1. [kind |-> "unit", name |-> r.form.unit] \in Ingredient
        BY <1>3, <2>6 DEF Ingredient, Kind
      <4> QED
        BY <4>1
    <3> HIDE DEF todo
    <3>4. /\ q.item = item /\ q.unit = 0 /\ q.phase = "search" /\ q.todo = todo
          /\ q.form = r.form /\ q.wrote = r.wrote
          /\ q.page = r.page /\ q.seen = r.seen /\ q.found = r.found
      BY <2>2, <2>3, <3>1 DEF IsRequest
    <3>5. IsRequest(q)
      BY <2>2, <2>3, <3>1, <3>3, <3>4 DEF IsRequest
    <3>6. Knows(q, items, catalog)
      <4>1. q.form.kind = "edit" /\ q.todo = <<[kind |-> "unit", name |-> q.form.unit]>>
        BY <2>6, <3>4 DEF todo
      <4> QED
        BY <1>1, <1>2, <1>5, <3>3, <3>4, <4>1 DEF Knows, r
    <3>7. Answered(q)
      BY <1>1, <3>4 DEF Answered
    <3> QED
      BY <3>2, <3>5, <3>6, <3>7 DEF RequestOk, r
  <2> QED
    BY <2>4, <2>5, <2>6
<1> QED
  BY <1>4, <1>5

LEMMA RefusalResults == Refusal \subseteq Result /\ Answer \subseteq Result /\ "notFound" \in Result
BY DEF Refusal, Answer, Result

LEMMA ReadItemStep ==
  ASSUME GInv, NEW c \in Client, ReadItem(c)
  PROVE  GInv'
<1> DEFINE r == requests[c]
           item == items[r.form.item]
<1>1. /\ r.phase = "read" /\ UNCHANGED <<items, catalog>>
      /\ \/ requests' = [requests EXCEPT ![c] =
              IF item = NoItem THEN Over(r, "notFound") ELSE WithItem(r, item)]
         \/ \E result \in Refusal : requests' = [requests EXCEPT ![c] = Over(r, result)]
  BY DEF ReadItem
<1>2. catalog \in Seq(Ingredient) /\ Names(catalog) /\ ~ r.wrote
  <2>1. RequestOk(r, items, catalog)
    BY DEF GInv
  <2> QED
    BY <1>1, <2>1 DEF GInv, Names, RequestOk, Answered
<1>3. \E q : requests' = [requests EXCEPT ![c] = q] /\ RequestOk(q, items, catalog)
  <2>1. CASE \E result \in Refusal : requests' = [requests EXCEPT ![c] = Over(r, result)]
    <3>1. PICK result \in Refusal : requests' = [requests EXCEPT ![c] = Over(r, result)]
      BY <2>1
    <3>2. result \in Result /\ result # "saved" /\ result # "notFound"
      BY RefusalResults DEF Refusal
    <3>3. RequestOk(Over(r, result), items, catalog)
      BY <1>2, <3>2, GivenUp
    <3> QED
      BY <3>1, <3>3
  <2>2. CASE requests' = [requests EXCEPT ![c] = Over(r, "notFound")]
    <3>1. RequestOk(Over(r, "notFound"), items, catalog)
      BY <1>2, RefusalResults, GivenUp
    <3> QED
      BY <2>2, <3>1
  <2>3. CASE requests' = [requests EXCEPT ![c] = WithItem(r, item)] /\ item # NoItem
    <3>1. r.form.kind \in {"check", "edit"}
      <4>1. RequestOk(r, items, catalog)
        BY DEF GInv
      <4> QED
        BY <1>1, <4>1 DEF RequestOk, Knows
    <3>2. RequestOk(WithItem(r, item), items, catalog)
      BY <1>1, <2>3, <3>1, WithItemOk
    <3> QED
      BY <2>3, <3>2
  <2> QED
    BY <1>1, <2>1, <2>2, <2>3
<1> QED
  BY <1>1, <1>2, <1>3, ExtendsItself, OneRequest


\* What is looked up next is an ingredient.
LEMMA NextToFind ==
  ASSUME GInv, NEW c \in Client, requests[c].phase \in {"search", "create"}
  PROVE  LET todo == requests[c].todo
         IN /\ todo \in Seq(Ingredient) /\ todo # <<>> /\ Head(todo) \in Ingredient
            /\ Tail(todo) \in Seq(Ingredient)
            /\ Len(todo) # 1 => Tail(todo) # <<>>
<1>1. RequestOk(requests[c], items, catalog)
  BY DEF GInv
<1>2. requests[c].todo \in Seq(Ingredient) /\ requests[c].todo # <<>>
  BY <1>1 DEF RequestOk, IsRequest, Knows
<1>3. PICK todo : todo = requests[c].todo
  OBVIOUS
<1>4. todo \in Seq(Ingredient) /\ todo # <<>>
  BY <1>2, <1>3
<1>5. Head(todo) \in Ingredient /\ Tail(todo) \in Seq(Ingredient)
  BY <1>4
<1>6. Len(todo) # 1 => Tail(todo) # <<>>
  <2>1. Len(Tail(todo)) = Len(todo) - 1 /\ Len(todo) \in Nat
    BY <1>4
  <2>2. Len(todo) # 1 => Len(Tail(todo)) # 0
    BY <2>1
  <2>3. Tail(todo) = <<>> => Len(Tail(todo)) = 0
    <3>1. Len(<<>>) = 0
      OBVIOUS
    <3> QED
      BY <3>1, Zenon
  <2> QED
    BY <2>2, <2>3, Zenon
<1> QED
  BY <1>3, <1>4, <1>5, <1>6

\* A name was resolved: to a place of the catalog that has it.
LEMMA ResolvedOk ==
  ASSUME GInv, NEW c \in Client, requests[c].phase \in {"search", "create"},
         NEW more \in Seq(Ingredient), Extends(more, catalog), NEW k \in DOMAIN more,
         SameName(more[k].name, Head(requests[c].todo).name)
  PROVE  RequestOk(Resolved(requests[c], k), items, more)
<1> DEFINE r == requests[c]
<1>1. IsRequest(r) /\ ~ r.wrote /\ r.wrote \in BOOLEAN
  <2>1. RequestOk(r, items, catalog)
    BY DEF GInv
  <2> QED
    BY <2>1 DEF RequestOk, Answered, IsRequest
<1>2. RequestOk(r, items, more)
  BY OthersStayOk
<1>3. /\ r.form.kind \in {"create", "edit"} /\ ~ Refused(r.form)
      /\ r.form.kind = "edit" => r.todo = <<[kind |-> "unit", name |-> r.form.unit]>>
      /\ r.form.kind = "edit" => r.form.item \in DOMAIN items
      /\ r.unit <= Len(more) /\ r.item.unit <= Len(more) /\ r.unit \in Nat
  BY <1>1, <1>2 DEF RequestOk, Knows, IsRequest
<1>4. r.form.kind = "edit" => r.item \in ItemType /\ (r.overtaken \/ items[r.form.item] = r.item)
  <2>1. Knows(r, items, more)
    BY <1>2 DEF RequestOk
  <2> QED
    BY <2>1, Zenon DEF Knows
<1>5. LET todo == r.todo
      IN /\ todo \in Seq(Ingredient) /\ todo # <<>> /\ Head(todo) \in Ingredient
         /\ Tail(todo) \in Seq(Ingredient)
         /\ Len(todo) # 1 => Tail(todo) # <<>>
  BY NextToFind, Zenon
<1>6. SameName(more[k].name, Head(r.todo).name)
  OBVIOUS
<1>7. k \in 1..Len(more) /\ Len(more) \in Nat
  OBVIOUS
<1> HIDE DEF r
<1> DEFINE phase == IF Len(r.todo) = 1 THEN "write" ELSE "search"
           unit == IF Head(r.todo).kind = "unit" THEN k ELSE r.unit
           todo == Tail(r.todo)
<1>8. PICK q : q = [r EXCEPT !.unit = unit, !.todo = todo, !.searched = 0, !.found = {},
                             !.phase = phase]
  OBVIOUS
<1>9. Resolved(r, k) = q
  BY <1>8, <1>1 DEF Resolved, IsRequest
<1>10. /\ phase \in {"write", "search"} /\ unit \in Nat /\ unit <= Len(more)
       /\ todo \in Seq(Ingredient)
  BY <1>3, <1>5, <1>7
<1>11. /\ phase = "search" => todo # <<>> /\ Len(r.todo) # 1
       /\ r.form.kind = "edit" => Len(r.todo) = 1 /\ unit = k
  <2>1. phase = "search" => todo # <<>> /\ Len(r.todo) # 1
    BY <1>5
  <2>2. \A x : Len(<<x>>) = 1 /\ Head(<<x>>) = x
    OBVIOUS
  <2>3. r.form.kind = "edit" => Len(r.todo) = 1 /\ Head(r.todo).kind = "unit"
    <3> DEFINE ingredient == [kind |-> "unit", name |-> r.form.unit]
    <3>1. ingredient.kind = "unit"
      OBVIOUS
    <3>2. r.form.kind = "edit" => r.todo = <<ingredient>>
      BY <1>3
    <3> HIDE DEF ingredient
    <3> QED
      BY <2>2, <3>1, <3>2
  <2> QED
    BY <2>1, <2>3
<1>12. r.form.kind = "edit" => NameIn(more, k) = Folded(r.form.unit)
  <2> SUFFICES ASSUME r.form.kind = "edit" PROVE NameIn(more, k) = Folded(r.form.unit)
    OBVIOUS
  <2>1. Head(r.todo).name = r.form.unit
    BY <1>3
  <2>2. more[k] \in Ingredient
    OBVIOUS
  <2>3. more[k].name # ""
    BY <2>2, NameTypes DEF Ingredient
  <2>4. Folded(more[k].name) = FoldOf[more[k].name]
    BY <2>3 DEF Folded
  <2>5. Folded(more[k].name) = Folded(r.form.unit)
    BY <1>6, <2>1 DEF SameName
  <2>6. NameIn(more, k) = FoldOf[more[k].name]
    <3>1. k # 0
      BY <1>7
    <3> QED
      BY <3>1, Zenon DEF NameIn
  <2> QED
    BY <2>4, <2>5, <2>6
<1> HIDE DEF phase, unit, todo
<1>13. /\ q.phase = phase /\ q.unit = unit /\ q.todo = todo /\ q.found = {} /\ q.searched = 0
       /\ q.form = r.form /\ q.item = r.item /\ q.page = r.page /\ q.seen = r.seen
  BY <1>1, <1>8 DEF IsRequest
<1>14. q.wrote = r.wrote /\ q.overtaken = r.overtaken
  BY <1>1, <1>8 DEF IsRequest
<1>15. IsRequest(q)
  BY <1>1, <1>8, <1>10, <1>13 DEF IsRequest
<1>16. Answered(q)
  BY <1>1, <1>10, <1>13, <1>14 DEF Answered
<1>17. Knows(q, items, more)
  <2>1. /\ q.form.kind \in {"create", "edit"} /\ ~ Refused(q.form)
        /\ q.form.kind = "edit" => q.form.item \in DOMAIN items
        /\ q.unit <= Len(more) /\ q.item.unit <= Len(more) /\ q.phase \in {"write", "search"}
    BY <1>3, <1>10, <1>13
  <2>2. q.form.kind = "edit" => q.item \in ItemType /\ (q.overtaken \/ items[q.form.item] = q.item)
    BY <1>4, <1>13, <1>14, Zenon
  <2>3. q.phase = "search" => q.todo # <<>> /\ q.form.kind # "edit"
    BY <1>11, <1>13
  <2>4. q.form.kind = "edit" => NameIn(more, q.unit) = Folded(q.form.unit)
    BY <1>11, <1>12, <1>13
  <2> QED
    BY <2>1, <2>2, <2>3, <2>4 DEF Knows
<1> QED
  BY <1>9, <1>15, <1>16, <1>17 DEF RequestOk, r

LEMMA GivenUpAtWork ==
  ASSUME GInv, NEW c \in Client, requests[c].phase \in {"search", "create", "write"},
         NEW result \in Result, result # "saved", NEW more \in Seq(Ingredient)
  PROVE  RequestOk(Over(requests[c], result), items, more)
<1>1. ~ requests[c].wrote
  <2>1. RequestOk(requests[c], items, catalog)
    BY DEF GInv
  <2> QED
    BY <2>1 DEF RequestOk, Answered
<1> QED
  BY <1>1, GivenUp

LEMMA SearchIngredientStep ==
  ASSUME GInv, NEW c \in Client, SearchIngredient(c)
  PROVE  GInv'
<1> DEFINE r == requests[c]
<1>1. /\ r.phase = "search" /\ UNCHANGED <<items, catalog>>
      /\ \/ \E page \in SearchPages(Head(r.todo).kind) :
              LET matching == Matching(page, Head(r.todo).name)
              IN \/ \E k \in matching : requests' = [requests EXCEPT ![c] = Resolved(r, k)]
                 \/ /\ matching = {}
                    /\ requests' = [requests EXCEPT ![c] =
                         [r EXCEPT !.phase = "create", !.found = page,
                                   !.searched = Len(catalog)]]
         \/ \E result \in Refusal : requests' = [requests EXCEPT ![c] = Over(r, result)]
  BY DEF SearchIngredient
<1>2. catalog \in Seq(Ingredient) /\ Names(catalog) /\ RequestOk(r, items, catalog)
  BY DEF GInv, Names
<1>3. \A kind : \A page \in SearchPages(kind) : page \subseteq DOMAIN catalog
  <2> SUFFICES ASSUME NEW kind, NEW page \in SearchPages(kind), NEW k \in page
               PROVE  k \in DOMAIN catalog
    OBVIOUS
  <2> DEFINE all == {j \in DOMAIN catalog : catalog[j].kind = kind}
  <2>1. page \subseteq all
    BY DEF SearchPages
  <2> QED
    BY <2>1
<1>4. \E q : requests' = [requests EXCEPT ![c] = q] /\ RequestOk(q, items, catalog)
  <2>1. CASE \E result \in Refusal : requests' = [requests EXCEPT ![c] = Over(r, result)]
    <3>1. PICK result \in Refusal : requests' = [requests EXCEPT ![c] = Over(r, result)]
      BY <2>1
    <3>2. result \in Result /\ result # "saved"
      BY RefusalResults DEF Refusal
    <3>3. RequestOk(Over(r, result), items, catalog)
      BY <1>1, <1>2, <3>2, GivenUpAtWork
    <3> QED
      BY <3>1, <3>3
  <2>2. ASSUME NEW page \in SearchPages(Head(r.todo).kind),
               NEW k \in Matching(page, Head(r.todo).name),
               requests' = [requests EXCEPT ![c] = Resolved(r, k)]
        PROVE  RequestOk(Resolved(r, k), items, catalog)
    <3>1. k \in DOMAIN catalog /\ SameName(catalog[k].name, Head(r.todo).name)
      BY <1>3 DEF Matching
    <3> QED
      BY <1>1, <1>2, <3>1, ExtendsItself, ResolvedOk
  <2>3. ASSUME NEW page \in SearchPages(Head(r.todo).kind),
               Matching(page, Head(r.todo).name) = {}
        PROVE  RequestOk([r EXCEPT !.phase = "create", !.found = page,
                                   !.searched = Len(catalog)], items, catalog)
    <3>1. IsRequest(r) /\ Len(catalog) \in Nat /\ ~ r.wrote
      <4>1. Len(catalog) \in Nat
        BY <1>2
      <4>2. IsRequest(r) /\ Answered(r)
        BY <1>2 DEF RequestOk
      <4> QED
        BY <1>1, <4>1, <4>2 DEF Answered
    <3>2. \A k \in page : /\ k \in DOMAIN catalog
                          /\ ~ SameName(catalog[k].name, Head(r.todo).name)
      BY <1>3, <2>3 DEF Matching
    <3>3. Knows(r, items, catalog)
      BY <1>2 DEF RequestOk
    <3> HIDE DEF r
    <3>4. PICK q : q = [r EXCEPT !.phase = "create", !.found = page, !.searched = Len(catalog)]
      OBVIOUS
    <3>5. /\ q.phase = "create" /\ q.found = page /\ q.searched = Len(catalog)
          /\ q.form = r.form /\ q.item = r.item /\ q.page = r.page /\ q.seen = r.seen
          /\ q.todo = r.todo /\ q.unit = r.unit
      BY <3>1, <3>4 DEF IsRequest
    <3>6. q.wrote = r.wrote /\ q.overtaken = r.overtaken
      BY <3>1, <3>4 DEF IsRequest
    <3>7. IsRequest(q)
      BY <3>1, <3>4, <3>5 DEF IsRequest
    <3>8. Answered(q)
      BY <3>1, <3>5, <3>6 DEF Answered
    <3>9. Knows(q, items, catalog)
      <4>1. r.phase = "search"
        BY <1>1 DEF r
      <4>2. r.form.kind \in {"check", "edit"} =>
              r.item \in ItemType /\ (r.overtaken \/ items[r.form.item] = r.item)
        BY <3>3, <4>1, Zenon DEF Knows
      <4>3. q.form.kind \in {"check", "edit"} =>
              q.item \in ItemType /\ (q.overtaken \/ items[q.form.item] = q.item)
        BY <3>5, <3>6, <4>2, Zenon
      <4>4. /\ q.form.kind \in {"check", "edit", "delete"} => q.form.item \in DOMAIN items
            /\ q.unit <= Len(catalog) /\ q.item.unit <= Len(catalog)
            /\ q.form.kind # "view" /\ ~ Refused(q.form)
            /\ q.todo # <<>> /\ q.form.kind \in {"create", "edit"}
            /\ q.form.kind = "edit" => q.todo = <<[kind |-> "unit", name |-> q.form.unit]>>
        BY <3>3, <3>5, <4>1 DEF Knows
      <4> QED
        BY <3>2, <3>5, <4>3, <4>4 DEF Knows
    <3> QED
      BY <3>4, <3>7, <3>8, <3>9 DEF RequestOk
  <2> QED
    BY <1>1, <2>1, <2>2, <2>3
<1> QED
  BY <1>1, <1>2, <1>4, ExtendsItself, OneRequest

\* The catalog with an ingredient more.
LEMMA LongerCatalog ==
  ASSUME GInv, NEW ingredient \in Ingredient, Len(catalog) < MaxIngredient
  PROVE  LET more == Append(catalog, ingredient)
         IN /\ Names(more) /\ Extends(more, catalog)
            /\ Len(catalog) + 1 \in DOMAIN more /\ more[Len(catalog) + 1] = ingredient
<1>1. catalog \in Seq(Ingredient) /\ MaxIngredient \in Nat
  BY BoundTypes DEF GInv, Names
<1>2. PICK more : more = Append(catalog, ingredient)
  OBVIOUS
<1>3. /\ more \in Seq(Ingredient) /\ Len(more) = Len(catalog) + 1
      /\ more[Len(catalog) + 1] = ingredient
      /\ \A k \in 1..Len(catalog) : more[k] = catalog[k]
  BY <1>1, <1>2
<1>4. Len(catalog) \in Nat /\ DOMAIN catalog = 1..Len(catalog) /\ DOMAIN more = 1..Len(more)
  BY <1>1, <1>3
<1> QED
  BY <1>1, <1>2, <1>3, <1>4 DEF Names, Extends

LEMMA CreateIngredientStep ==
  ASSUME GInv, NEW c \in Client, CreateIngredient(c)
  PROVE  GInv'
<1> DEFINE r == requests[c]
           more == Append(catalog, Head(r.todo))
<1>1. r.phase = "create" /\ UNCHANGED items
  BY DEF CreateIngredient
<1>2. catalog \in Seq(Ingredient) /\ Names(catalog)
  BY DEF GInv, Names
<1>3. CASE \E result \in Refusal : /\ requests' = [requests EXCEPT ![c] = Over(r, result)]
                                   /\ UNCHANGED catalog
  <2>1. PICK result \in Refusal : /\ requests' = [requests EXCEPT ![c] = Over(r, result)]
                                  /\ UNCHANGED catalog
    BY <1>3
  <2>2. result \in Result /\ result # "saved"
    BY RefusalResults DEF Refusal
  <2>3. RequestOk(Over(r, result), items, catalog)
    BY <1>1, <1>2, <2>2, GivenUpAtWork
  <2> QED
    BY <1>1, <1>2, <2>1, <2>3, ExtendsItself, OneRequest
<1>4. CASE \E result \in Answer :
             /\ Len(catalog) < MaxIngredient
             /\ catalog' = more
             /\ requests' = [requests EXCEPT ![c] =
                  IF result = "saved" THEN Resolved(r, Len(catalog) + 1) ELSE Over(r, result)]
  <2>1. PICK result \in Answer :
             /\ Len(catalog) < MaxIngredient
             /\ catalog' = more
             /\ requests' = [requests EXCEPT ![c] =
                  IF result = "saved" THEN Resolved(r, Len(catalog) + 1) ELSE Over(r, result)]
    BY <1>4
  <2>2. Head(r.todo) \in Ingredient
    <3>1. LET todo == requests[c].todo
          IN /\ todo \in Seq(Ingredient) /\ todo # <<>> /\ Head(todo) \in Ingredient
             /\ Tail(todo) \in Seq(Ingredient)
             /\ Len(todo) # 1 => Tail(todo) # <<>>
      BY <1>1, NextToFind, Zenon
    <3> QED
      BY <3>1
  <2>3. /\ Names(more) /\ Extends(more, catalog)
        /\ Len(catalog) + 1 \in DOMAIN more /\ more[Len(catalog) + 1] = Head(r.todo)
    <3>1. LET longer == Append(catalog, Head(r.todo))
          IN /\ Names(longer) /\ Extends(longer, catalog)
             /\ Len(catalog) + 1 \in DOMAIN longer /\ longer[Len(catalog) + 1] = Head(r.todo)
      BY <2>1, <2>2, LongerCatalog, Zenon
    <3> QED
      BY <3>1
  <2> HIDE DEF more
  <2>4. more \in Seq(Ingredient) /\ SameName(more[Len(catalog) + 1].name, Head(r.todo).name)
    BY <2>3 DEF Names, SameName
  <2>5. CASE result = "saved"
    <3>1. RequestOk(Resolved(r, Len(catalog) + 1), items, more)
      BY <1>1, <2>3, <2>4, ResolvedOk
    <3> QED
      BY <1>1, <2>1, <2>3, <2>5, <3>1, OneRequest
  <2>6. CASE result # "saved"
    <3>1. RequestOk(Over(r, result), items, more)
      BY <1>1, <2>4, <2>6, RefusalResults, GivenUpAtWork
    <3> QED
      BY <1>1, <2>1, <2>3, <2>6, <3>1, OneRequest
  <2> QED
    BY <2>5, <2>6
<1> QED
  BY <1>3, <1>4 DEF CreateIngredient


LEMMA ItemFields ==
  ASSUME NEW item \in ItemType
  PROVE  /\ item.text \in Text \ {""} /\ item.unit \in 0..MaxIngredient
         /\ item.checked \in BOOLEAN /\ item.position \in Nat
BY Zenon DEF ItemType

LEMMA MakeItem ==
  ASSUME NEW t \in Text \ {""}, NEW u \in 0..MaxIngredient, NEW b \in BOOLEAN, NEW p \in Nat
  PROVE  [text |-> t, unit |-> u, checked |-> b, position |-> p] \in ItemType
BY DEF ItemType

\* The list with another item in the place of one.
LEMMA ItemReplaced ==
  ASSUME GInv, NEW i \in DOMAIN items, NEW item \in ItemType \cup {NoItem},
         item.unit <= Len(catalog)
  PROVE  LET table == [items EXCEPT ![i] = item]
         IN Items(table, catalog) /\ DOMAIN items \subseteq DOMAIN table
<1>1. /\ items \in Seq(ItemType \cup {NoItem})
      /\ \A k \in DOMAIN items : items[k].unit <= Len(catalog)
  BY DEF GInv, Items
<1>2. PICK table : table = [items EXCEPT ![i] = item]
  OBVIOUS
<1>3. table \in Seq(ItemType \cup {NoItem}) /\ DOMAIN table = DOMAIN items
  BY <1>1, <1>2
<1>4. \A k \in DOMAIN table : table[k] = items[k] \/ table[k] = item
  BY <1>1, <1>2
<1>5. \A k \in DOMAIN table : table[k].unit <= Len(catalog)
  BY <1>1, <1>3, <1>4
<1> QED
  BY <1>2, <1>3, <1>5 DEF Items

\* The list with an item more.
LEMMA ItemAdded ==
  ASSUME GInv, NEW item \in ItemType, item.unit <= Len(catalog)
  PROVE  LET table == Append(items, item)
         IN Items(table, catalog) /\ DOMAIN items \subseteq DOMAIN table
<1>1. /\ items \in Seq(ItemType \cup {NoItem})
      /\ \A k \in DOMAIN items : items[k].unit <= Len(catalog)
  BY DEF GInv, Items
<1>2. PICK table : table = Append(items, item)
  OBVIOUS
<1>3. table \in Seq(ItemType \cup {NoItem}) /\ DOMAIN items \subseteq DOMAIN table
  BY <1>1, <1>2
<1>4. \A k \in DOMAIN table : table[k] = item \/ (k \in DOMAIN items /\ table[k] = items[k])
  BY <1>1, <1>2
<1>5. \A k \in DOMAIN table : table[k].unit <= Len(catalog)
  BY <1>1, <1>4
<1> QED
  BY <1>2, <1>3, <1>5 DEF Items

\* What a request writes of an item.
LEMMA WrittenType ==
  ASSUME GInv, NEW c \in Client, requests[c].phase = "write",
         requests[c].form.kind \in {"check", "edit"}
  PROVE  /\ Write(requests[c]) \in ItemType /\ Write(requests[c]).unit <= Len(catalog)
         /\ requests[c].form.item \in DOMAIN items
<1> DEFINE r == requests[c]
<1>1. IsRequest(r) /\ Knows(r, items, catalog)
  BY DEF GInv, RequestOk
<1>2. r.form \in Form \cup {Idle.form} /\ r.unit \in Nat
  BY <1>1 DEF IsRequest
<1>3. r.unit <= Len(catalog) /\ ~ Refused(r.form) /\ r.form.item \in DOMAIN items
  BY <1>1 DEF Knows
<1>4. r.item \in ItemType
  BY <1>1 DEF Knows
<1> HIDE DEF r
<1>5. PICK item : item = r.item
  OBVIOUS
<1>6. /\ item.text \in Text \ {""} /\ item.checked \in BOOLEAN /\ item.position \in Nat
  BY <1>4, <1>5, ItemFields
<1>7. r.unit \in 0..MaxIngredient
  <2>1. Len(catalog) \in Nat /\ Len(catalog) <= MaxIngredient /\ MaxIngredient \in Nat
    <3>1. catalog \in Seq(Ingredient) /\ Len(catalog) <= MaxIngredient
      BY DEF GInv, Names
    <3> QED
      BY <3>1, BoundTypes
  <2> QED
    BY <1>2, <1>3, <2>1
<1> DEFINE text == IF r.form.kind = "edit" THEN r.form.text ELSE item.text
           checked == IF r.form.kind = "check" THEN r.form.checked ELSE item.checked
<1>8. text \in Text \ {""}
  <2>1. r.form.kind = "edit" => r.form.text \in Text /\ r.form.text # ""
    BY <1>2, <1>3, FormFields DEF Refused
  <2> QED
    BY <1>6, <2>1
<1>9. checked \in BOOLEAN
  <2>1. r.form.kind = "check" => r.form.checked \in BOOLEAN
    BY <1>2, FormFields, Zenon
  <2> QED
    BY <1>6, <2>1, Zenon
<1>10. Write(r) = [text |-> text, unit |-> r.unit, checked |-> checked,
                   position |-> item.position]
  BY <1>5 DEF Write
<1> HIDE DEF text, checked
<1>11. Write(r) \in ItemType
  BY <1>6, <1>7, <1>8, <1>9, <1>10, MakeItem
<1>12. Write(r).unit = r.unit
  BY DEF Write
<1> QED
  BY <1>3, <1>11, <1>12 DEF r

LEMMA WriteItemStep ==
  ASSUME GInv, NEW c \in Client, WriteItem(c)
  PROVE  GInv'
<1> DEFINE r == requests[c]
           i == r.form.item
           q == [r EXCEPT !.wrote = TRUE]
<1>1. r.phase = "write" /\ UNCHANGED catalog
  BY DEF WriteItem
<1>2. catalog \in Seq(Ingredient) /\ Names(catalog) /\ RequestOk(r, items, catalog)
  BY DEF GInv, Names
<1>3. IsRequest(r) /\ Knows(r, items, catalog) /\ ~ r.wrote
  BY <1>1, <1>2 DEF RequestOk, Answered
<1>4. r.form \in Form \cup {Idle.form} /\ r.form.kind # "view" /\ ~ Refused(r.form)
  BY <1>1, <1>3 DEF IsRequest, Knows
<1>5. r.form.kind \in {"check", "edit", "delete"} => i \in DOMAIN items
  BY <1>3 DEF Knows
<1>6. ASSUME NEW result \in Result, result # "saved",
             requests' = [requests EXCEPT ![c] = Over(r, result)], UNCHANGED items
      PROVE  GInv'
  <2>1. RequestOk(Over(r, result), items, catalog)
    BY <1>1, <1>2, <1>6, GivenUpAtWork
  <2> QED
    BY <1>1, <1>2, <1>6, <2>1, ExtendsItself, OneRequest
<1>7. ASSUME NEW table, NEW result \in Answer, items' = table,
             requests' = Noticed(table, c,
                           IF result = "saved" THEN Loading(q, result) ELSE Over(q, result)),
             Items(table, catalog), DOMAIN items \subseteq DOMAIN table
      PROVE  GInv'
  <2> DEFINE next == IF result = "saved" THEN Loading(q, result) ELSE Over(q, result)
  <2>1. q.form = r.form /\ q.page = r.page /\ q.seen = r.seen /\ q.found = r.found
    BY <1>3 DEF IsRequest
  <2>2. q.wrote
    BY <1>3 DEF IsRequest
  <2>3. IsRequest(q)
    BY <1>3, <2>1 DEF IsRequest
  <2>4. q.form.kind \in {"check", "edit", "delete"} => q.form.item \in DOMAIN table
    BY <1>5, <1>7, <2>1
  <2>5. result \in Result /\ result # "notFound"
    BY RefusalResults DEF Answer
  <2> HIDE DEF q
  <2>6. result = "saved" => RequestOk(Loading(q, result), table, catalog)
    BY <1>2, <2>2, <2>3, <2>4, <2>5, LoadingOk
  <2>7. result # "saved" => RequestOk(Over(q, result), table, catalog)
    BY <1>2, <2>2, <2>3, <2>4, <2>5, OverOk
  <2>8. RequestOk(next, table, catalog)
    BY <2>6, <2>7
  <2> HIDE DEF next
  <2>9. requests' = Noticed(table, c, next)
    BY <1>7 DEF next
  <2> QED
    BY <1>1, <1>7, <2>8, <2>9, OneWrite
<1>8. CASE \E result \in Refusal : /\ requests' = [requests EXCEPT ![c] = Over(r, result)]
                                   /\ UNCHANGED items
  BY <1>6, <1>8, RefusalResults DEF Refusal
<1>9. CASE requests' = [requests EXCEPT ![c] = Over(r, "notFound")] /\ UNCHANGED items
  BY <1>6, <1>9, RefusalResults
<1>10. CASE /\ r.form.kind \in {"check", "edit"}
            /\ \E result \in Answer :
                 LET table == [items EXCEPT ![i] = Write(r)]
                 IN /\ items' = table
                    /\ requests' = Noticed(table, c,
                         IF result = "saved" THEN Loading(q, result) ELSE Over(q, result))
  <2> DEFINE table == [items EXCEPT ![i] = Write(r)]
  <2>1. Write(r) \in ItemType /\ Write(r).unit <= Len(catalog)
    BY <1>1, <1>10, WrittenType
  <2>2. Items(table, catalog) /\ DOMAIN items \subseteq DOMAIN table
    <3>1. LET other == [items EXCEPT ![i] = Write(r)]
          IN Items(other, catalog) /\ DOMAIN items \subseteq DOMAIN other
      BY <1>5, <1>10, <2>1, ItemReplaced
    <3> QED
      BY <3>1
  <2> QED
    BY <1>7, <1>10, <2>2
<1>11. CASE /\ r.form.kind = "delete"
            /\ \E result \in Answer :
                 LET table == [items EXCEPT ![i] = NoItem]
                 IN /\ items' = table
                    /\ requests' = Noticed(table, c,
                         IF result = "saved" THEN Loading(q, result) ELSE Over(q, result))
  <2> DEFINE table == [items EXCEPT ![i] = NoItem]
  <2>1. NoItem.unit <= Len(catalog)
    BY <1>2, NoItemFields
  <2>2. Items(table, catalog) /\ DOMAIN items \subseteq DOMAIN table
    <3>1. LET other == [items EXCEPT ![i] = NoItem]
          IN Items(other, catalog) /\ DOMAIN items \subseteq DOMAIN other
      BY <1>5, <1>11, <2>1, ItemReplaced
    <3> QED
      BY <3>1
  <2> QED
    BY <1>7, <1>11, <2>2
<1>12. CASE /\ r.form.kind = "create"
            /\ \E result \in Answer :
                 LET table == Append(items, [text |-> r.form.text, unit |-> r.unit,
                                             checked |-> FALSE, position |-> 0])
                 IN /\ items' = table
                    /\ requests' = Noticed(table, c,
                         IF result = "saved" THEN Loading(q, result) ELSE Over(q, result))
  <2> DEFINE item == [text |-> r.form.text, unit |-> r.unit, checked |-> FALSE, position |-> 0]
             table == Append(items, item)
  <2>1. r.form.text \in Text \ {""}
    BY <1>4, <1>12, FormFields DEF Refused
  <2>2. r.unit \in Nat /\ r.unit <= Len(catalog)
    BY <1>3 DEF IsRequest, Knows
  <2>3. r.unit \in 0..MaxIngredient
    <3>1. Len(catalog) \in Nat /\ Len(catalog) <= MaxIngredient /\ MaxIngredient \in Nat
      <4>1. catalog \in Seq(Ingredient) /\ Len(catalog) <= MaxIngredient
        BY <1>2 DEF Names
      <4> QED
        BY <4>1, BoundTypes
    <3> QED
      BY <2>2, <3>1
  <2>4. item \in ItemType /\ item.unit <= Len(catalog)
    <3>1. item \in ItemType
      BY <2>1, <2>3, MakeItem
    <3> QED
      BY <2>2, <3>1
  <2> HIDE DEF item
  <2>5. Items(table, catalog) /\ DOMAIN items \subseteq DOMAIN table
    <3>1. LET other == Append(items, item)
          IN Items(other, catalog) /\ DOMAIN items \subseteq DOMAIN other
      BY <2>4, ItemAdded
    <3> QED
      BY <3>1
  <2>6. PICK result \in Answer :
          /\ items' = table
          /\ requests' = Noticed(table, c,
               IF result = "saved" THEN Loading(q, result) ELSE Over(q, result))
    BY <1>12 DEF item
  <2> QED
    BY <1>7, <2>5, <2>6
<1> QED
  BY <1>8, <1>9, <1>10, <1>11, <1>12 DEF WriteItem

LEMMA LoadPageStep ==
  ASSUME GInv, NEW c \in Client, LoadPage(c)
  PROVE  GInv'
<1> DEFINE r == requests[c]
           seen == r.seen \o PageOf(r.page)
           result == IF r.form.kind = "view" THEN "unavailable" ELSE r.result
           page == IF r.page < MaxItem + 2 THEN r.page + 1 ELSE MaxItem + 1
<1>1. /\ r.phase = "load" /\ UNCHANGED <<items, catalog>>
      /\ \/ requests' = [requests EXCEPT ![c] = [r EXCEPT !.phase = "over", !.seen = seen]]
         \/ requests' = [requests EXCEPT ![c] = [r EXCEPT !.page = page, !.seen = seen]]
         \/ requests' = [requests EXCEPT ![c] = Over(r, result)]
  <2>1. IsRequest(r)
    BY DEF GInv, RequestOk
  <2>2. [r EXCEPT !.page = IF @ < MaxItem + 2 THEN @ + 1 ELSE MaxItem + 1, !.seen = seen]
          = [r EXCEPT !.page = page, !.seen = seen]
    BY <2>1 DEF IsRequest
  <2> HIDE DEF page, seen, result
  <2> QED
    BY <2>2 DEF LoadPage, seen, result
<1>2. catalog \in Seq(Ingredient) /\ Names(catalog) /\ RequestOk(r, items, catalog)
  BY DEF GInv, Names
<1>3. IsRequest(r) /\ Answered(r) /\ Knows(r, items, catalog)
  BY <1>2 DEF RequestOk
<1>4. RequestOk(Over(r, result), items, catalog)
  <2>1. "unavailable" \in Result /\ r.result \in Result
    BY <1>3 DEF IsRequest, Result
  <2>2. r.form.kind # "view" => result = "saved" /\ r.wrote
    BY <1>1, <1>3 DEF Answered
  <2>3. result \in Result
    BY <2>1
  <2> HIDE DEF result
  <2> QED
    BY <1>2, <2>2, <2>3, GivenUp
<1> HIDE DEF seen, page, r, result
<1>5. ASSUME NEW q, q = [r EXCEPT !.phase = "over", !.seen = seen]
             \/ q = [r EXCEPT !.page = page, !.seen = seen]
      PROVE  RequestOk(q, items, catalog)
  <2>1. /\ q.phase \in {"over", "load"} /\ q.form = r.form /\ q.item = r.item
        /\ q.unit = r.unit /\ q.result = r.result /\ q.seen = seen
        /\ q.page \in {page, r.page} /\ q.found = r.found
    BY <1>1, <1>3, <1>5 DEF IsRequest, r
  <2>2. q.wrote = r.wrote
    BY <1>3, <1>5 DEF IsRequest
  <2>3. IsRequest(q)
    BY <1>3, <1>5, <2>1 DEF IsRequest
  <2>4. Answered(q)
    BY <1>1, <1>3, <2>1, <2>2 DEF Answered, r
  <2>5. Knows(q, items, catalog)
    BY <1>3, <2>1 DEF Knows
  <2> QED
    BY <2>3, <2>4, <2>5 DEF RequestOk
<1>6. \E q : requests' = [requests EXCEPT ![c] = q] /\ RequestOk(q, items, catalog)
  BY <1>1, <1>4, <1>5
<1> QED
  BY <1>1, <1>2, <1>6, ExtendsItself, OneRequest

LEMMA ChangeElsewhereStep ==
  ASSUME GInv, NEW i \in DOMAIN items, NEW item \in Otherwise(items[i]), ChangeElsewhere(i, item)
  PROVE  GInv'
<1>1. /\ items' = [items EXCEPT ![i] = item] /\ UNCHANGED catalog
      /\ requests' = Noticed([items EXCEPT ![i] = item], "none", Idle)
      /\ items[i] # NoItem
  BY DEF ChangeElsewhere
<1>2. items[i] \in ItemType /\ items[i].unit <= Len(catalog)
  BY <1>1 DEF GInv, Items
<1>3. item \in ItemType \cup {NoItem} /\ item.unit <= Len(catalog)
  <2>1. PICK was : was = items[i]
    OBVIOUS
  <2>2. was \in ItemType /\ was.unit <= Len(catalog)
    BY <1>2, <2>1
  <2>3. /\ was.text \in Text \ {""} /\ was.unit \in 0..MaxIngredient
        /\ was.checked \in BOOLEAN /\ was.position \in Nat
    BY <2>2, ItemFields
  <2>4. was = [text |-> was.text, unit |-> was.unit, checked |-> was.checked,
               position |-> was.position]
    BY <2>2 DEF ItemType
  <2>5. CASE item = NoItem
    <3>1. Len(catalog) \in Nat
      BY DEF GInv, Names
    <3> QED
      BY <2>5, <3>1, NoItemFields
  <2>6. CASE \E t \in Text \ {""} : item = [was EXCEPT !.text = t]
    <3>1. PICK t \in Text \ {""} : item = [was EXCEPT !.text = t]
      BY <2>6
    <3>2. item = [text |-> t, unit |-> was.unit, checked |-> was.checked,
                  position |-> was.position]
      BY <2>4, <3>1
    <3>3. item \in ItemType
      BY <2>3, <3>2, MakeItem
    <3> QED
      BY <2>2, <3>2, <3>3
  <2>7. CASE item = [was EXCEPT !.checked = ~@]
    <3>1. PICK checked : checked = ~ was.checked
      OBVIOUS
    <3>2. checked \in BOOLEAN
      BY <2>3, <3>1, Zenon
    <3>3. item = [text |-> was.text, unit |-> was.unit, checked |-> checked,
                  position |-> was.position]
      <4>1. item = [was EXCEPT !.checked = checked]
        BY <2>7, <3>1, Zenon
      <4> QED
        BY <2>4, <4>1
    <3>4. item \in ItemType
      BY <2>3, <3>2, <3>3, MakeItem
    <3> QED
      BY <2>2, <3>3, <3>4
  <2>8. CASE \E p \in {0, MaxItem} : item = [was EXCEPT !.position = p]
    <3>1. PICK p \in {0, MaxItem} : item = [was EXCEPT !.position = p]
      BY <2>8
    <3>2. item = [text |-> was.text, unit |-> was.unit, checked |-> was.checked,
                  position |-> p]
      BY <2>4, <3>1
    <3>3. p \in Nat
      BY BoundTypes
    <3>4. item \in ItemType
      BY <2>3, <3>2, <3>3, MakeItem
    <3> QED
      BY <2>2, <3>2, <3>4
  <2>9. \/ item = NoItem
        \/ \E t \in Text \ {""} : item = [was EXCEPT !.text = t]
        \/ item = [was EXCEPT !.checked = ~@]
        \/ \E p \in {0, MaxItem} : item = [was EXCEPT !.position = p]
    BY <2>1, Zenon DEF Otherwise
  <2> QED
    BY <2>5, <2>6, <2>7, <2>8, <2>9
<1>4. LET table == [items EXCEPT ![i] = item]
      IN Items(table, catalog) /\ DOMAIN items \subseteq DOMAIN table
  BY <1>3, ItemReplaced
<1>5. RequestOk(Idle, [items EXCEPT ![i] = item], catalog)
  <2>1. PICK r : r = Idle
    OBVIOUS
  <2>2. IsRequest(r)
    BY <2>1, LiteralRequest DEF Idle
  <2>3. r.phase = "idle" /\ r.form.kind = "view" /\ r.unit = 0 /\ r.item = NoItem
    BY <2>1 DEF Idle
  <2>4. Len(catalog) \in Nat
    BY DEF GInv, Names
  <2>5. Answered(r)
    BY <2>3 DEF Answered
  <2>6. Knows(r, [items EXCEPT ![i] = item], catalog)
    BY <2>3, <2>4, NoItemFields DEF Knows
  <2> QED
    BY <2>1, <2>2, <2>5, <2>6 DEF RequestOk
<1> QED
  BY <1>1, <1>4, <1>5, OneWrite

LEMMA IngredientElsewhereStep ==
  ASSUME GInv, NEW kind \in Kind, NEW name \in Spelling, IngredientElsewhere(kind, name)
  PROVE  GInv'
<1> DEFINE more == Append(catalog, [kind |-> kind, name |-> name])
<1>1. /\ Len(catalog) < MaxIngredient /\ catalog' = more /\ UNCHANGED <<items, requests>>
  BY DEF IngredientElsewhere
<1>2. [kind |-> kind, name |-> name] \in Ingredient
  BY DEF Ingredient
<1>3. Names(more) /\ Extends(more, catalog)
  <2>1. LET longer == Append(catalog, [kind |-> kind, name |-> name])
        IN /\ Names(longer) /\ Extends(longer, catalog)
           /\ Len(catalog) + 1 \in DOMAIN longer
           /\ longer[Len(catalog) + 1] = [kind |-> kind, name |-> name]
    BY <1>1, <1>2, LongerCatalog
  <2> QED
    BY <2>1
<1> HIDE DEF more
<1>4. more \in Seq(Ingredient) /\ catalog \in Seq(Ingredient)
  BY <1>3 DEF Names, GInv
<1>5. \A c \in Client : RequestOk(requests[c], items, more)
  BY <1>3, <1>4, OthersStayOk
<1>6. Items(items, more)
  <2>1. /\ items \in Seq(ItemType \cup {NoItem})
        /\ \A k \in DOMAIN items : items[k].unit <= Len(catalog)
    BY DEF GInv, Items
  <2>2. Len(catalog) <= Len(more)
    BY <1>3, <1>4, NamesStay
  <2>3. \A k \in DOMAIN items : items[k].unit \in Nat
    <3> SUFFICES ASSUME NEW k \in DOMAIN items PROVE items[k].unit \in Nat
      OBVIOUS
    <3>1. items[k] \in ItemType \cup {NoItem}
      BY <2>1
    <3> QED
      BY <3>1, ItemUnit
  <2> QED
    BY <1>4, <2>1, <2>2, <2>3 DEF Items
<1> QED
  BY <1>1, <1>3, <1>5, <1>6 DEF GInv


LEMMA GroceryInit == Init => GInv
<1> SUFFICES ASSUME Init PROVE GInv
  OBVIOUS
<1>1. items = ItemsAtFirst /\ catalog = CatalogAtFirst /\ requests = [c \in Client |-> Idle]
  BY DEF Init
<1>2. Names(CatalogAtFirst)
  BY GroceryAssumption DEF Names, Ingredient
<1>3. Items(ItemsAtFirst, CatalogAtFirst)
  <2>1. /\ ItemsAtFirst \in Seq(ItemType)
        /\ \A i \in DOMAIN ItemsAtFirst : ItemsAtFirst[i].unit <= Len(CatalogAtFirst)
    BY GroceryAssumption
  <2>2. ItemsAtFirst \in Seq(ItemType \cup {NoItem})
    BY <2>1
  <2> QED
    BY <2>1, <2>2 DEF Items
<1>4. RequestOk(Idle, ItemsAtFirst, CatalogAtFirst)
  <2>1. PICK r : r = Idle
    OBVIOUS
  <2>2. IsRequest(r)
    BY <2>1, LiteralRequest DEF Idle
  <2>3. r.phase = "idle" /\ r.form.kind = "view" /\ r.unit = 0 /\ r.item = NoItem
    BY <2>1 DEF Idle
  <2>4. Len(CatalogAtFirst) \in Nat
    BY <1>2 DEF Names
  <2>5. Answered(r)
    BY <2>3 DEF Answered
  <2>6. Knows(r, ItemsAtFirst, CatalogAtFirst)
    BY <2>3, <2>4, NoItemFields DEF Knows
  <2> QED
    BY <2>1, <2>2, <2>5, <2>6 DEF RequestOk
<1> QED
  BY <1>1, <1>2, <1>3, <1>4 DEF GInv

LEMMA GroceryNext == GInv /\ [Next]_vars => GInv'
<1> SUFFICES ASSUME GInv, [Next]_vars PROVE GInv'
  OBVIOUS
<1>1. CASE \E c \in Client : Step(c)
  BY <1>1, ReadItemStep, SearchIngredientStep, CreateIngredientStep, WriteItemStep,
     LoadPageStep DEF Step
<1>2. CASE \E c \in Client, f \in Form : Begin(c, f)
  BY <1>2, BeginStep
<1>3. CASE \E i \in DOMAIN items : \E item \in Otherwise(items[i]) : ChangeElsewhere(i, item)
  BY <1>3, ChangeElsewhereStep
<1>4. CASE \E kind \in Kind, name \in Spelling : IngredientElsewhere(kind, name)
  BY <1>4, IngredientElsewhereStep
<1>5. CASE UNCHANGED vars
  BY <1>5 DEF vars, GInv
<1> QED
  BY <1>1, <1>2, <1>3, <1>4, <1>5 DEF Next

LEMMA GroceryInvariance == Spec => []GInv
BY GroceryInit, GroceryNext, PTL DEF Spec

-----------------------------------------------------------------------------
(* What the list promises. *)

\* Saved is saved, and an item that is said to be gone was left alone, whatever call to
\* Mealie failed and whatever others did to the item (kitchenErrorStatus).
THEOREM AnswersTell == Spec => []AnswerTells
<1>1. GInv => AnswerTells
  <2> SUFFICES ASSUME GInv, NEW c \in Client, requests[c].phase = "over",
                      requests[c].form.kind # "view"
               PROVE  /\ Status(requests[c].result) = 200 => requests[c].wrote
                      /\ Status(requests[c].result) = 404 => ~ requests[c].wrote
    BY DEF AnswerTells
  <2>1. Answered(requests[c])
    BY DEF GInv, RequestOk
  <2>2. /\ Status(requests[c].result) = 200 => requests[c].result = "saved"
        /\ Status(requests[c].result) = 404 => requests[c].result = "notFound"
    BY DEF Status
  <2> QED
    BY <2>1, <2>2, Zenon DEF Answered
<1> QED
  BY <1>1, GroceryInvariance, PTL

\* Others do not answer for a request.
LEMMA NoticedFields ==
  ASSUME GInv, NEW c \in Client, NEW table, NEW d, NEW r, c # d
  PROVE  /\ Noticed(table, d, r)[c].wrote = requests[c].wrote
         /\ Noticed(table, d, r)[c].phase = requests[c].phase
<1> DEFINE q == requests[c]
           here(t) == {i \in DOMAIN t : t[i] # NoItem}
           moved == \/ here(table) # Ids
                    \/ \E i \in Ids : table[i].position # items[i].position
           overtaken == q.overtaken \/ /\ q.phase \in {"search", "create", "write"}
                                       /\ q.form.kind \in {"check", "edit"}
                                       /\ table[q.form.item] # items[q.form.item]
           disturbed == q.disturbed \/ (moved /\ (q.phase = "load" \/ Shown(q)))
<1>1. Noticed(table, d, r)[c] = [q EXCEPT !.overtaken = overtaken, !.disturbed = disturbed]
  BY DEF Noticed
<1>2. IsRequest(q)
  BY DEF GInv, RequestOk
<1> HIDE DEF q, overtaken, disturbed
<1> QED
  BY <1>1, <1>2 DEF IsRequest, q

\* A request of which the item is written now writes it itself.
LEMMA WritesItself ==
  ASSUME GInv, [Next]_vars, NEW c \in Client, requests[c].phase = "write",
         requests[c].form.kind \in {"check", "edit"}, requests'[c].wrote
  PROVE  /\ requests[c].form.item \in DOMAIN items
         /\ items' = [items EXCEPT ![requests[c].form.item] = Write(requests[c])]
<1> DEFINE r == requests[c]
<1>1. ~ r.wrote /\ IsRequest(r) /\ r.form.item \in DOMAIN items
  <2>1. Answered(r) /\ IsRequest(r) /\ Knows(r, items, catalog)
    BY DEF GInv, RequestOk
  <2> QED
    BY <2>1 DEF Answered, Knows
<1>2. \A result \in Result : Over(r, result).wrote = r.wrote
  <2> SUFFICES ASSUME NEW result \in Result PROVE Over(r, result).wrote = r.wrote
    OBVIOUS
  <2>1. LET q == Over(r, result)
        IN /\ IsRequest(q)
           /\ q.phase = "over" /\ q.form = r.form /\ q.result = result
           /\ q.wrote = r.wrote /\ q.unit = 0 /\ q.item = NoItem
    BY <1>1, OverFields, Zenon
  <2> QED
    BY <2>1
<1>3. ASSUME NEW q, requests' = [requests EXCEPT ![c] = q]
      PROVE  q.wrote
  BY <1>3 DEF GInv
<1>4. CASE WriteItem(c)
  <2>1. CASE \E result \in Result : requests' = [requests EXCEPT ![c] = Over(r, result)]
    BY <1>1, <1>2, <1>3, <2>1
  <2>2. CASE r.form.kind \in {"check", "edit"} /\ items' = [items EXCEPT ![r.form.item] = Write(r)]
    BY <1>1, <2>2
  <2> QED
    BY <1>4, <2>1, <2>2, RefusalResults DEF WriteItem
<1>5. ASSUME NEW d \in Client, d # c, Step(d)
      PROVE  requests'[c].wrote = r.wrote
  <2>1. CASE \E q : requests' = [requests EXCEPT ![d] = q]
    BY <1>5, <2>1 DEF GInv
  <2>2. CASE \E table, q : requests' = Noticed(table, d, q)
    <3>1. PICK table, q : requests' = Noticed(table, d, q)
      BY <2>2
    <3>2. Noticed(table, d, q)[c].wrote = requests[c].wrote
      BY <1>5, NoticedFields
    <3> QED
      BY <3>1, <3>2
  <2>3. \/ \E q : requests' = [requests EXCEPT ![d] = q]
        \/ \E table, q : requests' = Noticed(table, d, q)
    <3>1. CASE ReadItem(d) \/ LoadPage(d)
      BY <3>1 DEF ReadItem, LoadPage
    <3>2. CASE SearchIngredient(d)
      BY <3>2, Zenon DEF SearchIngredient
    <3>3. CASE CreateIngredient(d)
      BY <3>3, Zenon DEF CreateIngredient
    <3>4. CASE WriteItem(d)
      BY <3>4, Zenon DEF WriteItem
    <3> QED
      BY <1>5, <3>1, <3>2, <3>3, <3>4 DEF Step
  <2> QED
    BY <2>1, <2>2, <2>3
<1>6. ASSUME NEW d \in Client, NEW f \in Form, Begin(d, f)
      PROVE  requests'[c].wrote = r.wrote
  <2>1. d # c /\ \E q : requests' = [requests EXCEPT ![d] = q]
    BY <1>6 DEF Begin
  <2> QED
    BY <2>1 DEF GInv
<1>7. ASSUME NEW i \in DOMAIN items, NEW item, ChangeElsewhere(i, item)
      PROVE  requests'[c].wrote = r.wrote
  <2>1. requests' = Noticed([items EXCEPT ![i] = item], "none", Idle)
    BY <1>7 DEF ChangeElsewhere
  <2>2. CASE c = "none"
    <3>1. requests'[c] = Idle
      BY <2>1, <2>2 DEF Noticed
    <3>2. ~ Idle.wrote
      BY DEF Idle
    <3> QED
      BY <1>1, <3>1, <3>2
  <2>3. CASE c # "none"
    BY <2>1, <2>3, NoticedFields
  <2> QED
    BY <2>2, <2>3
<1>8. CASE \/ \E kind \in Kind, name \in Spelling : IngredientElsewhere(kind, name)
           \/ UNCHANGED vars
  BY <1>1, <1>8 DEF IngredientElsewhere, vars
<1>9. Step(c) => WriteItem(c)
  BY DEF Step, ReadItem, SearchIngredient, CreateIngredient, LoadPage
<1> QED
  BY <1>1, <1>4, <1>5, <1>6, <1>7, <1>8, <1>9 DEF Next

\* A form changes what it sends and nothing else: an update undoes no more than what others
\* write between its reading of the item and its writing (UpdateGroceryItem).
THEOREM OnlyOverlappingUpdatesLost == Spec => OnlyOverlappingUpdatesAreLost
<1>1. ASSUME GInv, [Next]_vars, NEW c \in Client, requests[c].phase = "write",
             requests[c].form.kind \in {"check", "edit"}, requests'[c].wrote
      PROVE  LET r == requests[c]
                 i == r.form.item
             IN /\ r.form.kind = "check" => items'[i].checked = r.form.checked
                /\ r.form.kind = "edit" => /\ items'[i].text = r.form.text
                                          /\ NameOf(items'[i].unit) = Folded(r.form.unit)
                /\ \/ r.overtaken
                   \/ /\ items'[i].position = items[i].position
                      /\ r.form.kind = "edit" => items'[i].checked = items[i].checked
                      /\ r.form.kind = "check" => /\ items'[i].text = items[i].text
                                                 /\ items'[i].unit = items[i].unit
  <2> DEFINE r == requests[c]
             i == r.form.item
  <2>1. i \in DOMAIN items /\ items' = [items EXCEPT ![i] = Write(r)]
    BY <1>1, WritesItself, Zenon
  <2>2. items'[i] = Write(r)
    BY <2>1
  <2>3. Knows(r, items, catalog)
    BY <1>1 DEF GInv, RequestOk
  <2> HIDE DEF r
  <2>4. /\ Write(r).unit = r.unit /\ Write(r).position = r.item.position
        /\ r.form.kind = "edit" => Write(r).text = r.form.text
        /\ r.form.kind = "check" => Write(r).text = r.item.text
    BY DEF Write
  <2>5. /\ r.form.kind = "check" => Write(r).checked = r.form.checked
        /\ r.form.kind = "edit" => Write(r).checked = r.item.checked
    BY DEF Write
  <2>6. r.form.kind = "edit" => NameOf(r.unit) = Folded(r.form.unit)
    BY <1>1, <2>3 DEF Knows, NameOf, NameIn, r
  <2>7. r.form.kind = "check" => r.unit = r.item.unit
    BY <1>1, <2>3 DEF Knows, r
  <2>8. r.overtaken \/ items[i] = r.item
    BY <1>1, <2>3, Zenon DEF Knows, r
  <2>9. r.overtaken \/ /\ items'[i].position = items[i].position
                       /\ r.form.kind = "edit" => items'[i].checked = items[i].checked
                       /\ r.form.kind = "check" => /\ items'[i].text = items[i].text
                                                  /\ items'[i].unit = items[i].unit
    BY <2>2, <2>4, <2>5, <2>7, <2>8, Zenon
  <2>10. /\ r.form.kind = "check" => items'[i].checked = r.form.checked
         /\ r.form.kind = "edit" => /\ items'[i].text = r.form.text
                                   /\ NameOf(items'[i].unit) = Folded(r.form.unit)
    BY <2>2, <2>4, <2>5, <2>6, Zenon
  <2> QED
    BY <2>9, <2>10, Zenon DEF r
<1>2. GInv /\ [Next]_vars =>
        [\A c \in Client :
           LET r == requests[c]
               i == r.form.item
           IN r.phase = "write" /\ r.form.kind \in {"check", "edit"} /\ requests'[c].wrote =>
                /\ r.form.kind = "check" => items'[i].checked = r.form.checked
                /\ r.form.kind = "edit" => /\ items'[i].text = r.form.text
                                          /\ NameOf(items'[i].unit) = Folded(r.form.unit)
                /\ \/ r.overtaken
                   \/ /\ items'[i].position = items[i].position
                      /\ r.form.kind = "edit" => items'[i].checked = items[i].checked
                      /\ r.form.kind = "check" => /\ items'[i].text = items[i].text
                                                 /\ items'[i].unit = items[i].unit]_vars
  BY <1>1, Zenon
<1> QED
  BY <1>2, GroceryInvariance, PTL DEF Spec, OnlyOverlappingUpdatesAreLost

\* A food or unit is made a second time only when the first was made after the search, or
\* was not on the page that the search returned (resolveIngredient).
THEOREM IngredientsMadeOnce == Spec => OneOfEachName
<1>1. ASSUME GInv, [Next]_vars, NEW c \in Client, requests[c].phase = "create",
             NEW k \in DOMAIN catalog,
             FoldOf[catalog[k].name] = FoldOf[Head(requests[c].todo).name]
      PROVE  k \notin requests[c].found
  <2>1. Knows(requests[c], items, catalog) /\ catalog \in Seq(Ingredient)
    BY <1>1 DEF GInv, RequestOk, Names
  <2>2. LET todo == requests[c].todo
        IN /\ todo \in Seq(Ingredient) /\ todo # <<>> /\ Head(todo) \in Ingredient
           /\ Tail(todo) \in Seq(Ingredient)
           /\ Len(todo) # 1 => Tail(todo) # <<>>
    BY <1>1, NextToFind
  <2>3. Head(requests[c].todo) \in Ingredient /\ catalog[k] \in Ingredient
    BY <1>1, <2>1, <2>2
  <2>4. \A ingredient \in Ingredient : Folded(ingredient.name) = FoldOf[ingredient.name]
    <3> SUFFICES ASSUME NEW ingredient \in Ingredient
                 PROVE  Folded(ingredient.name) = FoldOf[ingredient.name]
      OBVIOUS
    <3>1. ingredient.name # ""
      BY NameTypes DEF Ingredient
    <3> QED
      BY <3>1 DEF Folded
  <2>5. SameName(catalog[k].name, Head(requests[c].todo).name)
    BY <1>1, <2>3, <2>4, Zenon DEF SameName
  <2> QED
    BY <1>1, <2>1, <2>5 DEF Knows
<1>2. GInv /\ [Next]_vars =>
        [\A c \in Client :
           LET r == requests[c]
           IN r.phase = "create" /\ catalog' # catalog /\ requests'[c] # r =>
                \A k \in DOMAIN catalog :
                  /\ catalog[k].kind = Head(r.todo).kind
                  /\ FoldOf[catalog[k].name] = FoldOf[Head(r.todo).name]
                  => k > r.searched \/ k \notin r.found]_vars
  BY <1>1, Zenon
<1> QED
  BY <1>2, GroceryInvariance, PTL DEF Spec, OneOfEachName

-----------------------------------------------------------------------------
(* The order of the list. *)

Present(t) == {i \in DOMAIN t : t[i] # NoItem}

Precedes(t, i, j) ==
  \/ t[i].position < t[j].position
  \/ t[i].position = t[j].position /\ i < j

\* How many items come before one.
Rank(t, i) == Cardinality({j \in Present(t) : Precedes(t, j, i)})

\* The items of t in their order.
InOrder(t, l) ==
  /\ DOMAIN l = 1..Cardinality(Present(t))
  /\ \A k \in DOMAIN l : l[k] \in Present(t) /\ Rank(t, l[k]) = k - 1

Table == Seq(ItemType \cup {NoItem})

LEMMA PlacesCounted ==
  ASSUME NEW n \in Nat
  PROVE  IsFiniteSet(1..n) /\ Cardinality(1..n) = n
BY FS_Interval

LEMMA PresentItems ==
  ASSUME NEW t \in Table
  PROVE  /\ Present(t) \in SUBSET Nat /\ IsFiniteSet(Present(t))
         /\ Cardinality(Present(t)) \in Nat
         /\ \A i \in Present(t) : t[i] \in ItemType /\ t[i].position \in Nat
<1>1. Present(t) \in SUBSET (1..Len(t)) /\ Len(t) \in Nat
  BY DEF Present, Table
<1>2. IsFiniteSet(1..Len(t))
  BY <1>1, FS_Interval
<1>3. \A i \in Present(t) : t[i] \in ItemType
  BY DEF Present, Table
<1>4. IsFiniteSet(Present(t))
  BY <1>1, <1>2, FS_Subset
<1>5. Cardinality(Present(t)) \in Nat
  BY <1>4, FS_CardinalityType
<1>6. Present(t) \in SUBSET Nat
  BY <1>1
<1>7. \A item \in ItemType : item.position \in Nat
  BY DEF ItemType
<1> QED
  BY <1>3, <1>4, <1>5, <1>6, <1>7

\* Every rank below the number of items is that of exactly one.
LEMMA Ranks ==
  ASSUME NEW t \in Table
  PROVE  /\ \A i \in Present(t) : Rank(t, i) \in 0..(Cardinality(Present(t)) - 1)
         /\ \A i, j \in Present(t) : Rank(t, i) = Rank(t, j) => i = j
         /\ \A k \in 1..Cardinality(Present(t)) : \E i \in Present(t) : Rank(t, i) = k - 1
<1> DEFINE S == Present(t)
           n == Cardinality(S)
           before(i) == {j \in S : Precedes(t, j, i)}
           rank == [i \in S |-> Rank(t, i)]
<1>1. /\ S \in SUBSET Nat /\ IsFiniteSet(S) /\ n \in Nat
      /\ \A i \in S : t[i].position \in Nat
  BY PresentItems
<1>2. \A i \in S : before(i) \in SUBSET S /\ i \notin before(i)
  BY <1>1 DEF Precedes
<1>3. ASSUME NEW i \in S, NEW j \in S, Precedes(t, i, j)
      PROVE  Rank(t, i) < Rank(t, j)
  <2>1. before(i) \in SUBSET before(j)
    BY <1>1, <1>3 DEF Precedes
  <2>2. i \in before(j) /\ i \notin before(i)
    BY <1>2, <1>3
  <2>3. IsFiniteSet(before(i)) /\ IsFiniteSet(before(j))
    BY <1>1, <1>2, FS_Subset
  <2>4. before(i) # before(j)
    BY <2>2
  <2> HIDE DEF before
  <2>5. /\ Cardinality(before(i)) \in Nat /\ Cardinality(before(j)) \in Nat
        /\ Cardinality(before(i)) <= Cardinality(before(j))
        /\ Cardinality(before(i)) # Cardinality(before(j))
    BY <2>1, <2>3, <2>4, FS_Subset, FS_CardinalityType
  <2> QED
    BY <2>5 DEF Rank, before
<1>4. ASSUME NEW i \in S PROVE Rank(t, i) \in 0..(n - 1)
  <2>1. before(i) \in SUBSET S /\ before(i) # S
    BY <1>2
  <2> HIDE DEF before
  <2>2. /\ Cardinality(before(i)) \in Nat /\ Cardinality(before(i)) <= n
        /\ Cardinality(before(i)) # n
    BY <1>1, <2>1, FS_Subset, FS_CardinalityType
  <2>3. Cardinality(before(i)) \in 0..(n - 1)
    BY <1>1, <2>2
  <2> QED
    BY <2>3 DEF Rank, before
<1>5. ASSUME NEW i \in S, NEW j \in S, Rank(t, i) = Rank(t, j) PROVE i = j
  <2>1. i # j => Precedes(t, i, j) \/ Precedes(t, j, i)
    BY <1>1 DEF Precedes
  <2>2. Rank(t, i) \in Int
    BY <1>4, <1>1
  <2> QED
    BY <1>3, <1>5, <2>1, <2>2
<1>6. rank \in Surjection(S, 0..(n - 1))
  <2>1. rank \in Injection(S, 0..(n - 1))
    BY <1>4, <1>5 DEF Injection, IsInjective
  <2>2. /\ IsFiniteSet(0..(n - 1))
        /\ Cardinality(0..(n - 1)) = n
    BY <1>1, FS_Interval
  <2> HIDE DEF rank, S, n
  <2>3. Cardinality(S) = Cardinality(0..(n - 1))
    BY <2>2 DEF n
  <2> QED
    BY <2>1, <2>2, <2>3, FS_Injection
<1>7. \A k \in 1..n : \E i \in S : Rank(t, i) = k - 1
  <2> SUFFICES ASSUME NEW k \in 1..n PROVE \E i \in S : Rank(t, i) = k - 1
    OBVIOUS
  <2>1. k - 1 \in 0..(n - 1)
    BY <1>1
  <2>2. \A m \in 0..(n - 1) : \E i \in S : rank[i] = m
    BY <1>6 DEF Surjection
  <2> HIDE DEF n
  <2> QED
    BY <2>1, <2>2
<1> QED
  BY <1>4, <1>5, <1>7

LEMMA ListInOrder ==
  ASSUME NEW t \in Table, NEW l,
         l = [k \in 1..Cardinality(Present(t)) |-> CHOOSE i \in Present(t) : Rank(t, i) = k - 1]
  PROVE  InOrder(t, l)
BY Ranks DEF InOrder

\* Two lists of the same items in the same places are the same.
LEMMA SameOrder ==
  ASSUME NEW t \in Table, NEW s \in Table, NEW l, NEW m, InOrder(t, l), InOrder(s, m),
         Present(s) = Present(t),
         \A i \in Present(t) : s[i].position = t[i].position
  PROVE  DOMAIN m = DOMAIN l /\ \A k \in DOMAIN l : m[k] = l[k]
<1>1. \A i \in Present(t) : Rank(s, i) = Rank(t, i)
  <2> SUFFICES ASSUME NEW i \in Present(t) PROVE Rank(s, i) = Rank(t, i)
    OBVIOUS
  <2>1. {j \in Present(s) : Precedes(s, j, i)} = {j \in Present(t) : Precedes(t, j, i)}
    BY DEF Precedes
  <2> QED
    BY <2>1 DEF Rank
<1>2. \A k \in DOMAIN l : m[k] \in Present(t) /\ Rank(t, m[k]) = Rank(t, l[k])
  BY <1>1 DEF InOrder
<1> QED
  BY <1>2, Ranks DEF InOrder

\* A list has each of its items once.
LEMMA ListsEach ==
  ASSUME NEW t \in Table, NEW l, InOrder(t, l)
  PROVE  {l[k] : k \in DOMAIN l} = Present(t)
<1>1. ASSUME NEW i \in Present(t) PROVE \E k \in DOMAIN l : l[k] = i
  <2>1. Rank(t, i) + 1 \in 1..Cardinality(Present(t))
    BY Ranks, PresentItems
  <2>2. PICK k \in DOMAIN l : k = Rank(t, i) + 1
    BY <2>1 DEF InOrder
  <2>3. l[k] \in Present(t) /\ Rank(t, l[k]) = Rank(t, i)
    <3>1. Rank(t, i) \in Int
      BY Ranks, PresentItems
    <3>2. l[k] \in Present(t) /\ Rank(t, l[k]) = k - 1
      BY DEF InOrder
    <3> QED
      BY <2>2, <3>1, <3>2
  <2> QED
    BY <2>3, Ranks
<1> QED
  BY <1>1 DEF InOrder

LEMMA ListedInOrder ==
  ASSUME items \in Table
  PROVE  Ids = Present(items) /\ InOrder(items, Listed)
<1>1. Ids = Present(items)
  BY DEF Ids, Present
<1>2. \A i : {j \in Ids : Before(j, i)} = {j \in Present(items) : Precedes(items, j, i)}
  BY <1>1 DEF Before, Precedes
<1>3. Listed = [k \in 1..Cardinality(Present(items)) |->
                  CHOOSE i \in Present(items) : Rank(items, i) = k - 1]
  BY <1>1 DEF Listed, Rank, Before, Precedes
<1> QED
  BY <1>1, <1>3, ListInOrder


-----------------------------------------------------------------------------
(* The list as a request reads it. *)

Seen == [id: Nat, item: ItemType]

\* How many items the pages up to one have.
Covered(page, n) == IF page * PerPage < n THEN page * PerPage ELSE n

\* A request that reads a list, undisturbed, has read its first items, and all when it
\* is over.
ListOk(q, t, list) ==
  /\ q.page \in Nat /\ q.seen \in Seq(Seen)
  /\ q.phase = "load" => q.page > 0
  /\ q.phase \in {"load", "over"} /\ q.page > 0 /\ ~ q.disturbed =>
       /\ Len(q.seen) = IF q.phase = "over" THEN Cardinality(Present(t))
                        ELSE Covered(q.page - 1, Cardinality(Present(t)))
       /\ \A k \in 1..Len(q.seen) : q.seen[k].id = list[k]

ListInv == \A c \in Client : ListOk(requests[c], items, Listed)

\* A request that has read nothing of the list yet.
Unread(q) ==
  /\ q.page \in Nat /\ q.seen \in Seq(Seen)
  /\ \/ q.phase \notin {"load", "over"}
     \/ q.phase = "over" /\ q.page = 0
     \/ q.phase = "load" /\ q.page = 1 /\ q.seen = <<>>

LEMMA UnreadOk ==
  ASSUME NEW q, Unread(q), NEW t \in Table, NEW list
  PROVE  ListOk(q, t, list)
<1>1. PerPage \in Nat /\ Cardinality(Present(t)) \in Nat
  BY GroceryAssumption, PresentItems
<1>2. Covered(0, Cardinality(Present(t))) = 0
  BY <1>1 DEF Covered
<1>3. CASE q.phase = "load" /\ q.page = 1 /\ q.seen = <<>>
  BY <1>2, <1>3 DEF ListOk
<1> QED
  BY <1>3 DEF ListOk, Unread

LEMMA OverUnread ==
  ASSUME NEW r, NEW result
  PROVE  Unread(Over(r, result)) /\ Unread(Loading(r, result))
<1>1. PICK q : q = Over(r, result)
  OBVIOUS
<1>2. q = [phase |-> "over", form |-> r.form, item |-> NoItem, todo |-> <<>>, unit |-> 0,
           page |-> 0, seen |-> <<>>, result |-> result, searched |-> 0, found |-> {},
           overtaken |-> FALSE, disturbed |-> FALSE, wrote |-> r.wrote]
  BY <1>1 DEF Over, Idle
<1>3. PICK p : p = Loading(r, result)
  OBVIOUS
<1>4. p = [q EXCEPT !.phase = "load", !.page = 1]
  BY <1>1, <1>3 DEF Loading
<1>5. q.page = 0 /\ q.phase = "over" /\ q.seen = <<>>
  BY <1>2
<1>6. p.page = 1 /\ p.phase = "load" /\ p.seen = <<>>
  BY <1>2, <1>4
<1> QED
  BY <1>1, <1>3, <1>5, <1>6 DEF Unread

\* A request at work on an item, with whatever it has found.
LEMMA AtWorkUnread ==
  ASSUME NEW r, NEW q, r.page \in Nat, r.seen \in Seq(Seen),
         q.phase \in {"idle", "read", "search", "create", "write"},
         q.page = r.page, q.seen = r.seen
  PROVE  Unread(q)
BY DEF Unread

LEMMA ItemsTable == GInv => items \in Table
BY DEF GInv, Items, Table

LEMMA ReadItemReads ==
  ASSUME GInv, ListInv, NEW c \in Client, ReadItem(c)
  PROVE  \E q : requests' = [requests EXCEPT ![c] = q] /\ Unread(q)
<1> DEFINE r == requests[c]
           item == items[r.form.item]
           read == [r EXCEPT !.item = item, !.unit = item.unit, !.phase = "write"]
<1>1. IsRequest(r) /\ r.page \in Nat /\ r.seen \in Seq(Seen)
  BY DEF GInv, RequestOk, ListInv, ListOk
<1>2. \E result : requests' = [requests EXCEPT ![c] = Over(r, result)]
      \/ requests' = [requests EXCEPT ![c] = WithItem(r, item)]
  BY Zenon DEF ReadItem
<1>3. Unread(WithItem(r, item))
  <2>1. read.page = r.page /\ read.seen = r.seen /\ read.phase = "write"
    BY <1>1 DEF IsRequest
  <2> HIDE DEF read, r
  <2>2. Unread(read)
    BY <1>1, <2>1, AtWorkUnread
  <2>3. \A result : Unread(Over(r, result))
    BY OverUnread
  <2>4. ASSUME NEW q, q = [read EXCEPT !.unit = 0]
                   \/ \E todo : q = [read EXCEPT !.unit = 0, !.phase = "search", !.todo = todo]
        PROVE  Unread(q)
    <3>1. q.page = r.page /\ q.seen = r.seen /\ q.phase \in {"write", "search"}
      BY <1>1, <2>1, <2>4 DEF IsRequest, read
    <3> QED
      BY <1>1, <3>1, AtWorkUnread
  <2> QED
    BY <2>2, <2>3, <2>4 DEF WithItem, read
<1> QED
  BY <1>2, <1>3, OverUnread

LEMMA ResolvedUnread ==
  ASSUME NEW r, IsRequest(r), r.page \in Nat, r.seen \in Seq(Seen), NEW k
  PROVE  Unread(Resolved(r, k))
<1>1. PICK q : q = Resolved(r, k)
  OBVIOUS
<1>2. q.page = r.page /\ q.seen = r.seen /\ q.phase \in {"write", "search"}
  BY <1>1 DEF IsRequest, Resolved
<1> QED
  BY <1>1, <1>2, AtWorkUnread

LEMMA SearchReads ==
  ASSUME GInv, ListInv, NEW c \in Client, SearchIngredient(c) \/ CreateIngredient(c)
  PROVE  \E q : requests' = [requests EXCEPT ![c] = q] /\ Unread(q)
<1> DEFINE r == requests[c]
<1>1. IsRequest(r) /\ r.page \in Nat /\ r.seen \in Seq(Seen)
  BY DEF GInv, RequestOk, ListInv, ListOk
<1>2. ASSUME NEW found, NEW searched
      PROVE  Unread([r EXCEPT !.phase = "create", !.found = found, !.searched = searched])
  <2>1. PICK q : q = [r EXCEPT !.phase = "create", !.found = found, !.searched = searched]
    OBVIOUS
  <2>2. q.page = r.page /\ q.seen = r.seen /\ q.phase = "create"
    BY <1>1, <2>1 DEF IsRequest
  <2> QED
    BY <1>1, <2>1, <2>2, AtWorkUnread
<1>3. CASE SearchIngredient(c)
  <2>1. \/ \E k : requests' = [requests EXCEPT ![c] = Resolved(r, k)]
        \/ \E found, searched : requests' = [requests EXCEPT ![c] =
             [r EXCEPT !.phase = "create", !.found = found, !.searched = searched]]
        \/ \E result : requests' = [requests EXCEPT ![c] = Over(r, result)]
    BY <1>3, Zenon DEF SearchIngredient
  <2> QED
    BY <1>1, <1>2, <2>1, ResolvedUnread, OverUnread
<1>4. CASE CreateIngredient(c)
  <2>1. \/ \E k : requests' = [requests EXCEPT ![c] = Resolved(r, k)]
        \/ \E result : requests' = [requests EXCEPT ![c] = Over(r, result)]
    BY <1>4 DEF CreateIngredient
  <2> QED
    BY <1>1, <2>1, ResolvedUnread, OverUnread
<1> QED
  BY <1>3, <1>4

LEMMA BeginReads ==
  ASSUME GInv, ListInv, NEW c \in Client, NEW f \in Form, Begin(c, f)
  PROVE  \E q : requests' = [requests EXCEPT ![c] = q] /\ Unread(q)
<1>1. PICK r : r = [Idle EXCEPT !.form = f]
  OBVIOUS
<1>2. r = [phase |-> "idle", form |-> f, item |-> NoItem, todo |-> <<>>,
           unit |-> 0, page |-> 0, seen |-> <<>>, result |-> "none",
           searched |-> 0, found |-> {}, overtaken |-> FALSE, disturbed |-> FALSE,
           wrote |-> FALSE]
  BY <1>1 DEF Idle
<1>3. PICK todo : requests' = [requests EXCEPT ![c] =
          CASE f.kind = "view" -> Loading(r, "none")
            [] f.kind \in {"check", "edit"} -> [r EXCEPT !.phase = "read"]
            [] f.kind = "delete" -> [r EXCEPT !.phase = "write"]
            [] f.kind = "create" /\ Refused(f) -> Over(r, "invalid")
            [] OTHER -> [r EXCEPT !.phase = "search", !.todo = todo]]
  BY <1>1, Zenon DEF Begin
<1>4. ASSUME NEW q, \E phase \in {"read", "write"} : q = [r EXCEPT !.phase = phase]
                 \/ q = [r EXCEPT !.phase = "search", !.todo = todo]
      PROVE  Unread(q)
  <2>1. q.page = 0 /\ q.seen = <<>> /\ q.phase \in {"read", "write", "search"}
    BY <1>2, <1>4
  <2> QED
    BY <2>1 DEF Unread
<1>5. f.kind \in {"create", "check", "edit", "delete", "view"}
  BY FormFields
<1>6. \A result : Unread(Over(r, result)) /\ Unread(Loading(r, result))
  BY OverUnread
<1> QED
  BY <1>3, <1>4, <1>5, <1>6


\* Pages cover the list one after another, and the last one ends it.
LEMMA PagesCover ==
  ASSUME NEW page \in Nat, page > 0, NEW n \in Nat
  PROVE  /\ Covered(page, n) \in Nat /\ Covered(page - 1, n) \in Nat
         /\ Covered(page - 1, n) <= Covered(page, n) /\ Covered(page, n) <= n
         /\ (n + PerPage - 1) \div PerPage <= page => Covered(page, n) = n
         /\ (page - 1) * PerPage < n => Covered(page - 1, n) = (page - 1) * PerPage
         /\ ~ ((page - 1) * PerPage < n) => Covered(page - 1, n) = n /\ Covered(page, n) = n
<1>1. PerPage \in Nat /\ PerPage > 0
  BY GroceryAssumption
<1>2. page * PerPage = (page - 1) * PerPage + PerPage /\ page * PerPage \in Nat
      /\ (page - 1) * PerPage \in Nat
  BY <1>1
<1> DEFINE full == page * PerPage
           some == (page - 1) * PerPage
           pages == (n + PerPage - 1) \div PerPage
<1>3. pages <= page => n <= full
  <2>1. pages \in Int /\ n + PerPage - 1 < pages * PerPage + PerPage
    BY <1>1
  <2>2. pages <= page => pages * PerPage <= full
    BY <1>1, <2>1
  <2>3. pages * PerPage \in Int
    BY <1>1, <2>1
  <2> HIDE DEF pages, full
  <2> QED
    BY <1>1, <1>2, <2>1, <2>2, <2>3 DEF full
<1> HIDE DEF full, some, pages
<1>4. /\ Covered(page, n) = IF full < n THEN full ELSE n
      /\ Covered(page - 1, n) = IF some < n THEN some ELSE n
  BY DEF Covered, full, some
<1>5. full = some + PerPage /\ full \in Nat /\ some \in Nat
  BY <1>2 DEF full, some
<1> QED
  BY <1>1, <1>3, <1>4, <1>5 DEF full, some, pages

LEMMA After ==
  ASSUME NEW a \in Nat, NEW b \in Nat, NEW n, n = a + b, NEW k \in 1..n, ~ (k <= a)
  PROVE  k - a \in 1..b /\ k = a + (k - a)
OBVIOUS

LEMMA FewPages ==
  ASSUME NEW n \in Nat
  PROVE  (n + PerPage - 1) \div PerPage \in Int /\ (n + PerPage - 1) \div PerPage <= n
<1>1. PerPage \in Nat /\ PerPage > 0
  BY GroceryAssumption
<1> DEFINE pages == (n + PerPage - 1) \div PerPage
<1>2. pages \in Int /\ pages * PerPage <= n + PerPage - 1
  BY <1>1
<1>3. ASSUME n < pages PROVE FALSE
  <2>1. (n + 1) * PerPage <= pages * PerPage
    BY <1>1, <1>2, <1>3
  <2>2. (n + 1) * PerPage = n * PerPage + PerPage /\ n <= n * PerPage
    BY <1>1
  <2>3. n * PerPage \in Nat /\ pages * PerPage \in Int
    BY <1>1, <1>2
  <2> HIDE DEF pages
  <2> QED
    BY <1>1, <1>2, <2>1, <2>2, <2>3
<1> QED
  BY <1>2, <1>3

\* One page of the list is what comes after the pages before it.
LEMMA PageInOrder ==
  ASSUME GInv, NEW page \in Nat, page > 0
  PROVE  LET n == Cardinality(Present(items))
             p == PageOf(page)
         IN /\ p \in Seq(Seen)
            /\ Covered(page - 1, n) + Len(p) = Covered(page, n)
            /\ \A k \in 1..Len(p) : p[k].id = Listed[Covered(page - 1, n) + k]
<1> DEFINE n == Cardinality(Present(items))
           first == (page - 1) * PerPage
           last == IF first + PerPage < n THEN first + PerPage ELSE n
<1>1. items \in Table /\ InOrder(items, Listed)
  BY ItemsTable, ListedInOrder
<1>2. n \in Nat /\ DOMAIN Listed = 1..n /\ Len(Listed) = n
  <2>1. n \in Nat /\ DOMAIN Listed = 1..n
    BY <1>1, PresentItems DEF InOrder
  <2>2. Listed = [k \in 1..n |-> Listed[k]] /\ \A k \in 1..n : Listed[k] \in Present(items)
    <3>1. Listed = [k \in DOMAIN Listed |-> Listed[k]]
      BY DEF Listed
    <3> QED
      BY <1>1, <2>1, <3>1 DEF InOrder
  <2> QED
    BY <2>1, <2>2
<1>3. PerPage \in Nat /\ PerPage > 0 /\ first \in Nat /\ page * PerPage = first + PerPage
  <2>1. PerPage \in Nat /\ PerPage > 0
    BY GroceryAssumption
  <2> QED
    BY <2>1
<1>4. PageOf(page) = [k \in 1..(last - first) |->
                        [id |-> Listed[first + k], item |-> items[Listed[first + k]]]]
  BY <1>2 DEF PageOf
<1>5. last \in Nat /\ Covered(page, n) = last
      /\ Covered(page - 1, n) = IF first < n THEN first ELSE n
  BY <1>2, <1>3 DEF Covered
<1> HIDE DEF n, first, last
<1>6. ASSUME NEW k \in 1..(last - first)
      PROVE  [id |-> Listed[first + k], item |-> items[Listed[first + k]]] \in Seen
  <2>1. first + k \in DOMAIN Listed
    BY <1>2, <1>3, <1>5 DEF last
  <2>2. Listed[first + k] \in Present(items)
    BY <1>1, <2>1 DEF InOrder
  <2> QED
    BY <1>1, <2>2, PresentItems DEF Seen
<1>7. CASE first < last
  <2>1. last - first \in Nat /\ first < n /\ last <= n
    BY <1>2, <1>3, <1>5, <1>7 DEF last
  <2>2. PageOf(page) \in Seq(Seen) /\ Len(PageOf(page)) = last - first
    BY <1>4, <1>6, <2>1
  <2>3. Covered(page - 1, n) = first
    BY <1>5, <2>1
  <2>4. \A k \in 1..Len(PageOf(page)) : PageOf(page)[k].id = Listed[first + k]
    <3>1. Len(PageOf(page)) = last - first
      BY <2>2
    <3> SUFFICES ASSUME NEW k \in 1..(last - first)
                 PROVE  PageOf(page)[k].id = Listed[first + k]
      BY <3>1
    <3>2. PageOf(page)[k] = [id |-> Listed[first + k], item |-> items[Listed[first + k]]]
      BY <1>4, Zenon
    <3> QED
      BY <3>2
  <2>5. Covered(page - 1, n) + Len(PageOf(page)) = Covered(page, n)
    BY <1>3, <1>5, <2>1, <2>2, <2>3
  <2> QED
    BY <2>2, <2>3, <2>4, <2>5 DEF n
<1>8. CASE ~ (first < last)
  <2>1. last = n /\ ~ (first < n)
    BY <1>2, <1>3, <1>5, <1>8 DEF last
  <2>2. 1..(last - first) = {}
    BY <1>3, <1>5, <1>8
  <2>3. PageOf(page) = <<>>
    BY <1>4, <2>2
  <2> QED
    BY <1>2, <1>5, <2>1, <2>3 DEF n
<1> QED
  BY <1>7, <1>8

LenInv == Len(items) <= MaxItem

\* There are no more items than the bound allows.
LEMMA LenNext == GInv /\ LenInv /\ [Next]_vars => LenInv'
<1> SUFFICES ASSUME GInv, LenInv, [Next]_vars PROVE LenInv'
  OBVIOUS
<1>1. items \in Table /\ MaxItem \in Nat
  BY ItemsTable, BoundTypes
<1>2. \A i, item : Len([items EXCEPT ![i] = item]) = Len(items)
  BY <1>1 DEF Table
<1>3. \A item : Len(items) < MaxItem => Len(Append(items, item)) <= MaxItem
  BY <1>1 DEF Table
<1>4. ASSUME NEW c \in Client, WriteItem(c) PROVE LenInv'
  <2>1. \/ items' = items
        \/ \E i, item : items' = [items EXCEPT ![i] = item]
        \/ \E item : Len(items) < MaxItem /\ items' = Append(items, item)
    BY <1>4, Zenon DEF WriteItem
  <2> QED
    BY <1>2, <1>3, <2>1 DEF LenInv
<1>5. CASE UNCHANGED items
  BY <1>5 DEF LenInv
<1>6. ASSUME NEW i, NEW item, ChangeElsewhere(i, item) PROVE LenInv'
  BY <1>2, <1>6 DEF ChangeElsewhere, LenInv
<1> QED
  BY <1>4, <1>5, <1>6
  DEF Next, Step, ReadItem, SearchIngredient, CreateIngredient, LoadPage, Begin,
      IngredientElsewhere, vars

LEMMA LenInvariance == Spec => []LenInv
<1>1. Init => LenInv
  BY GroceryAssumption DEF Init, LenInv
<1> QED
  BY <1>1, LenNext, GroceryInvariance, PTL DEF Spec

\* No more of them are there.
LEMMA FewItems ==
  ASSUME GInv, LenInv
  PROVE  Cardinality(Present(items)) <= MaxItem
<1>1. items \in Table /\ Len(items) \in Nat /\ MaxItem \in Nat
  BY ItemsTable, BoundTypes DEF Table
<1>2. Present(items) \in SUBSET (1..Len(items))
  BY <1>1 DEF Present, Table
<1>3. IsFiniteSet(1..Len(items)) /\ Cardinality(1..Len(items)) = Len(items)
  BY <1>1, PlacesCounted
<1>4. Cardinality(Present(items)) <= Len(items)
  BY <1>2, <1>3, FS_Subset
<1> QED
  BY <1>1, <1>4, PresentItems DEF LenInv

LEMMA LoadPageReads ==
  ASSUME GInv, ListInv, LenInv, NEW c \in Client, LoadPage(c)
  PROVE  \E q : /\ requests' = [requests EXCEPT ![c] = q]
                /\ ListOk(q, items, Listed)
<1> DEFINE r == requests[c]
           n == Cardinality(Present(items))
           seen == r.seen \o PageOf(r.page)
           page == IF r.page < MaxItem + 2 THEN r.page + 1 ELSE MaxItem + 1
<1>1. /\ IsRequest(r) /\ ListOk(r, items, Listed) /\ r.phase = "load"
      /\ r.page \in Nat /\ r.page > 0 /\ r.seen \in Seq(Seen)
  BY DEF GInv, RequestOk, ListInv, ListOk, LoadPage
<1>2. items \in Table /\ n \in Nat /\ n = Cardinality(Ids) /\ MaxItem \in Nat
  BY ItemsTable, ListedInOrder, PresentItems, BoundTypes
<1>3. n <= MaxItem
  BY FewItems
<1> HIDE DEF n
<1>4. /\ PageOf(r.page) \in Seq(Seen)
      /\ Covered(r.page - 1, n) + Len(PageOf(r.page)) = Covered(r.page, n)
      /\ \A k \in 1..Len(PageOf(r.page)) :
           PageOf(r.page)[k].id = Listed[Covered(r.page - 1, n) + k]
  BY <1>1, PageInOrder DEF n
<1>5. Covered(r.page, n) \in Nat /\ Covered(r.page - 1, n) \in Nat
  BY <1>1, <1>2, PagesCover
<1>6. seen \in Seq(Seen) /\ Len(seen) = Len(r.seen) + Len(PageOf(r.page))
  BY <1>1, <1>4
<1>7. ASSUME ~ r.disturbed
      PROVE  Len(seen) = Covered(r.page, n) /\ \A k \in 1..Len(seen) : seen[k].id = Listed[k]
  <2>1. Len(r.seen) = Covered(r.page - 1, n) /\ \A k \in 1..Len(r.seen) : r.seen[k].id = Listed[k]
    BY <1>1, <1>7 DEF ListOk, n
  <2>2. \A k \in 1..Len(seen) :
          seen[k] = IF k <= Len(r.seen) THEN r.seen[k] ELSE PageOf(r.page)[k - Len(r.seen)]
    BY <1>1, <1>4, <1>6
  <2>3. ASSUME NEW k \in 1..Len(seen), ~ (k <= Len(r.seen))
        PROVE  seen[k].id = Listed[k]
    <3>1. k - Len(r.seen) \in 1..Len(PageOf(r.page)) /\ k = Len(r.seen) + (k - Len(r.seen))
      <4>1. /\ Len(r.seen) \in Nat /\ Len(PageOf(r.page)) \in Nat
            /\ Len(seen) = Len(r.seen) + Len(PageOf(r.page))
        BY <1>1, <1>4, <1>6
      <4> HIDE DEF seen, r
      <4> QED
        BY <2>3, <4>1, After
    <3>2. PageOf(r.page)[k - Len(r.seen)].id = Listed[Len(r.seen) + (k - Len(r.seen))]
      BY <1>4, <2>1, <3>1
    <3> QED
      BY <2>2, <2>3, <3>1, <3>2
  <2> HIDE DEF seen
  <2>4. \A k \in 1..Len(seen) : k <= Len(r.seen) => k \in 1..Len(r.seen)
    OBVIOUS
  <2> QED
    BY <1>4, <1>6, <2>1, <2>2, <2>3, <2>4
<1> HIDE DEF seen, page
<1>8. ASSUME NEW q, q = [r EXCEPT !.phase = "over", !.seen = seen], EndsList(r.page)
      PROVE  ListOk(q, items, Listed)
  <2>1. /\ q.phase = "over" /\ q.seen = seen /\ q.page = r.page
        /\ q.disturbed = r.disturbed
    BY <1>1, <1>8 DEF IsRequest
  <2>2. TotalPages <= r.page
    <3>1. TotalPages = 0 => TotalPages <= r.page
      BY <1>1
    <3> QED
      BY <1>8, <3>1 DEF EndsList
  <2>3. Covered(r.page, n) = n
    BY <1>1, <1>2, <2>2, PagesCover DEF TotalPages
  <2> QED
    BY <1>1, <1>6, <1>7, <2>1, <2>3 DEF ListOk, n
<1>9. ASSUME NEW q, q = [r EXCEPT !.page = page, !.seen = seen], ~ EndsList(r.page)
      PROVE  ListOk(q, items, Listed)
  <2>1. /\ q.phase = "load" /\ q.seen = seen /\ q.page = page
        /\ q.disturbed = r.disturbed
    BY <1>1, <1>9 DEF IsRequest
  <2>2. page \in Nat /\ page > 0
    BY <1>1, <1>2 DEF page
  <2>3. page = r.page + 1
    <3>1. ~ (TotalPages <= r.page) /\ TotalPages = (n + PerPage - 1) \div PerPage
      BY <1>2, <1>9 DEF EndsList, TotalPages
    <3>2. (n + PerPage - 1) \div PerPage \in Int /\ (n + PerPage - 1) \div PerPage <= n
      BY <1>2, FewPages
    <3> QED
      BY <1>1, <1>2, <1>3, <3>1, <3>2 DEF page
  <2>4. Covered(q.page - 1, n) = Covered(r.page, n)
    BY <1>1, <2>1, <2>3
  <2> QED
    BY <1>1, <1>6, <1>7, <2>1, <2>2, <2>4 DEF ListOk, n
<1>10. \/ EndsList(r.page) /\ requests' = [requests EXCEPT ![c] =
              [r EXCEPT !.phase = "over", !.seen = seen]]
       \/ ~ EndsList(r.page) /\ requests' = [requests EXCEPT ![c] =
              [r EXCEPT !.page = page, !.seen = seen]]
       \/ \E result : requests' = [requests EXCEPT ![c] = Over(r, result)]
  <2>1. [r EXCEPT !.page = IF @ < MaxItem + 2 THEN @ + 1 ELSE MaxItem + 1, !.seen = seen]
          = [r EXCEPT !.page = page, !.seen = seen]
    BY <1>1 DEF IsRequest, page
  <2> QED
    BY <2>1 DEF LoadPage, seen
<1> QED
  BY <1>2, <1>8, <1>9, <1>10, OverUnread, UnreadOk


\* A step of one request that leaves the list alone.
LEMMA OneReads ==
  ASSUME ListInv, requests = [c \in Client |-> requests[c]], NEW c \in Client, NEW q,
         requests' = [requests EXCEPT ![c] = q], UNCHANGED items,
         ListOk(q, items, Listed)
  PROVE  ListInv'
<1>1. Listed' = Listed
  BY DEF Listed, Ids, Before
<1>2. \A d \in Client : requests'[d] = IF d = c THEN q ELSE requests[d]
  OBVIOUS
<1> QED
  BY <1>1, <1>2 DEF ListInv

\* A change of the list is noticed by all that have read some of it.
LEMMA NoticedReads ==
  ASSUME GInv, ListInv, NEW table \in Table, items' = table, NEW c, NEW r, Unread(r),
         requests' = Noticed(table, c, r)
  PROVE  ListInv'
<1>1. items \in Table /\ InOrder(items, Listed) /\ Ids = Present(items)
  BY ItemsTable, ListedInOrder
<1>2. InOrder(table, Listed')
  <2>1. Ids' = Present(table)
    BY DEF Ids, Present
  <2>2. Listed' = [k \in 1..Cardinality(Present(table)) |->
                     CHOOSE i \in Present(table) : Rank(table, i) = k - 1]
    BY <2>1 DEF Listed, Rank, Before, Precedes
  <2> QED
    BY <2>2, ListInOrder
<1> SUFFICES ASSUME NEW d \in Client PROVE ListOk(requests'[d], table, Listed')
  BY DEF ListInv
<1>3. CASE d = c
  <2>1. requests'[d] = r
    BY <1>3 DEF Noticed
  <2> QED
    BY <2>1, UnreadOk
<1>4. CASE d # c
  <2> DEFINE q == requests[d]
             moved == \/ Present(table) # Ids
                      \/ \E i \in Ids : table[i].position # items[i].position
             overtaken == q.overtaken \/ /\ q.phase \in {"search", "create", "write"}
                                         /\ q.form.kind \in {"check", "edit"}
                                         /\ table[q.form.item] # items[q.form.item]
             disturbed == q.disturbed \/ (moved /\ (q.phase = "load" \/ Shown(q)))
  <2>1. requests'[d] = [q EXCEPT !.overtaken = overtaken, !.disturbed = disturbed]
    BY <1>4 DEF Noticed, Present
  <2>2. IsRequest(q) /\ ListOk(q, items, Listed)
    BY DEF GInv, RequestOk, ListInv
  <2> HIDE DEF overtaken, disturbed, q
  <2>3. PICK p : p = requests'[d]
    OBVIOUS
  <2>4. p.phase = q.phase /\ p.page = q.page /\ p.seen = q.seen /\ p.disturbed = disturbed
    BY <2>1, <2>2, <2>3 DEF IsRequest
  <2>5. ~ disturbed /\ q.phase \in {"load", "over"} /\ q.page > 0 => ~ q.disturbed /\ ~ moved
    BY Zenon DEF disturbed, Shown
  <2>6. ~ moved => /\ Present(table) = Present(items)
                   /\ \A k \in 1..Cardinality(Present(items)) : Listed'[k] = Listed[k]
    <3> SUFFICES ASSUME ~ moved
                 PROVE  /\ Present(table) = Present(items)
                        /\ \A k \in 1..Cardinality(Present(items)) : Listed'[k] = Listed[k]
      OBVIOUS
    <3>1. Present(table) = Present(items)
          /\ \A i \in Present(items) : table[i].position = items[i].position
      BY <1>1
    <3>2. DOMAIN Listed = 1..Cardinality(Present(items))
      BY <1>1 DEF InOrder
    <3>3. \A k \in DOMAIN Listed : Listed'[k] = Listed[k]
      BY <1>1, <1>2, <3>1, SameOrder
    <3> QED
      BY <3>1, <3>2, <3>3
  <2>7. q.phase \in {"load", "over"} /\ q.page > 0 /\ ~ q.disturbed =>
          Len(q.seen) <= Cardinality(Present(items))
    <3>1. Cardinality(Present(items)) \in Nat
      BY <1>1, PresentItems
    <3>2. q.page > 0 => Covered(q.page - 1, Cardinality(Present(items)))
                          <= Cardinality(Present(items))
      BY <2>2, <3>1, PagesCover DEF ListOk, Covered
    <3> QED
      BY <2>2, <3>1, <3>2 DEF ListOk
  <2>8. Cardinality(Present(items)) \in Nat /\ q.seen \in Seq(Seen)
    BY <1>1, <2>2, PresentItems DEF ListOk
  <2> HIDE DEF moved
  <2>9. ASSUME p.phase \in {"load", "over"}, p.page > 0, ~ p.disturbed
        PROVE  /\ Len(p.seen) = IF p.phase = "over" THEN Cardinality(Present(table))
                                ELSE Covered(p.page - 1, Cardinality(Present(table)))
               /\ \A k \in 1..Len(p.seen) : p.seen[k].id = Listed'[k]
    <3>1. ~ q.disturbed /\ ~ moved /\ q.phase \in {"load", "over"} /\ q.page > 0
      BY <2>4, <2>5, <2>9
    <3>2. /\ Len(q.seen) = IF q.phase = "over" THEN Cardinality(Present(items))
                           ELSE Covered(q.page - 1, Cardinality(Present(items)))
          /\ \A k \in 1..Len(q.seen) : q.seen[k].id = Listed[k]
      BY <2>2, <3>1 DEF ListOk
    <3>3. \A k \in 1..Len(q.seen) : k \in 1..Cardinality(Present(items))
      BY <2>7, <2>8, <3>1
    <3> QED
      BY <2>4, <2>6, <3>1, <3>2, <3>3
  <2> QED
    BY <2>2, <2>3, <2>4, <2>9 DEF ListOk
<1> QED
  BY <1>3, <1>4

LEMMA WriteReads ==
  ASSUME GInv, ListInv, GInv', NEW c \in Client, WriteItem(c)
  PROVE  ListInv'
<1> DEFINE r == requests[c]
<1>1. items' \in Table
  BY DEF GInv, Items, Table
<1>2. \/ UNCHANGED items /\ \E result : requests' = [requests EXCEPT ![c] = Over(r, result)]
      \/ \E q, result : requests' = Noticed(items', c, Loading(q, result))
      \/ \E q, result : requests' = Noticed(items', c, Over(q, result))
  <2>1. ASSUME NEW table, NEW result, items' = table,
               requests' = Noticed(table, c,
                 IF result = "saved" THEN Loading([r EXCEPT !.wrote = TRUE], result)
                 ELSE Over([r EXCEPT !.wrote = TRUE], result))
        PROVE  \/ \E q, other : requests' = Noticed(items', c, Loading(q, other))
               \/ \E q, other : requests' = Noticed(items', c, Over(q, other))
    <3>1. CASE result = "saved"
      BY <2>1, <3>1, Zenon
    <3>2. CASE result # "saved"
      BY <2>1, <3>2, Zenon
    <3> QED
      BY <3>1, <3>2
  <2>2. \/ UNCHANGED items /\ \E result : requests' = [requests EXCEPT ![c] = Over(r, result)]
        \/ \E table, result :
             /\ items' = table
             /\ requests' = Noticed(table, c,
                  IF result = "saved" THEN Loading([r EXCEPT !.wrote = TRUE], result)
                  ELSE Over([r EXCEPT !.wrote = TRUE], result))
    BY Zenon DEF WriteItem
  <2> QED
    BY <2>1, <2>2, Zenon
<1>3. requests = [d \in Client |-> requests[d]] /\ items \in Table
  BY ItemsTable DEF GInv
<1>4. CASE UNCHANGED items /\ \E result : requests' = [requests EXCEPT ![c] = Over(r, result)]
  BY <1>3, <1>4, OverUnread, UnreadOk, OneReads
<1> QED
  BY <1>1, <1>2, <1>4, OverUnread, NoticedReads

LEMMA ElsewhereReads ==
  ASSUME GInv, ListInv, GInv', NEW i, NEW item, ChangeElsewhere(i, item)
  PROVE  ListInv'
<1>1. items' \in Table
  BY DEF GInv, Items, Table
<1>2. requests' = Noticed(items', "none", Idle)
  BY DEF ChangeElsewhere
<1>3. Unread(Idle)
  BY DEF Unread, Idle
<1> QED
  BY <1>1, <1>2, <1>3, NoticedReads

LEMMA ListInit == Init => ListInv
<1> SUFFICES ASSUME Init, NEW c \in Client PROVE ListOk(requests[c], items, Listed)
  BY DEF ListInv
<1>1. requests[c] = Idle
  BY DEF Init
<1>2. Unread(Idle)
  BY DEF Unread, Idle
<1>3. items \in Table
  BY GroceryInit, ItemsTable
<1> QED
  BY <1>1, <1>2, <1>3, UnreadOk

LEMMA ListNext == GInv /\ GInv' /\ LenInv /\ ListInv /\ [Next]_vars => ListInv'
<1> SUFFICES ASSUME GInv, GInv', LenInv, ListInv, [Next]_vars PROVE ListInv'
  OBVIOUS
<1>1. requests = [c \in Client |-> requests[c]] /\ items \in Table
  BY ItemsTable DEF GInv
<1>2. ASSUME NEW c \in Client, UNCHANGED items,
             \E q : requests' = [requests EXCEPT ![c] = q] /\ Unread(q)
      PROVE  ListInv'
  BY <1>1, <1>2, UnreadOk, OneReads
<1>3. ASSUME NEW c \in Client, Step(c) PROVE ListInv'
  <2>1. CASE ReadItem(c)
    BY <1>2, <2>1, ReadItemReads DEF ReadItem
  <2>2. CASE SearchIngredient(c)
    BY <1>2, <2>2, SearchReads DEF SearchIngredient
  <2>3. CASE CreateIngredient(c)
    BY <1>2, <2>3, SearchReads DEF CreateIngredient
  <2>4. CASE WriteItem(c)
    BY <2>4, WriteReads
  <2>5. CASE LoadPage(c)
    <3>1. UNCHANGED items
      BY <2>5 DEF LoadPage
    <3> QED
      BY <1>1, <2>5, <3>1, LoadPageReads, OneReads
  <2> QED
    BY <1>3, <2>1, <2>2, <2>3, <2>4, <2>5 DEF Step
<1>4. ASSUME NEW c \in Client, NEW f \in Form, Begin(c, f) PROVE ListInv'
  BY <1>2, <1>4, BeginReads DEF Begin
<1>5. CASE UNCHANGED <<items, requests>>
  <2>1. Listed' = Listed
    BY <1>5 DEF Listed, Ids, Before
  <2> QED
    BY <1>5, <2>1 DEF ListInv
<1> QED
  BY <1>3, <1>4, <1>5, ElsewhereReads DEF Next, IngredientElsewhere, vars

LEMMA ListInvariance == Spec => []ListInv
BY ListInit, ListNext, LenInvariance, GroceryInvariance, PTL DEF Spec


\* The card of a place of the list.
CardOf(seen, k) ==
  [section |-> IF seen[k].item.checked THEN "checked" ELSE LabelOf[seen[k].id],
   at |-> k, id |-> seen[k].id]

\* Every place has one card, whatever its label.
LEMMA CardsOfPlaces ==
  ASSUME NEW seen, NEW page
  PROVE  Cards(Grouped(seen), seen) = {CardOf(seen, k) : k \in DOMAIN seen}
<1> DEFINE checked == CheckedOff(seen)
           labels == {LabelOf[seen[k].id] : k \in DOMAIN seen \ checked}
           groups == {[label |-> l, items |-> Labelled(seen, l)] : l \in labels}
           cards == Cards(Grouped(seen), seen)
<1>1. Grouped(seen).checked = checked /\ Grouped(seen).groups = groups
  BY DEF Grouped
<1>2. cards = {[section |-> "checked", at |-> k, id |-> seen[k].id] : k \in checked}
                \cup UNION {{[section |-> g.label, at |-> k, id |-> seen[k].id] : k \in g.items}
                             : g \in groups}
  BY <1>1, Zenon DEF Cards
<1>3. ASSUME NEW g \in groups, NEW k \in g.items
      PROVE  [section |-> g.label, at |-> k, id |-> seen[k].id] \in cards
  <2>1. {[section |-> g.label, at |-> j, id |-> seen[j].id] : j \in g.items} \subseteq cards
    <3> DEFINE of(h) == {[section |-> h.label, at |-> j, id |-> seen[j].id] : j \in h.items}
    <3>1. cards = {[section |-> "checked", at |-> j, id |-> seen[j].id] : j \in checked}
                    \cup UNION {of(h) : h \in groups}
      BY <1>2, Zenon
    <3> HIDE DEF groups, cards, of
    <3>2. of(g) \in {of(h) : h \in groups}
      BY <1>3
    <3>3. of(g) \subseteq cards
      BY <3>1, <3>2, Zenon
    <3> QED
      BY <3>3, Zenon DEF of
  <2> HIDE DEF cards
  <2> QED
    BY <1>3, <2>1, Zenon
<1>4. ASSUME NEW card \in cards PROVE \E k \in DOMAIN seen : card = CardOf(seen, k)
  <2>1. CASE \E k \in checked : card = [section |-> "checked", at |-> k, id |-> seen[k].id]
    BY <2>1 DEF CheckedOff, CardOf
  <2>2. CASE \E g \in groups : \E k \in g.items :
               card = [section |-> g.label, at |-> k, id |-> seen[k].id]
    <3>1. PICK g \in groups : \E k \in g.items :
               card = [section |-> g.label, at |-> k, id |-> seen[k].id]
      BY <2>2
    <3>2. PICK l \in labels : g = [label |-> l, items |-> Labelled(seen, l)]
      BY <3>1
    <3>3. PICK k \in Labelled(seen, l) : card = [section |-> l, at |-> k, id |-> seen[k].id]
      BY <3>1, <3>2
    <3> QED
      BY <3>3 DEF Labelled, CardOf
  <2> QED
    BY <1>2, <1>4, <2>1, <2>2, Zenon
<1>5. ASSUME NEW k \in DOMAIN seen PROVE CardOf(seen, k) \in cards
  <2>1. CASE seen[k].item.checked
    <3>1. k \in checked /\ CardOf(seen, k) = [section |-> "checked", at |-> k, id |-> seen[k].id]
      BY <2>1 DEF CheckedOff, CardOf
    <3> QED
      BY <1>2, <3>1, Zenon
  <2>2. CASE ~ seen[k].item.checked
    <3> DEFINE l == LabelOf[seen[k].id]
               g == [label |-> l, items |-> Labelled(seen, l)]
    <3>1. l \in labels /\ k \in Labelled(seen, l)
      BY <2>2 DEF CheckedOff, Labelled
    <3>2. g \in groups /\ g.label = l /\ k \in g.items
      BY <3>1
    <3>3. CardOf(seen, k) = [section |-> l, at |-> k, id |-> seen[k].id]
      BY <2>2 DEF CardOf
    <3> HIDE DEF g, l, groups
    <3>4. CardOf(seen, k) = [section |-> g.label, at |-> k, id |-> seen[k].id]
      BY <3>2, <3>3
    <3> QED
      BY <1>3, <3>2, <3>4, Zenon
  <2> QED
    BY <2>1, <2>2
<1> QED
  BY <1>4, <1>5

\* A list that was read while nothing came, went or moved has every item once, under its
\* label or among the checked ones (shoppingItems, groupGroceryItems), however many pages
\* it was read in and however much else was written while it was read.
THEOREM ListsAreWhole == Spec => []ListIsWhole
<1>1. GInv /\ ListInv => ListIsWhole
  <2> SUFFICES ASSUME GInv, ListInv, NEW c \in Client,
                      Shown(requests[c]), ~ requests[c].disturbed
               PROVE  LET cards == Cards(Grouped(requests[c].seen), requests[c].seen)
                      IN /\ {card.id : card \in cards} = Ids
                         /\ Cardinality(cards) = Cardinality(Ids)
    BY DEF ListIsWhole
  <2> DEFINE seen == requests[c].seen
             n == Cardinality(Ids)
             cards == {CardOf(seen, k) : k \in DOMAIN seen}
             card == [k \in 1..n |-> CardOf(seen, k)]
  <2>1. items \in Table /\ Ids = Present(items) /\ InOrder(items, Listed) /\ n \in Nat
    BY ItemsTable, ListedInOrder, PresentItems
  <2>2. DOMAIN Listed = 1..n /\ {Listed[k] : k \in DOMAIN Listed} = Ids
    BY <2>1, ListsEach DEF InOrder
  <2>3. seen \in Seq(Seen) /\ Len(seen) = n /\ \A k \in 1..Len(seen) : seen[k].id = Listed[k]
    BY <2>1 DEF ListInv, ListOk, Shown
  <2>4. DOMAIN seen = 1..n
    BY <2>3
  <2> HIDE DEF seen, n
  <2>5. \A k : CardOf(seen, k).at = k /\ CardOf(seen, k).id = seen[k].id
    BY DEF CardOf
  <2>6. {x.id : x \in cards} = Ids
    BY <2>2, <2>3, <2>4, <2>5
  <2>7. card \in Bijection(1..n, cards)
    <3>1. \A k \in 1..n : card[k] = CardOf(seen, k)
      OBVIOUS
    <3>2. card \in [1..n -> cards]
      BY <2>4
    <3>3. \A j, k \in 1..n : card[j] = card[k] => j = k
      BY <2>5, <3>1
    <3>4. \A x \in cards : \E k \in 1..n : card[k] = x
      BY <2>4, <3>1
    <3> HIDE DEF card, cards
    <3> QED
      BY <3>2, <3>3, <3>4 DEF Bijection, Injection, Surjection, IsInjective
  <2>8. IsFiniteSet(1..n) /\ Cardinality(1..n) = n
    BY <2>1, PlacesCounted
  <2> HIDE DEF card, cards
  <2>9. Cardinality(cards) = n
    BY <2>7, <2>8, FS_Bijection DEF ExistsBijection
  <2> QED
    BY <2>6, <2>9, CardsOfPlaces DEF cards, n, seen
<1> QED
  BY <1>1, ListInvariance, GroceryInvariance, PTL
=============================================================================
