----------------------------- MODULE MCGrocery ------------------------------
(* A small shopping list for TLC: an item with a label of the list and one     *)
(* with a label that its settings do not name.                                 *)
EXTENDS Grocery

Fold == "kg" :> "kg" @@ "KG" :> "kg"

Labels == 1 :> "dairy" @@ 2 :> "frozen" @@ 3 :> ""

Item(text, unit, position) ==
  [text |-> text, unit |-> unit, checked |-> FALSE, position |-> position]

TwoItems == <<Item("milk", 0, 1), Item("peas", 1, 2)>>

OneUnit == <<[kind |-> "unit", name |-> "kg"]>>

Create(unit) == [kind |-> "create", text |-> "milk", food |-> "kg", unit |-> unit]
Edit(text, unit) == [kind |-> "edit", item |-> 1, text |-> text, unit |-> unit]

Forms ==
  {Create(unit) : unit \in {"", "KG"}}
    \cup {[kind |-> "check", item |-> 1, checked |-> b] : b \in BOOLEAN}
    \cup {Edit("peas", "KG"), Edit("", "")}
    \cup {[kind |-> "delete", item |-> i] : i \in {1, 2}}
    \cup {[kind |-> "view"]}
=============================================================================
