------------------------------ MODULE MCChores ------------------------------
(* Small instances of Chores for TLC: the schedule forms each run submits. *)
EXTENDS Chores

Calendar == <<0, 31, 61>>        \* August and September 2026

Daily == [type |-> "daily", interval |-> 0, weekdays |-> {}, day |-> 0]
EveryOther == [Daily EXCEPT !.type = "every_n_days", !.interval = 2]
Weekend == [Daily EXCEPT !.type = "weekly_days", !.weekdays = {0, 6}]

Submit(rule, start, end, mode, person) ==
  [rule |-> rule, start |-> start, end |-> end, mode |-> mode, person |-> person]

\* Edits that move a rotating schedule, shorten it, hand it to person 1, or make
\* it rotate on other days.
EditForms == {Submit(EveryOther, 0, NoEnd, "rotate", 2),
              Submit(Daily, 1, 2, "fixed", 1),
              Submit(Weekend, 0, NoEnd, "rotate", 1)}

FixedForms == {Submit(EveryOther, 0, NoEnd, "fixed", 1)}
=============================================================================
