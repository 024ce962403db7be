------------------------------ MODULE MCEvents ------------------------------
(* Small instances of Events for TLC: the event forms each run submits.  The  *)
(* hour from 2:00 on is skipped on day 3, a Tuesday of the calendar.          *)
EXTENDS EventPages, TLC

Calendar == <<0, 31, 61>>        \* August and September 2026

Rule0 == [type |-> "one_off", interval |-> 0, weekdays |-> {}, day |-> 0, month |-> 0]
Daily == [Rule0 EXCEPT !.type = "daily"]
EveryThird == [Rule0 EXCEPT !.type = "every_n_days", !.interval = 3]
Feast == [Rule0 EXCEPT !.type = "annual", !.month = 8, !.day = 1]

Submit(rule, start, end, from, to, stop) ==
  [rule |-> rule, start |-> start, end |-> end, from |-> from, to |-> to,
   stop |-> stop, audience |-> {1}]

\* A dinner every day until the third, a feast of two days every year, and a show on
\* every third night from 1:30 to 2:30.
Dinner == Submit(Daily, 0, 0, 36, 38, 3)
Festival == Submit(Feast, 0, 2, NoTime, NoTime, NoEnd)
Show == Submit(EveryThird, 0, 0, 3, 5, NoEnd)

AllForms == {Dinner, Festival, Show}
OneForm == {Dinner}
=============================================================================
