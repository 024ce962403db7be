---------------------------- MODULE ChoreLedger -----------------------------
(***************************************************************************)
(* What the household sees of its chores, whatever is scheduled, edited,   *)
(* archived, restarted or maintained behind it: a ledger of occurrences,   *)
(* each open or done.  An operation plans and withdraws open occurrences,  *)
(* never in the past, or ticks or unticks a single one, or does neither.   *)
(***************************************************************************)
EXTENDS Integers

CONSTANTS Schedule, Horizon

VARIABLES today, open, done      \* open, done: sets of <<schedule, date>>

vars == <<today, open, done>>

Init == today = 0 /\ open = {} /\ done = {}

\* A request that read the clock before midnight withdraws from yesterday on.
Withdrawable == {o \in open : o[2] >= today - 1}

Plannable == (Schedule \X (today..(today + Horizon))) \ (open \cup done)

Replan ==
  /\ open \ open' \subseteq Withdrawable
  /\ open' \ open \subseteq Plannable
  /\ UNCHANGED <<today, done>>

Tick(o) ==
  /\ open' = open \ {o}
  /\ done' = done \cup {o}
  /\ UNCHANGED today

Untick(o) ==
  /\ done' = done \ {o}
  /\ open' = open \cup {o}
  /\ UNCHANGED today

NextDay == today' = today + 1 /\ UNCHANGED <<open, done>>

Next ==
  \/ Replan
  \/ \E o \in open : Tick(o)
  \/ \E o \in done : Untick(o)
  \/ NextDay

Spec == Init /\ [][Next]_vars
=============================================================================
