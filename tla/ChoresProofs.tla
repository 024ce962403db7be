---------------------------- MODULE ChoresProofs ----------------------------
(***************************************************************************)
(* What holds of Chores for every household, calendar and horizon.  First  *)
(* the types, the uniqueness of a schedule's dates and numbers, and the    *)
(* agreement of a row with its log; then what planning promises: what is   *)
(* planned is what the schedule says, active schedules stay planned a      *)
(* horizon ahead, history is not touched, and the rows implement the       *)
(* household's ledger.                                                     *)
(*                                                                         *)
(* The inductive invariant says of every schedule that its rows are well   *)
(* formed.  The lemmas show that each statement the code runs on the rows  *)
(* keeps them so; the step proof then only has to say which statements an  *)
(* action runs on which schedules.  The theorems on planning rest on one   *)
(* lemma that says what a step may do to the rows of a schedule: nothing,  *)
(* tick or untick one, withdraw from a date on, or plan.                   *)
(***************************************************************************)
EXTENDS Chores, Numbers, SequenceTheorems

-----------------------------------------------------------------------------
(* Natural numbers. *)

\* Odd and even alternate, as the events of a log do.
LEMMA Parity ==
  ASSUME NEW n \in Nat
  PROVE  ((n + 1) % 2 = 1) <=> (n % 2 # 1)
OBVIOUS

-----------------------------------------------------------------------------
(* The rows of one schedule. *)

\* Their numbers are bounded, so that one of them is the highest.
Numbered(rows) == \E B \in Nat : \A r \in rows : r.seq <= B

DistinctRows(rows) == \A r, q \in rows : r.due = q.due \/ r.seq = q.seq => r = q

LogAgrees(r) ==
  /\ \A n \in 1..Len(r.log) :
       r.log[n] = (IF n % 2 = 1 THEN "completed" ELSE "reopened")
  /\ (r.status = "done") <=> (Len(r.log) % 2 = 1)

WellFormed(rows) ==
  /\ rows \in SUBSET Instance
  /\ Numbered(rows)
  /\ DistinctRows(rows)
  /\ \A r \in rows : LogAgrees(r)

\* No rows at all are well formed.
LEMMA NoRows == WellFormed({})
BY DEF WellFormed, Numbered, DistinctRows

\* Deleting rows leaves the others well formed.
LEMMA FewerRows ==
  ASSUME NEW rows, WellFormed(rows), NEW left \in SUBSET rows
  PROVE  WellFormed(left)
BY DEF WellFormed, Numbered, DistinctRows

LEMMA WithoutPendingWellFormed ==
  ASSUME NEW rows, WellFormed(rows), NEW from
  PROVE  WellFormed(WithoutPendingFrom(rows, from))
BY FewerRows DEF WithoutPendingFrom

LEMMA KeptWellFormed ==
  ASSUME NEW rows, WellFormed(rows), NEW replace \in BOOLEAN
  PROVE  WellFormed(Kept(rows, replace))
BY WithoutPendingWellFormed DEF Kept

\* MaxInstanceSequence is a natural number no row exceeds.
LEMMA MaxSequenceIsMax ==
  ASSUME NEW rows \in SUBSET Instance, Numbered(rows)
  PROVE  /\ MaxSequence(rows) \in Nat
         /\ \A r \in rows : r.seq <= MaxSequence(rows)
<1> DEFINE S == {0} \cup {r.seq : r \in rows}
<1>1. \A r \in rows : r.seq \in Nat
  BY DEF Instance
<1>2. S \in SUBSET Nat /\ S # {}
  BY <1>1
<1>3. PICK B \in Nat : \A r \in rows : r.seq <= B
  BY DEF Numbered
<1>4. \A x \in S : x <= B
  BY <1>3
<1>5. \E m \in S : \A x \in S : x <= m
  BY <1>2, <1>4, GreatestNatural
<1>6. \E m \in S : \A r \in rows : r.seq <= m
  BY <1>5
<1>7. MaxSequence(rows) \in S /\ \A r \in rows : r.seq <= MaxSequence(rows)
  BY <1>6 DEF MaxSequence
<1> QED
  BY <1>2, <1>7

\* When it returns no error, Assignee returns the id of a person.
LEMMA AssigneeIsPerson ==
  ASSUME NEW sched \in ScheduleRow, NEW roster \in Seq(Nat),
         Assignable(sched, roster), NEW n \in Nat \ {0}
  PROVE  Assignee(sched, roster, n) \in Nat
<1>1. CASE sched.mode = "fixed"
  BY <1>1 DEF Assignee, ScheduleRow
<1>2. CASE sched.mode # "fixed"
  <2> DEFINE k == Len(roster)
             at == PositionOf(roster, sched.person)
             turn == ((at - 1 + ((n - 1) % k)) % k) + 1
  <2>1. sched.mode = "rotate"
    BY <1>2 DEF ScheduleRow, AssignmentMode
  <2>2. k \in Nat /\ k >= 2 /\ DOMAIN roster = 1..k
    BY <2>1, LenProperties DEF Assignable
  <2>3. at \in 1..k
    BY <2>2 DEF Assignable, IsActive, PositionOf
  <2> HIDE DEF at
  <2>4. (n - 1) % k \in 0..(k - 1)
    BY <2>2
  <2>5. at - 1 + ((n - 1) % k) \in Nat
    BY <2>3, <2>4
  <2>6. turn \in 1..k
    BY <2>2, <2>5
  <2>7. roster[turn] \in Nat
    BY <2>6, ElementOfSeq
  <2> QED
    BY <1>2, <2>7 DEF Assignee, at
<1> QED
  BY <1>1, <1>2

-----------------------------------------------------------------------------
(* What generate adds. *)

\* The dates to plan are finitely many, today or later, and have no row.
LEMMA MissingDates ==
  ASSUME NEW rows, NEW sched, today \in Nat
  PROVE  /\ Missing(rows, sched) \in SUBSET Nat
         /\ IsFiniteSet(Missing(rows, sched))
         /\ \A d \in Missing(rows, sched) : \A r \in rows : r.due # d
<1> DEFINE window == today..(today + Horizon)
<1>1. Horizon \in Nat
  BY ChoresAssumption
<1>2. IsFiniteSet(window) /\ window \in SUBSET Nat
  BY <1>1, FS_Interval
<1>3. Missing(rows, sched) \in SUBSET window
  BY DEF Missing, Occurrences
<1>4. IsFiniteSet(Missing(rows, sched))
  BY <1>2, <1>3, FS_Subset
<1>5. \A d \in Missing(rows, sched) : \A r \in rows : r.due # d
  BY DEF Missing
<1> QED
  BY <1>2, <1>3, <1>4, <1>5

\* generate keeps the rows of a schedule well formed.
LEMMA GeneratedWellFormed ==
  ASSUME NEW rows, WellFormed(rows), today \in Nat,
         NEW sched \in ScheduleRow, NEW roster \in Seq(Nat),
         CanGenerate(rows, sched, roster)
  PROVE  WellFormed(Generated(rows, sched, roster))
<1>1. CASE sched.state # "active"
  <2>1. Generated(rows, sched, roster) = rows
    BY <1>1 DEF Generated
  <2> QED
    BY <2>1
<1>2. CASE sched.state = "active"
  <2> DEFINE missing == Missing(rows, sched)
             place(d) == Cardinality({e \in missing : e <= d})
             M == MaxSequence(rows)
             planned(d) == [due |-> d, seq |-> M + place(d),
                            person |-> Assignee(sched, roster, M + place(d)),
                            status |-> "pending", log |-> <<>>]
             new == {planned(d) : d \in missing}
  <2>1. Generated(rows, sched, roster) = rows \cup new
    BY <1>2 DEF Generated, Planned
  <2>2. /\ rows \in SUBSET Instance /\ Numbered(rows)
        /\ DistinctRows(rows) /\ \A r \in rows : LogAgrees(r)
    BY DEF WellFormed
  <2>3. M \in Nat /\ \A r \in rows : r.seq <= M
    BY <2>2, MaxSequenceIsMax
  <2>4. /\ missing \in SUBSET Nat
        /\ IsFiniteSet(missing)
        /\ \A d \in missing : \A r \in rows : r.due # d
    BY MissingDates
  <2>5. Cardinality(missing) \in Nat
    BY <2>4, FS_CardinalityType
  <2>6. ASSUME NEW d \in missing
        PROVE  /\ place(d) \in Nat \ {0}
               /\ place(d) <= Cardinality(missing)
               /\ \A f \in missing : d < f => place(d) < place(f)
    <3>1. missing \in SUBSET Int
      BY <2>4
    <3> HIDE DEF missing
    <3> QED
      BY <2>4, <3>1, Places
  <2> HIDE DEF missing, place, M
  <2>7. ASSUME NEW d \in missing
        PROVE  planned(d) \in Instance /\ LogAgrees(planned(d))
    <3>1. Assignable(sched, roster)
      BY <1>2, <2>7 DEF CanGenerate, missing
    <3>2. M + place(d) \in Nat \ {0}
      BY <2>3, <2>6
    <3>3. Assignee(sched, roster, M + place(d)) \in Nat
      BY <3>1, <3>2, AssigneeIsPerson
    <3>4. <<>> \in Seq(LogEvent) /\ Len(<<>>) = 0
      BY EmptySeq
    <3>5. planned(d) \in Instance
      BY <2>4, <3>2, <3>3, <3>4 DEF Instance, Status
    <3>6. LogAgrees(planned(d))
      BY <3>4 DEF LogAgrees
    <3> QED
      BY <3>5, <3>6
  <2>8. new \in SUBSET Instance /\ \A q \in new : LogAgrees(q)
    BY <2>7
  <2>9. \A q \in new : /\ q.seq > M
                       /\ q.seq <= M + Cardinality(missing)
                       /\ \A r \in rows : r.due # q.due
    BY <2>3, <2>4, <2>5, <2>6
  <2>10. ASSUME NEW d \in missing, NEW f \in missing,
                d = f \/ M + place(d) = M + place(f)
         PROVE  d = f
    BY <2>3, <2>4, <2>6, <2>10
  <2>11. DistinctRows(new)
    BY <2>10 DEF DistinctRows
  <2> HIDE DEF new
  <2>12. \A r \in rows, q \in new : r.due # q.due /\ r.seq # q.seq
    <3>1. \A r \in rows : r.seq \in Nat
      BY <2>2 DEF Instance
    <3>2. \A q \in new : q.seq \in Nat
      BY <2>8 DEF Instance
    <3> QED
      BY <2>3, <2>9, <3>1, <3>2
  <2>13. DistinctRows(rows \cup new)
    BY <2>2, <2>11, <2>12 DEF DistinctRows
  <2>14. Numbered(rows \cup new)
    <3>1. M + Cardinality(missing) \in Nat
      BY <2>3, <2>5
    <3>2. \A r \in rows : r.seq <= M + Cardinality(missing)
      <4>1. \A r \in rows : r.seq \in Nat
        BY <2>2 DEF Instance
      <4> QED
        BY <2>3, <2>5, <4>1
    <3> QED
      BY <2>9, <3>1, <3>2 DEF Numbered
  <2> QED
    BY <2>1, <2>2, <2>8, <2>13, <2>14 DEF WellFormed
<1> QED
  BY <1>1, <1>2

-----------------------------------------------------------------------------
(* The inductive invariant and its steps. *)

RowsWellFormed == \A i \in Schedule : WellFormed(instances[i])

\* A request under way is about a chore or a schedule that exists.
RequestTargets == \A k \in Client :
  /\ requests[k].op \in {"archiveChore", "updateChore"} => requests[k].id \in Chore
  /\ requests[k].op = "archiveSchedule" => requests[k].id \in Schedule

IInv == TypeOK /\ RowsWellFormed /\ RequestTargets

\* A row a form makes is a schedule row.
LEMMA RowOfType ==
  ASSUME NEW form \in Form, NEW state \in RowState, NEW c \in Nat
  PROVE  RowOf(form, state, c) \in ScheduleRow
<1>1. form \in ScheduleForm
  BY ChoresAssumption
<1> QED
  BY <1>1 DEF RowOf, ScheduleForm, ScheduleRow

LEMMA NoScheduleType == NoSchedule \in ScheduleRow
<1>1. NoRule \in Rule
  BY DEF NoRule, Rule, RuleType
<1> QED
  BY <1>1 DEF NoSchedule, ScheduleRow, RowState, AssignmentMode

LEMMA ArchivedRowType ==
  ASSUME NEW row \in ScheduleRow
  PROVE  [row EXCEPT !.state = "archived"] \in ScheduleRow
BY DEF ScheduleRow, RowState

\* One transition of one row keeps its schedule's rows well formed.
LEMMA TransitionWellFormed ==
  ASSUME NEW rows, WellFormed(rows), NEW r \in rows,
         NEW from \in Status, NEW to \in Status, NEW event \in LogEvent,
         r.status = from, from # to, to = "done" <=> event = "completed"
  PROVE  WellFormed((rows \ {r}) \cup
                      {[r EXCEPT !.status = to, !.log = Append(@, event)]})
<1> DEFINE q == [r EXCEPT !.status = to, !.log = Append(@, event)]
           left == rows \ {r}
<1>1. r \in Instance /\ LogAgrees(r) /\ Numbered(rows) /\ DistinctRows(rows)
  BY DEF WellFormed
<1>2. r.log \in Seq(LogEvent) /\ Len(r.log) \in Nat
  <2>1. r.log \in Seq(LogEvent)
    BY <1>1 DEF Instance
  <2> QED
    BY <2>1, LenProperties
<1>3. /\ Append(r.log, event) \in Seq(LogEvent)
      /\ Len(Append(r.log, event)) = Len(r.log) + 1
      /\ \A n \in 1..Len(r.log) : Append(r.log, event)[n] = r.log[n]
      /\ Append(r.log, event)[Len(r.log) + 1] = event
  BY <1>2, AppendProperties
<1>4. /\ q \in Instance
      /\ q.due = r.due /\ q.seq = r.seq
      /\ q.status = to /\ q.log = Append(r.log, event)
  BY <1>1, <1>3 DEF Instance
<1> HIDE DEF q
<1>5. LogAgrees(q)
  <2>1. (Len(r.log) % 2 = 1) <=> (r.status = "done")
    BY <1>1 DEF LogAgrees
  <2>2. ((Len(r.log) + 1) % 2 = 1) <=> (Len(r.log) % 2 # 1)
    BY <1>2, Parity
  <2>3. (to = "done") <=> (r.status # "done")
    BY DEF Status
  <2>4. (q.status = "done") <=> (Len(q.log) % 2 = 1)
    BY <1>3, <1>4, <2>1, <2>2, <2>3
  <2>5. event = (IF (Len(r.log) + 1) % 2 = 1 THEN "completed" ELSE "reopened")
    BY <2>1, <2>2, <2>3 DEF LogEvent
  <2>6. ASSUME NEW n \in 1..(Len(r.log) + 1)
        PROVE  q.log[n] = (IF n % 2 = 1 THEN "completed" ELSE "reopened")
    <3>1. CASE n = Len(r.log) + 1
      BY <1>3, <1>4, <2>5, <3>1
    <3>2. CASE n # Len(r.log) + 1
      <4>1. n \in 1..Len(r.log)
        BY <1>2, <3>2
      <4> QED
        BY <1>1, <1>3, <1>4, <4>1 DEF LogAgrees
    <3> QED
      BY <3>1, <3>2
  <2> QED
    BY <1>3, <1>4, <2>4, <2>6 DEF LogAgrees
<1>6. WellFormed(left)
  BY FewerRows
<1>7. \A p \in left : p.due # q.due /\ p.seq # q.seq
  BY <1>1, <1>4 DEF DistinctRows
<1>8. Numbered(left \cup {q})
  BY <1>1, <1>4 DEF Numbered
<1>9. DistinctRows(left \cup {q})
  BY <1>6, <1>7 DEF WellFormed, DistinctRows
<1>10. WellFormed(left \cup {q})
  BY <1>4, <1>5, <1>6, <1>8, <1>9 DEF WellFormed
<1> QED
  BY <1>10 DEF q

\* The invariant holds of the empty database.
LEMMA InitInvariant == Init => IInv
<1> SUFFICES ASSUME Init PROVE IInv
  OBVIOUS
<1>1. TypeOK
  <2>1. Idle \in Request
    BY DEF Idle, Request, Operation
  <2>2. people \in Seq(Nat)
    BY EmptySeq DEF Init
  <2>3. \A i \in Schedule : {} \in SUBSET Instance
    OBVIOUS
  <2> QED
    BY <2>1, <2>2, <2>3, NoScheduleType DEF Init, TypeOK, RowState
<1>2. RowsWellFormed
  BY NoRows DEF Init, RowsWellFormed
<1>3. RequestTargets
  BY DEF Init, RequestTargets, Idle
<1> QED
  BY <1>1, <1>2, <1>3 DEF IInv

\* Replacing one schedule's rows by well formed ones.
LEMMA OneScheduleStep ==
  ASSUME IInv, NEW i \in Schedule, NEW rows, WellFormed(rows),
         instances' = [instances EXCEPT ![i] = rows]
  PROVE  instances' \in [Schedule -> SUBSET Instance] /\ RowsWellFormed'
<1>1. rows \in SUBSET Instance
  BY DEF WellFormed
<1>2. instances \in [Schedule -> SUBSET Instance] /\ RowsWellFormed
  BY DEF IInv, TypeOK
<1>3. \A j \in Schedule : WellFormed(instances'[j])
  BY <1>2 DEF RowsWellFormed
<1> QED
  BY <1>1, <1>2, <1>3 DEF RowsWellFormed

LEMMA CreatePersonStep ==
  ASSUME IInv, CreatePerson
  PROVE  IInv'
<1> DEFINE roster == Append(people, Len(people) + 1)
           rotating == {i \in Schedule : Active(i) /\ schedules[i].mode = "rotate"}
           kept(i) == Kept(instances[i], TRUE)
           rows(i) == IF i \in rotating
                      THEN Generated(kept(i), schedules[i], roster)
                      ELSE instances[i]
<1>1. TypeOK /\ RowsWellFormed /\ RequestTargets
  BY DEF IInv
<1>2. roster \in Seq(Nat)
  <2>1. people \in Seq(Nat)
    BY <1>1 DEF TypeOK
  <2>2. Len(people) + 1 \in Nat
    BY <2>1, LenProperties
  <2> QED
    BY <2>1, <2>2, AppendProperties
<1>3. /\ \A i \in rotating : CanGenerate(kept(i), schedules[i], roster)
      /\ people' = roster
      /\ instances' = [i \in Schedule |-> rows(i)]
      /\ outdated' \subseteq outdated
      /\ UNCHANGED <<today, chores, schedules, requests, phase, wake, listed,
                     lastRun, undone>>
  BY DEF CreatePerson, process
<1>4. ASSUME NEW i \in Schedule
      PROVE  WellFormed(rows(i))
  <2>1. WellFormed(instances[i]) /\ schedules[i] \in ScheduleRow /\ today \in Nat
    BY <1>1 DEF TypeOK, RowsWellFormed
  <2>2. CASE i \in rotating
    <3>1. WellFormed(kept(i))
      BY <2>1, KeptWellFormed
    <3>2. CanGenerate(kept(i), schedules[i], roster)
      BY <1>3, <2>2
    <3> HIDE DEF kept, roster, rotating
    <3>3. WellFormed(Generated(kept(i), schedules[i], roster))
      BY <1>2, <2>1, <3>1, <3>2, GeneratedWellFormed
    <3> QED
      BY <2>2, <3>3
  <2>3. CASE i \notin rotating
    BY <2>1, <2>3
  <2> QED
    BY <2>2, <2>3
<1> HIDE DEF rows, roster, rotating
<1>5. \A i \in Schedule : WellFormed(instances'[i])
  BY <1>3, <1>4
<1>6. instances' \in [Schedule -> SUBSET Instance]
  BY <1>3, <1>4 DEF WellFormed
<1> QED
  BY <1>1, <1>2, <1>3, <1>5, <1>6 DEF IInv, TypeOK, RowsWellFormed, RequestTargets

LEMMA CreateChoreStep ==
  ASSUME IInv, NEW c \in Chore, CreateChore(c)
  PROVE  IInv'
BY DEF IInv, TypeOK, RowsWellFormed, RequestTargets, CreateChore, process, history, RowState

LEMMA CreateScheduleStep ==
  ASSUME IInv, NEW i \in Schedule, NEW c \in Chore, NEW form \in Form,
         CreateSchedule(i, c, form)
  PROVE  IInv'
<1> DEFINE row == RowOf(form, "active", c)
           kept == Kept(instances[i], FALSE)
<1>1. TypeOK /\ RowsWellFormed /\ RequestTargets
  BY DEF IInv
<1>2. /\ Assignable(form, people)
      /\ schedules' = [schedules EXCEPT ![i] = row]
      /\ instances' = [instances EXCEPT ![i] = Generated(kept, row, people)]
      /\ UNCHANGED <<today, people, chores, requests, phase, wake, listed,
                     lastRun, outdated, undone>>
  BY DEF CreateSchedule, process, history
<1>3. row \in ScheduleRow
  <2>1. "active" \in RowState /\ c \in Nat
    BY DEF RowState, Chore
  <2> QED
    BY <2>1, RowOfType
<1>4. CanGenerate(kept, row, people)
  BY <1>2 DEF CanGenerate, Assignable, RowOf
<1>5. WellFormed(kept)
  <2>1. WellFormed(instances[i])
    BY <1>1 DEF RowsWellFormed
  <2> QED
    BY <2>1, KeptWellFormed
<1> HIDE DEF row, kept
<1>6. WellFormed(Generated(kept, row, people))
  BY <1>1, <1>3, <1>4, <1>5, GeneratedWellFormed DEF TypeOK
<1>7. instances' \in [Schedule -> SUBSET Instance] /\ RowsWellFormed'
  BY <1>2, <1>6, OneScheduleStep
<1> QED
  BY <1>1, <1>2, <1>3, <1>7 DEF IInv, TypeOK, RequestTargets

LEMMA UpdateScheduleStep ==
  ASSUME IInv, NEW i \in Schedule, NEW form \in Form, UpdateSchedule(i, form)
  PROVE  IInv'
<1> DEFINE row == RowOf(form, schedules[i].state, schedules[i].chore)
           kept == Kept(instances[i], TRUE)
<1>1. TypeOK /\ RowsWellFormed /\ RequestTargets
  BY DEF IInv
<1>2. /\ Assignable(form, people)
      /\ schedules' = [schedules EXCEPT ![i] = row]
      /\ instances' = [instances EXCEPT ![i] = Generated(kept, row, people)]
      /\ outdated' \subseteq outdated
      /\ UNCHANGED <<today, people, chores, requests, phase, wake, listed,
                     lastRun, undone>>
  BY DEF UpdateSchedule, process
<1>3. row \in ScheduleRow
  <2>1. schedules[i].state \in RowState /\ schedules[i].chore \in Nat
    BY <1>1 DEF TypeOK, ScheduleRow
  <2> QED
    BY <2>1, RowOfType
<1>4. CanGenerate(kept, row, people)
  BY <1>2 DEF CanGenerate, Assignable, RowOf
<1>5. WellFormed(kept)
  <2>1. WellFormed(instances[i])
    BY <1>1 DEF RowsWellFormed
  <2> QED
    BY <2>1, KeptWellFormed
<1> HIDE DEF row, kept
<1>6. WellFormed(Generated(kept, row, people))
  BY <1>1, <1>3, <1>4, <1>5, GeneratedWellFormed DEF TypeOK
<1>7. instances' \in [Schedule -> SUBSET Instance] /\ RowsWellFormed'
  BY <1>2, <1>6, OneScheduleStep
<1> QED
  BY <1>1, <1>2, <1>3, <1>7 DEF IInv, TypeOK, RequestTargets

LEMMA CompleteInstanceStep ==
  ASSUME IInv, NEW i \in Schedule, NEW r \in instances[i],
         CompleteInstance(i, r) \/ ReopenInstance(i, r)
  PROVE  IInv'
<1>1. TypeOK /\ RowsWellFormed /\ RequestTargets
  BY DEF IInv
<1>2. PICK from \in Status, to \in Status, event \in LogEvent :
        /\ from # to
        /\ (to = "done") <=> (event = "completed")
        /\ Transition(i, r, from, to, event)
  BY DEF CompleteInstance, ReopenInstance, Status, LogEvent
<1> DEFINE rows == (instances[i] \ {r}) \cup
                     {[r EXCEPT !.status = to, !.log = Append(@, event)]}
<1>3. /\ r.status = from
      /\ instances' = [instances EXCEPT ![i] = rows]
      /\ UNCHANGED <<today, people, chores, schedules, requests, phase, wake,
                     listed, lastRun, outdated, undone>>
  BY <1>2 DEF Transition, process, history
<1>4. WellFormed(rows)
  <2>1. WellFormed(instances[i])
    BY <1>1 DEF RowsWellFormed
  <2> QED
    BY <1>2, <1>3, <2>1, TransitionWellFormed
<1> HIDE DEF rows
<1>5. instances' \in [Schedule -> SUBSET Instance] /\ RowsWellFormed'
  BY <1>3, <1>4, OneScheduleStep
<1> QED
  BY <1>1, <1>3, <1>5 DEF IInv, TypeOK, RequestTargets

\* Beginning a request of any kind.
LEMMA BeginStep ==
  ASSUME IInv, NEW k \in Client, NEW op \in Operation, NEW id \in Nat,
         NEW active \in BOOLEAN, Begin(k, op, id, active),
         op \in {"archiveChore", "updateChore"} => id \in Chore,
         op = "archiveSchedule" => id \in Schedule
  PROVE  IInv'
<1> DEFINE request == [op |-> op, id |-> id, asOf |-> today, active |-> active]
<1>1. TypeOK /\ RowsWellFormed /\ RequestTargets
  BY DEF IInv
<1>2. /\ requests' = [requests EXCEPT ![k] = request]
      /\ UNCHANGED <<today, people, chores, schedules, instances, phase, wake,
                     listed, lastRun, outdated, undone>>
  BY DEF Begin, data, process, history
<1>3. request \in Request
  BY <1>1 DEF TypeOK, Request
<1>4. requests' \in [Client -> Request]
  BY <1>1, <1>2, <1>3 DEF TypeOK
<1>5. RequestTargets'
  BY <1>1, <1>2 DEF TypeOK, RequestTargets
<1> QED
  BY <1>1, <1>2, <1>4, <1>5 DEF IInv, TypeOK, RowsWellFormed

\* Ending one.
LEMMA FinishRequests ==
  ASSUME IInv, NEW k \in Client, Finish(k)
  PROVE  requests' \in [Client -> Request] /\ RequestTargets'
<1>1. Idle \in Request
  BY DEF Idle, Request, Operation
<1> QED
  BY <1>1 DEF IInv, TypeOK, RequestTargets, Finish, Idle

LEMMA AbandonStep ==
  ASSUME IInv, NEW k \in Client, Abandon(k)
  PROVE  IInv'
<1>1. requests' \in [Client -> Request] /\ RequestTargets'
  BY FinishRequests DEF Abandon
<1> QED
  BY <1>1 DEF IInv, TypeOK, RowsWellFormed, Abandon, data, process, history

LEMMA FinishDeactivateScheduleStep ==
  ASSUME IInv, NEW k \in Client, FinishDeactivateSchedule(k)
  PROVE  IInv'
<1> DEFINE i == requests[k].id
           rows == WithoutPendingFrom(instances[i], requests[k].asOf)
<1>1. TypeOK /\ RowsWellFormed /\ RequestTargets
  BY DEF IInv
<1>2. /\ requests[k].op = "archiveSchedule"
      /\ schedules' = [schedules EXCEPT ![i].state = "archived"]
      /\ instances' = [instances EXCEPT ![i] = rows]
      /\ outdated' \subseteq outdated
      /\ Finish(k)
      /\ UNCHANGED <<today, people, chores, phase, wake, listed, lastRun, undone>>
  BY DEF FinishDeactivateSchedule, process
<1>3. i \in Schedule
  BY <1>1, <1>2 DEF RequestTargets
<1>4. WellFormed(rows)
  BY <1>1, <1>3, WithoutPendingWellFormed DEF RowsWellFormed
<1>5. schedules' \in [Schedule -> ScheduleRow]
  <2>1. schedules \in [Schedule -> ScheduleRow]
    BY <1>1 DEF TypeOK
  <2>2. [schedules[i] EXCEPT !.state = "archived"] \in ScheduleRow
    BY <1>3, <2>1, ArchivedRowType
  <2> HIDE DEF i
  <2> QED
    BY <1>2, <2>1, <2>2
<1> HIDE DEF rows, i
<1>6. instances' \in [Schedule -> SUBSET Instance] /\ RowsWellFormed'
  BY <1>2, <1>3, <1>4, OneScheduleStep
<1>7. requests' \in [Client -> Request] /\ RequestTargets'
  BY <1>2, FinishRequests
<1> QED
  BY <1>1, <1>2, <1>5, <1>6, <1>7 DEF IInv, TypeOK

LEMMA FinishDeactivateChoreStep ==
  ASSUME IInv, NEW k \in Client, FinishDeactivateChore(k)
  PROVE  IInv'
<1> DEFINE hit == ActiveSchedulesOf(requests[k].id)
           rows(i) == IF i \in hit
                      THEN WithoutPendingFrom(instances[i], requests[k].asOf)
                      ELSE instances[i]
<1>1. TypeOK /\ RowsWellFormed /\ RequestTargets
  BY DEF IInv
<1>2. /\ schedules' = [i \in Schedule |->
                         IF i \in hit THEN [schedules[i] EXCEPT !.state = "archived"]
                                      ELSE schedules[i]]
      /\ instances' = [i \in Schedule |-> rows(i)]
      /\ chores' = [chores EXCEPT ![requests[k].id] = "archived"]
      /\ outdated' \subseteq outdated
      /\ Finish(k)
      /\ UNCHANGED <<today, people, phase, wake, listed, lastRun, undone>>
  BY DEF FinishDeactivateChore, process
<1>3. schedules' \in [Schedule -> ScheduleRow]
  <2>1. schedules \in [Schedule -> ScheduleRow]
    BY <1>1 DEF TypeOK
  <2>2. \A i \in Schedule : [schedules[i] EXCEPT !.state = "archived"] \in ScheduleRow
    BY <2>1, ArchivedRowType
  <2> HIDE DEF hit, rows
  <2> QED
    BY <1>2, <2>1, <2>2
<1>4. chores' \in [Chore -> RowState]
  BY <1>1, <1>2 DEF TypeOK, RowState
<1>5. \A i \in Schedule : WellFormed(rows(i))
  BY <1>1, WithoutPendingWellFormed DEF RowsWellFormed
<1> HIDE DEF rows, hit
<1>6. \A i \in Schedule : WellFormed(instances'[i])
  BY <1>2, <1>5
<1>7. instances' \in [Schedule -> SUBSET Instance]
  BY <1>2, <1>5 DEF WellFormed
<1>8. requests' \in [Client -> Request] /\ RequestTargets'
  BY <1>2, FinishRequests
<1> QED
  BY <1>1, <1>2, <1>3, <1>4, <1>6, <1>7, <1>8 DEF IInv, TypeOK, RowsWellFormed

LEMMA FinishUpdateChoreStep ==
  ASSUME IInv, NEW k \in Client, FinishUpdateChore(k)
  PROVE  IInv'
<1> DEFINE c == requests[k].id
           written == IF requests[k].active THEN "active" ELSE "archived"
<1>1. TypeOK /\ RowsWellFormed /\ RequestTargets
  BY DEF IInv
<1>2. /\ requests[k].op = "updateChore"
      /\ chores' = [chores EXCEPT ![c] = written]
      /\ undone' = IF chores[c] # written THEN undone \cup {c} ELSE undone
      /\ Finish(k)
      /\ UNCHANGED <<today, people, schedules, instances, phase, wake, listed,
                     lastRun, outdated>>
  BY DEF FinishUpdateChore, process
<1>3. c \in Chore
  BY <1>1, <1>2 DEF RequestTargets
<1>4. chores' \in [Chore -> RowState] /\ undone' \subseteq Chore
  BY <1>1, <1>2, <1>3 DEF TypeOK, RowState
<1>5. requests' \in [Client -> Request] /\ RequestTargets'
  BY <1>2, FinishRequests
<1> QED
  BY <1>1, <1>2, <1>4, <1>5 DEF IInv, TypeOK, RowsWellFormed

LEMMA EnsureScheduleStep ==
  ASSUME IInv, NEW i \in Schedule, EnsureSchedule(i)
  PROVE  IInv'
<1> DEFINE copy == listed[i]
           kept == Kept(instances[i], FALSE)
<1>1. TypeOK /\ RowsWellFormed /\ RequestTargets
  BY DEF IInv
<1>2. /\ CanGenerate(instances[i], copy, people)
      /\ instances' = [instances EXCEPT ![i] = Generated(kept, copy, people)]
      /\ listed' = [listed EXCEPT ![i] = NoSchedule]
      /\ outdated' \subseteq outdated \cup {i}
      /\ UNCHANGED <<today, people, chores, schedules, requests, phase, wake,
                     lastRun, undone>>
  BY DEF EnsureSchedule
<1>3. copy \in ScheduleRow /\ people \in Seq(Nat) /\ today \in Nat
  BY <1>1 DEF TypeOK
<1>4. kept = instances[i]
  BY DEF Kept
<1>5. WellFormed(kept)
  BY <1>1, <1>4 DEF RowsWellFormed
<1>6. WellFormed(Generated(kept, copy, people))
  BY <1>2, <1>3, <1>4, <1>5, GeneratedWellFormed
<1> HIDE DEF copy, kept
<1>7. instances' \in [Schedule -> SUBSET Instance] /\ RowsWellFormed'
  BY <1>2, <1>6, OneScheduleStep
<1>8. listed' \in [Schedule -> ScheduleRow]
  BY <1>1, <1>2, NoScheduleType DEF TypeOK
<1> QED
  BY <1>1, <1>2, <1>7, <1>8 DEF IInv, TypeOK, RequestTargets

\* Startup, the timer and the ends of a run only touch the process.
LEMMA ProcessStep ==
  ASSUME IInv, Start \/ MidnightTimer \/ RunEnds \/ RunFails
  PROVE  IInv'
<1>1. TypeOK /\ RowsWellFormed /\ RequestTargets
  BY DEF IInv
<1>2. \/ listed' = listed
      \/ listed' = [i \in Schedule |-> IF Active(i) THEN schedules[i] ELSE NoSchedule]
      \/ listed' = [i \in Schedule |-> NoSchedule]
  BY DEF Start, MidnightTimer, RunEnds, RunFails, ListActive
<1>3. listed' \in [Schedule -> ScheduleRow]
  BY <1>1, <1>2, NoScheduleType DEF TypeOK
<1>4. phase' \in {"down", "starting", "waiting", "maintaining"} /\ wake' \in Nat
  BY <1>1 DEF TypeOK, Start, MidnightTimer, RunEnds, RunFails, Sleep
<1>5. lastRun' \in {"ok", "failed"}
  BY <1>1 DEF TypeOK, Start, MidnightTimer, RunEnds, RunFails
<1>6. UNCHANGED <<today, people, chores, schedules, instances, requests,
                  outdated, undone>>
  BY DEF Start, MidnightTimer, RunEnds, RunFails, data, history
<1> QED
  BY <1>1, <1>3, <1>4, <1>5, <1>6 DEF IInv, TypeOK, RowsWellFormed, RequestTargets

LEMMA CrashStep ==
  ASSUME IInv, Crash
  PROVE  IInv'
<1>1. Idle \in Request
  BY DEF Idle, Request, Operation
<1>2. requests' \in [Client -> Request] /\ RequestTargets'
  BY <1>1 DEF Crash, RequestTargets, Idle
<1> QED
  BY <1>2, NoScheduleType DEF IInv, TypeOK, RowsWellFormed, Crash, data, history

LEMMA NextDayStep ==
  ASSUME IInv, NextDay
  PROVE  IInv'
BY DEF IInv, TypeOK, RowsWellFormed, RequestTargets, NextDay, data, process, history

\* Every step preserves the invariant.
LEMMA NextInvariant == IInv /\ [Next]_vars => IInv'
<1> SUFFICES ASSUME IInv, [Next]_vars PROVE IInv'
  OBVIOUS
<1>1. CASE CreatePerson
  BY <1>1, CreatePersonStep
<1>2. CASE \E c \in Chore : CreateChore(c)
  BY <1>2, CreateChoreStep
<1>3. CASE \E i \in Schedule, c \in Chore, form \in Form : CreateSchedule(i, c, form)
  BY <1>3, CreateScheduleStep
<1>4. CASE \E i \in Schedule, form \in Form : UpdateSchedule(i, form)
  BY <1>4, UpdateScheduleStep
<1>5. CASE \E i \in Schedule : \E r \in instances[i] :
             CompleteInstance(i, r) \/ ReopenInstance(i, r)
  BY <1>5, CompleteInstanceStep
<1>6. CASE \E k \in Client, i \in Schedule : BeginDeactivateSchedule(k, i)
  <2>1. PICK k \in Client, i \in Schedule :
          Begin(k, "archiveSchedule", i, FALSE)
    BY <1>6 DEF BeginDeactivateSchedule
  <2>2. /\ "archiveSchedule" \in Operation /\ i \in Nat /\ FALSE \in BOOLEAN
        /\ "archiveSchedule" \notin {"archiveChore", "updateChore"}
    BY DEF Operation, Schedule
  <2> QED
    BY <2>1, <2>2, BeginStep
<1>7. CASE \E k \in Client : FinishDeactivateSchedule(k)
  BY <1>7, FinishDeactivateScheduleStep
<1>8. CASE \E k \in Client, c \in Chore : BeginDeactivateChore(k, c)
  <2>1. PICK k \in Client, c \in Chore : Begin(k, "archiveChore", c, FALSE)
    BY <1>8 DEF BeginDeactivateChore
  <2>2. /\ "archiveChore" \in Operation /\ c \in Nat /\ FALSE \in BOOLEAN
        /\ "archiveChore" # "archiveSchedule"
    BY DEF Operation, Chore
  <2> QED
    BY <2>1, <2>2, BeginStep
<1>9. CASE \E k \in Client : FinishDeactivateChore(k)
  BY <1>9, FinishDeactivateChoreStep
<1>10. CASE \E k \in Client, c \in Chore : BeginUpdateChore(k, c)
  <2>1. PICK k \in Client, c \in Chore :
          Begin(k, "updateChore", c, chores[c] = "active")
    BY <1>10 DEF BeginUpdateChore
  <2>2. /\ "updateChore" \in Operation /\ c \in Nat
        /\ (chores[c] = "active") \in BOOLEAN
        /\ "updateChore" # "archiveSchedule"
    BY DEF Operation, Chore
  <2> QED
    BY <2>1, <2>2, BeginStep
<1>11. CASE \E k \in Client : FinishUpdateChore(k)
  BY <1>11, FinishUpdateChoreStep
<1>12. CASE \E k \in Client : Abandon(k)
  BY <1>12, AbandonStep
<1>13. CASE Start \/ MidnightTimer \/ RunEnds \/ RunFails
  BY <1>13, ProcessStep
<1>14. CASE \E i \in Schedule : EnsureSchedule(i)
  BY <1>14, EnsureScheduleStep
<1>15. CASE Crash
  BY <1>15, CrashStep
<1>16. CASE NextDay
  BY <1>16, NextDayStep
<1>17. CASE UNCHANGED vars
  BY <1>17 DEF IInv, TypeOK, RowsWellFormed, RequestTargets, vars, data, process,
               history
<1> QED
  BY <1>1, <1>2, <1>3, <1>4, <1>5, <1>6, <1>7, <1>8, <1>9, <1>10, <1>11, <1>12,
     <1>13, <1>14, <1>15, <1>16, <1>17 DEF Next

\* The invariant holds throughout, whatever requests, crashes, midnights and
\* maintenance runs come in what order.
THEOREM Invariance == Spec => []IInv
BY InitInvariant, NextInvariant, PTL DEF Spec

\* Every variable keeps its type; in particular generate always finds a person to
\* assign and a highest number to continue from.
THEOREM TypeCorrect == Spec => []TypeOK
<1>1. IInv => TypeOK
  BY DEF IInv
<1> QED
  BY <1>1, Invariance, PTL

\* generate never violates the UNIQUE constraints of chore_instances: no schedule
\* ever has two rows for a date or two rows of a number.
THEOREM OccurrencesUnique == Spec => []UniqueOccurrence
<1>1. IInv => UniqueOccurrence
  BY DEF IInv, RowsWellFormed, WellFormed, DistinctRows, UniqueOccurrence
<1> QED
  BY <1>1, Invariance, PTL

\* A row and its completion log agree for as long as the row exists.
THEOREM LogsAgree == Spec => []LogTellsStatus
<1>1. IInv => LogTellsStatus
  BY DEF IInv, RowsWellFormed, WellFormed, LogAgrees, LogTellsStatus
<1> QED
  BY <1>1, Invariance, PTL

-----------------------------------------------------------------------------
(* Somebody to assign to. *)

\* An archiving under way is about a schedule that was created: its end does not
\* make a row of nothing.
ArchivedExist == \A k \in Client :
  requests[k].op = "archiveSchedule" => schedules[requests[k].id].state # "absent"

AInv == AssigneesExist /\ ArchivedExist

\* Whoever can be assigned still can when somebody joins.
LEMMA AssignableGrows ==
  ASSUME NEW sched, NEW roster \in Seq(Nat), NEW p \in Nat,
         Assignable(sched, roster)
  PROVE  Assignable(sched, Append(roster, p))
<1>1. /\ Len(roster) \in Nat /\ DOMAIN roster = 1..Len(roster)
      /\ Len(Append(roster, p)) = Len(roster) + 1
      /\ \A n \in 1..Len(roster) : Append(roster, p)[n] = roster[n]
      /\ Append(roster, p) \in Seq(Nat)
  BY LenProperties, AppendProperties
<1>2. DOMAIN Append(roster, p) = 1..(Len(roster) + 1)
  BY <1>1, LenProperties
<1>3. PICK n \in DOMAIN roster : roster[n] = sched.person
  BY DEF Assignable, IsActive
<1>4. n \in DOMAIN Append(roster, p) /\ Append(roster, p)[n] = sched.person
  BY <1>1, <1>2, <1>3
<1>5. sched.mode = "rotate" => Len(Append(roster, p)) >= 2
  BY <1>1 DEF Assignable
<1> QED
  BY <1>4, <1>5 DEF Assignable, IsActive

\* Writing a form whose people were validated.
LEMMA WriteScheduleAssignees ==
  ASSUME IInv, AInv, NEW i \in Schedule, NEW form \in Form, NEW c,
         NEW state \in RowState \ {"absent"}, Assignable(form, people),
         schedules' = [schedules EXCEPT ![i] = RowOf(form, state, c)],
         UNCHANGED <<people, requests, listed>>
  PROVE  AInv'
<1> DEFINE row == RowOf(form, state, c)
<1>1. row.state # "absent" /\ Assignable(row, people)
  BY DEF RowOf, Assignable
<1>2. schedules \in [Schedule -> ScheduleRow] /\ RequestTargets
  BY DEF IInv, TypeOK
<1> HIDE DEF row
<1>3. \A j \in Schedule : schedules'[j] = IF j = i THEN row ELSE schedules[j]
  BY <1>2 DEF row
<1>4. AssigneesExist'
  BY <1>1, <1>3 DEF AInv, AssigneesExist
<1>5. ArchivedExist'
  BY <1>1, <1>2, <1>3 DEF AInv, ArchivedExist, RequestTargets
<1> QED
  BY <1>4, <1>5 DEF AInv

\* Archiving schedules that were created: everybody stays as assignable as before.
LEMMA ArchiveAssignees ==
  ASSUME IInv, AInv, NEW hit \in SUBSET Schedule, NEW k \in Client, Finish(k),
         \A j \in hit : schedules[j].state # "absent",
         schedules' = [j \in Schedule |->
                         IF j \in hit THEN [schedules[j] EXCEPT !.state = "archived"]
                                      ELSE schedules[j]],
         UNCHANGED <<people, listed>>
  PROVE  AInv'
<1>1. schedules \in [Schedule -> ScheduleRow] /\ RequestTargets
  BY DEF IInv, TypeOK
<1>2. \A j \in hit : /\ schedules'[j].state = "archived"
                     /\ schedules'[j].mode = schedules[j].mode
                     /\ schedules'[j].person = schedules[j].person
  BY <1>1 DEF ScheduleRow
<1>3. \A j \in Schedule \ hit : schedules'[j] = schedules[j]
  OBVIOUS
<1>4. AssigneesExist'
  BY <1>2, <1>3 DEF AInv, AssigneesExist, Assignable
<1>5. ASSUME NEW m \in Client, requests'[m].op = "archiveSchedule"
      PROVE  schedules'[requests'[m].id].state # "absent"
  <2>1. requests'[m] = requests[m]
    BY <1>5 DEF Finish, Idle, IInv, TypeOK
  <2>2. requests[m].id \in Schedule /\ schedules[requests[m].id].state # "absent"
    BY <1>1, <1>5, <2>1 DEF RequestTargets, AInv, ArchivedExist
  <2> QED
    BY <1>2, <1>3, <2>1, <2>2
<1> QED
  BY <1>4, <1>5 DEF AInv, ArchivedExist

\* Steps that leave people, schedules and what is listed alone, or list anew.
LEMMA ListAssignees ==
  ASSUME IInv, AInv, UNCHANGED <<people, schedules>>,
         \A j \in Schedule : \/ listed'[j] = listed[j]
                             \/ listed'[j] = schedules[j] \/ listed'[j] = NoSchedule,
         \A k \in Client : \/ requests'[k] = requests[k]
                           \/ requests'[k].op # "archiveSchedule"
                           \/ schedules[requests'[k].id].state # "absent"
  PROVE  AInv'
BY DEF AInv, AssigneesExist, ArchivedExist, NoSchedule

LEMMA CreatePersonAssignees ==
  ASSUME IInv, AInv, CreatePerson
  PROVE  AInv'
<1>1. people \in Seq(Nat) /\ Len(people) + 1 \in Nat
  <2>1. people \in Seq(Nat)
    BY DEF IInv, TypeOK
  <2> QED
    BY <2>1, LenProperties
<1>2. /\ people' = Append(people, Len(people) + 1)
      /\ UNCHANGED <<schedules, requests, listed>>
  BY DEF CreatePerson, process
<1>3. AssigneesExist'
  BY <1>1, <1>2, AssignableGrows DEF AInv, AssigneesExist
<1> QED
  BY <1>2, <1>3 DEF AInv, ArchivedExist

LEMMA InitAssignees == Init => AInv
BY DEF Init, AInv, AssigneesExist, ArchivedExist, NoSchedule, Idle

LEMMA NextAssignees == IInv /\ AInv /\ [Next]_vars => AInv'
<1> SUFFICES ASSUME IInv, AInv, [Next]_vars PROVE AInv'
  OBVIOUS
<1>0. /\ schedules \in [Schedule -> ScheduleRow] /\ RequestTargets
      /\ requests \in [Client -> Request]
      /\ listed \in [Schedule -> ScheduleRow]
  BY DEF IInv, TypeOK
<1>1. CASE CreatePerson
  BY <1>1, CreatePersonAssignees
<1>2. CASE \E i \in Schedule, c \in Chore, form \in Form : CreateSchedule(i, c, form)
  <2>1. PICK i \in Schedule, c \in Chore, form \in Form : CreateSchedule(i, c, form)
    BY <1>2
  <2>2. "active" \in RowState \ {"absent"}
    BY DEF RowState
  <2>3. /\ Assignable(form, people)
        /\ schedules' = [schedules EXCEPT ![i] = RowOf(form, "active", c)]
        /\ UNCHANGED <<people, requests, listed>>
    BY <2>1 DEF CreateSchedule, process
  <2> QED
    BY <2>2, <2>3, WriteScheduleAssignees
<1>3. CASE \E i \in Schedule, form \in Form : UpdateSchedule(i, form)
  <2>1. PICK i \in Schedule, form \in Form : UpdateSchedule(i, form)
    BY <1>3
  <2>2. schedules[i].state \in RowState \ {"absent"}
    BY <1>0, <2>1 DEF UpdateSchedule, ScheduleRow
  <2>3. /\ Assignable(form, people)
        /\ schedules' = [schedules EXCEPT
                           ![i] = RowOf(form, schedules[i].state, schedules[i].chore)]
        /\ UNCHANGED <<people, requests, listed>>
    BY <2>1 DEF UpdateSchedule, process
  <2> QED
    BY <2>2, <2>3, WriteScheduleAssignees
<1>4. CASE \E k \in Client : FinishDeactivateSchedule(k)
  <2>1. PICK k \in Client : FinishDeactivateSchedule(k)
    BY <1>4
  <2> DEFINE i == requests[k].id
  <2>2. i \in Schedule /\ schedules[i].state # "absent"
    BY <1>0, <2>1 DEF FinishDeactivateSchedule, RequestTargets, AInv, ArchivedExist
  <2>3. /\ schedules' = [schedules EXCEPT ![i].state = "archived"]
        /\ Finish(k)
        /\ UNCHANGED <<people, listed>>
    BY <2>1 DEF FinishDeactivateSchedule, process
  <2> HIDE DEF i
  <2>4. schedules' = [j \in Schedule |->
                        IF j \in {i} THEN [schedules[j] EXCEPT !.state = "archived"]
                                     ELSE schedules[j]]
    BY <1>0, <2>2, <2>3
  <2> QED
    BY <2>2, <2>3, <2>4, ArchiveAssignees
<1>5. CASE \E k \in Client : FinishDeactivateChore(k)
  <2>1. PICK k \in Client : FinishDeactivateChore(k)
    BY <1>5
  <2> DEFINE hit == ActiveSchedulesOf(requests[k].id)
  <2>2. hit \in SUBSET Schedule /\ \A j \in hit : schedules[j].state # "absent"
    BY DEF ActiveSchedulesOf, Active
  <2>3. /\ schedules' = [j \in Schedule |->
                           IF j \in hit THEN [schedules[j] EXCEPT !.state = "archived"]
                                        ELSE schedules[j]]
        /\ Finish(k)
        /\ UNCHANGED <<people, listed>>
    BY <2>1 DEF FinishDeactivateChore, process
  <2> HIDE DEF hit
  <2> QED
    BY <2>2, <2>3, ArchiveAssignees
<1>6. CASE \/ \E c \in Chore : CreateChore(c)
           \/ \E i \in Schedule : \E r \in instances[i] :
                CompleteInstance(i, r) \/ ReopenInstance(i, r)
           \/ NextDay
           \/ UNCHANGED vars
  <2>1. CASE \E c \in Chore : CreateChore(c)
    BY <2>1 DEF CreateChore, process, AInv, AssigneesExist, ArchivedExist
  <2>2. CASE \E i \in Schedule : \E r \in instances[i] :
               CompleteInstance(i, r) \/ ReopenInstance(i, r)
    <3>1. UNCHANGED <<people, schedules, listed, requests>>
      BY <2>2 DEF CompleteInstance, ReopenInstance, Transition, process
    <3> QED
      BY <3>1, ListAssignees
  <2>3. CASE NextDay \/ UNCHANGED vars
    <3>1. UNCHANGED <<people, schedules, listed, requests>>
      BY <2>3 DEF NextDay, vars, data, process
    <3> QED
      BY <3>1, ListAssignees
  <2> QED
    BY <1>6, <2>1, <2>2, <2>3
<1>7. CASE \/ \E k \in Client, i \in Schedule : BeginDeactivateSchedule(k, i)
           \/ \E k \in Client, c \in Chore : BeginDeactivateChore(k, c)
           \/ \E k \in Client, c \in Chore : BeginUpdateChore(k, c)
  <2>1. UNCHANGED <<people, schedules, listed>>
    BY <1>7 DEF BeginDeactivateSchedule, BeginDeactivateChore, BeginUpdateChore,
                Begin, data, process
  <2>2. \A k \in Client : \/ requests'[k] = requests[k]
                          \/ requests'[k].op # "archiveSchedule"
                          \/ schedules[requests'[k].id].state # "absent"
    BY <1>0, <1>7 DEF BeginDeactivateSchedule, BeginDeactivateChore,
                      BeginUpdateChore, Begin
  <2> QED
    BY <2>1, <2>2, ListAssignees
<1>8. CASE \E k \in Client : FinishUpdateChore(k) \/ Abandon(k)
  <2>1. UNCHANGED <<people, schedules, listed>>
    BY <1>8 DEF FinishUpdateChore, Abandon, data, process
  <2>2. \A k \in Client : \/ requests'[k] = requests[k]
                          \/ requests'[k].op # "archiveSchedule"
    BY <1>0, <1>8 DEF FinishUpdateChore, Abandon, Finish, Idle
  <2> QED
    BY <2>1, <2>2, ListAssignees
<1>9. CASE Start \/ MidnightTimer \/ RunEnds \/ RunFails
  <2>1. UNCHANGED <<people, schedules, requests>>
    BY <1>9 DEF Start, MidnightTimer, RunEnds, RunFails, data
  <2>2. \A j \in Schedule : \/ listed'[j] = listed[j]
                            \/ listed'[j] = schedules[j] \/ listed'[j] = NoSchedule
    BY <1>9 DEF Start, MidnightTimer, RunEnds, RunFails, ListActive
  <2> QED
    BY <2>1, <2>2, ListAssignees
<1>10. CASE \E i \in Schedule : EnsureSchedule(i)
  <2>1. UNCHANGED <<people, schedules, requests>>
    BY <1>10 DEF EnsureSchedule
  <2>2. \A j \in Schedule : listed'[j] = listed[j] \/ listed'[j] = NoSchedule
    BY <1>0, <1>10 DEF EnsureSchedule
  <2> QED
    BY <2>1, <2>2, ListAssignees
<1>11. CASE Crash
  <2>1. UNCHANGED <<people, schedules>>
    BY <1>11 DEF Crash, data
  <2>2. \A j \in Schedule : listed'[j] = NoSchedule
    BY <1>11 DEF Crash
  <2>3. \A k \in Client : requests'[k].op # "archiveSchedule"
    BY <1>11 DEF Crash, Idle
  <2> QED
    BY <2>1, <2>2, <2>3, ListAssignees
<1> QED
  BY <1>1, <1>2, <1>3, <1>4, <1>5, <1>6, <1>7, <1>8, <1>9, <1>10, <1>11 DEF Next

\* Planning always finds an assignee, for the stored rows and for the copies a run
\* of EnsureHorizon still holds: people join, and nobody leaves.
THEOREM AssigneesFound == Spec => []AssigneesExist
<1>1. AInv => AssigneesExist
  BY DEF AInv
<1>2. Spec => []AInv
  BY InitAssignees, NextAssignees, Invariance, PTL DEF Spec
<1> QED
  BY <1>1, <1>2, PTL

-----------------------------------------------------------------------------
(* Schedules and the state of their chore. *)

\* An active schedule belongs to a chore of the household.
ActiveBelong == \A i \in Schedule : Active(i) => schedules[i].chore \in Chore

CInv == ActiveScheduleHasActiveChore /\ ActiveBelong

\* Steps that leave the chores alone and make no schedule active.
LEMMA QuietStep ==
  ASSUME CInv, UNCHANGED <<chores, undone>>,
         \A i \in Schedule : Active(i)' =>
           Active(i) /\ schedules'[i].chore = schedules[i].chore
  PROVE  CInv'
BY DEF CInv, ActiveScheduleHasActiveChore, ActiveBelong

LEMMA NextChoreStates == IInv /\ CInv /\ [Next]_vars => CInv'
<1> SUFFICES ASSUME IInv, CInv, [Next]_vars PROVE CInv'
  OBVIOUS
<1>0. /\ schedules \in [Schedule -> ScheduleRow] /\ RequestTargets
      /\ chores \in [Chore -> RowState]
  BY DEF IInv, TypeOK
<1>1. CASE \E c \in Chore : CreateChore(c)
  <2>1. PICK c \in Chore : /\ chores' = [chores EXCEPT ![c] = "active"]
                           /\ UNCHANGED <<schedules, undone>>
    BY <1>1 DEF CreateChore, history
  <2>2. \A b \in Chore : chores[b] = "active" => chores'[b] = "active"
    BY <1>0, <2>1
  <2> QED
    BY <2>1, <2>2 DEF CInv, ActiveScheduleHasActiveChore, ActiveBelong, Active
<1>2. CASE \E i \in Schedule, c \in Chore, form \in Form : CreateSchedule(i, c, form)
  <2>1. PICK i \in Schedule, c \in Chore, form \in Form : CreateSchedule(i, c, form)
    BY <1>2
  <2>2. /\ chores[c] = "active"
        /\ schedules' = [schedules EXCEPT ![i] = RowOf(form, "active", c)]
        /\ UNCHANGED <<chores, undone>>
    BY <2>1 DEF CreateSchedule, history
  <2>3. schedules'[i].chore = c
    BY <1>0, <2>2 DEF RowOf
  <2>4. \A j \in Schedule \ {i} : schedules'[j] = schedules[j]
    BY <1>0, <2>2
  <2> QED
    BY <2>2, <2>3, <2>4 DEF CInv, ActiveScheduleHasActiveChore, ActiveBelong, Active
<1>3. CASE \E i \in Schedule, form \in Form : UpdateSchedule(i, form)
  <2>1. PICK i \in Schedule, form \in Form : UpdateSchedule(i, form)
    BY <1>3
  <2>2. /\ schedules' = [schedules EXCEPT
                           ![i] = RowOf(form, schedules[i].state, schedules[i].chore)]
        /\ UNCHANGED <<chores, undone>>
    BY <2>1 DEF UpdateSchedule
  <2>3. \A j \in Schedule : /\ schedules'[j].state = schedules[j].state
                            /\ schedules'[j].chore = schedules[j].chore
    BY <1>0, <2>2 DEF RowOf
  <2> QED
    BY <2>2, <2>3, QuietStep DEF Active
<1>4. CASE \E k \in Client : FinishDeactivateSchedule(k)
  <2>1. PICK k \in Client : FinishDeactivateSchedule(k)
    BY <1>4
  <2> DEFINE i == requests[k].id
  <2>2. i \in Schedule
    BY <1>0, <2>1 DEF FinishDeactivateSchedule, RequestTargets
  <2>3. /\ schedules' = [schedules EXCEPT ![i].state = "archived"]
        /\ UNCHANGED <<chores, undone>>
    BY <2>1 DEF FinishDeactivateSchedule
  <2> HIDE DEF i
  <2>4. schedules'[i].state = "archived"
    BY <1>0, <2>2, <2>3 DEF ScheduleRow
  <2>5. \A j \in Schedule \ {i} : schedules'[j] = schedules[j]
    BY <1>0, <2>3
  <2> QED
    BY <2>3, <2>4, <2>5, QuietStep DEF Active
<1>5. CASE \E k \in Client : FinishDeactivateChore(k)
  <2>1. PICK k \in Client : FinishDeactivateChore(k)
    BY <1>5
  <2> DEFINE c == requests[k].id
             hit == ActiveSchedulesOf(c)
  <2>2. /\ c \in Chore
        /\ schedules' = [j \in Schedule |->
                           IF j \in hit THEN [schedules[j] EXCEPT !.state = "archived"]
                                        ELSE schedules[j]]
        /\ chores' = [chores EXCEPT ![c] = "archived"]
        /\ UNCHANGED undone
    BY <1>0, <2>1 DEF FinishDeactivateChore, RequestTargets
  <2> HIDE DEF c
  <2>3. \A j \in hit : schedules'[j].state = "archived"
    BY <1>0, <2>2 DEF ScheduleRow, ActiveSchedulesOf
  <2>4. \A j \in Schedule \ hit : schedules'[j] = schedules[j]
    BY <2>2
  <2>5. \A j \in Schedule \ hit : Active(j) => schedules[j].chore # c
    BY DEF ActiveSchedulesOf
  <2>6. \A b \in Chore \ {c} : chores'[b] = chores[b]
    BY <1>0, <2>2
  <2> HIDE DEF hit
  <2> QED
    BY <2>2, <2>3, <2>4, <2>5, <2>6
       DEF CInv, ActiveScheduleHasActiveChore, ActiveBelong, Active
<1>6. CASE \E k \in Client : FinishUpdateChore(k)
  <2>1. PICK k \in Client : FinishUpdateChore(k)
    BY <1>6
  <2> DEFINE c == requests[k].id
             written == IF requests[k].active THEN "active" ELSE "archived"
  <2>2. /\ c \in Chore
        /\ chores' = [chores EXCEPT ![c] = written]
        /\ undone' = IF chores[c] # written THEN undone \cup {c} ELSE undone
        /\ UNCHANGED schedules
    BY <1>0, <2>1 DEF FinishUpdateChore, RequestTargets
  <2> HIDE DEF c, written
  <2>3. undone \subseteq undone'
    BY <2>2
  <2>4. \A b \in Chore \ undone' : chores'[b] = chores[b]
    BY <1>0, <2>2
  <2> QED
    BY <2>2, <2>3, <2>4 DEF CInv, ActiveScheduleHasActiveChore, ActiveBelong, Active
<1>7. CASE \/ CreatePerson
           \/ \E i \in Schedule : \E r \in instances[i] :
                CompleteInstance(i, r) \/ ReopenInstance(i, r)
           \/ \E k \in Client, i \in Schedule : BeginDeactivateSchedule(k, i)
           \/ \E k \in Client, c \in Chore : BeginDeactivateChore(k, c)
           \/ \E k \in Client, c \in Chore : BeginUpdateChore(k, c)
           \/ \E k \in Client : Abandon(k)
           \/ \E i \in Schedule : EnsureSchedule(i)
           \/ Start \/ MidnightTimer \/ RunEnds \/ RunFails
           \/ Crash \/ NextDay \/ UNCHANGED vars
  <2>1. CASE CreatePerson \/ \E i \in Schedule : EnsureSchedule(i)
    BY <1>0, <2>1, QuietStep DEF CreatePerson, EnsureSchedule, Active
  <2>2. CASE \E i \in Schedule : \E r \in instances[i] :
               CompleteInstance(i, r) \/ ReopenInstance(i, r)
    <3>1. UNCHANGED <<chores, schedules, undone>>
      BY <2>2 DEF CompleteInstance, ReopenInstance, Transition, history
    <3> QED
      BY <3>1, QuietStep DEF Active
  <2>3. CASE \/ \E k \in Client, i \in Schedule : BeginDeactivateSchedule(k, i)
             \/ \E k \in Client, c \in Chore : BeginDeactivateChore(k, c)
             \/ \E k \in Client, c \in Chore : BeginUpdateChore(k, c)
             \/ \E k \in Client : Abandon(k)
    <3>1. UNCHANGED <<chores, schedules, undone>>
      BY <2>3 DEF BeginDeactivateSchedule, BeginDeactivateChore, BeginUpdateChore,
                  Begin, Abandon, data, history
    <3> QED
      BY <3>1, QuietStep DEF Active
  <2>4. CASE \/ Start \/ MidnightTimer \/ RunEnds \/ RunFails
             \/ Crash \/ NextDay \/ UNCHANGED vars
    <3>1. UNCHANGED <<chores, schedules, undone>>
      BY <2>4 DEF Start, MidnightTimer, RunEnds, RunFails, Crash, NextDay, vars,
                  data, history
    <3> QED
      BY <3>1, QuietStep DEF Active
  <2> QED
    BY <1>7, <2>1, <2>2, <2>3, <2>4
<1> QED
  BY <1>1, <1>2, <1>3, <1>4, <1>5, <1>6, <1>7 DEF Next

\* Nothing but an edit of a chore that overlaps its archiving leaves an active
\* schedule on an archived chore.
THEOREM ActiveChoresOfActiveSchedules == Spec => []ActiveScheduleHasActiveChore
<1>1. Init => CInv
  BY DEF Init, CInv, ActiveScheduleHasActiveChore, ActiveBelong, Active, NoSchedule
<1>2. CInv => ActiveScheduleHasActiveChore
  BY DEF CInv
<1>3. Spec => []CInv
  BY <1>1, NextChoreStates, Invariance, PTL DEF Spec
<1> QED
  BY <1>2, <1>3, PTL

-----------------------------------------------------------------------------
(* What the statements do to the rows of one schedule. *)

\* Replanning starts from rows there are, history among them,
LEMMA KeptRows ==
  ASSUME NEW rows \in SUBSET Instance, NEW replace \in BOOLEAN, today \in Nat
  PROVE  /\ Kept(rows, replace) \in SUBSET rows
         /\ \A r \in rows : r.status = "done" \/ r.due < today => r \in Kept(rows, replace)
<1>1. \A r \in rows : r.due \in Nat /\ r.status \in {"pending", "done"}
  BY DEF Instance, Status
<1> QED
  BY <1>1 DEF Kept, WithoutPendingFrom

\* and with replace from history alone.
LEMMA ReplacedRows ==
  ASSUME NEW rows \in SUBSET Instance, NEW r \in Kept(rows, TRUE), today \in Nat
  PROVE  r.status = "done" \/ r.due < today
<1>1. r \in rows /\ r.due \in Nat /\ r.status \in {"pending", "done"}
  BY DEF Instance, Status, Kept, WithoutPendingFrom
<1> QED
  BY <1>1 DEF Kept, WithoutPendingFrom

\* What generate plans: a row for each missing date and no other, untouched, of the
\* person its number falls to, and numbered in date order after all that was kept.
LEMMA PlannedRows ==
  ASSUME NEW rows \in SUBSET Instance, Numbered(rows), today \in Nat,
         NEW sched, NEW roster
  PROVE  /\ \A q \in Planned(rows, sched, roster) :
              /\ q.due \in Missing(rows, sched)
              /\ q.status = "pending" /\ q.log = <<>>
              /\ q.person = Assignee(sched, roster, q.seq)
              /\ \A r \in rows : r.seq < q.seq
         /\ \A q, p \in Planned(rows, sched, roster) : q.due < p.due => q.seq < p.seq
         /\ \A d \in Missing(rows, sched) :
              \E q \in Planned(rows, sched, roster) : q.due = d
<1> DEFINE missing == Missing(rows, sched)
           place(d) == Cardinality({e \in missing : e <= d})
           M == MaxSequence(rows)
           planned(d) == [due |-> d, seq |-> M + place(d),
                          person |-> Assignee(sched, roster, M + place(d)),
                          status |-> "pending", log |-> <<>>]
<1>1. Planned(rows, sched, roster) = {planned(d) : d \in missing}
  BY DEF Planned
<1>2. M \in Nat /\ \A r \in rows : r.seq <= M
  BY MaxSequenceIsMax
<1>3. \A r \in rows : r.seq \in Nat
  BY DEF Instance
<1>4. missing \in SUBSET Nat /\ missing \in SUBSET Int /\ IsFiniteSet(missing)
  BY MissingDates
<1> HIDE DEF missing, M
<1>5. ASSUME NEW d \in missing
      PROVE  /\ place(d) \in Nat \ {0}
             /\ \A f \in missing : d < f => place(d) < place(f)
  BY <1>4, Places
<1> HIDE DEF place
<1>6. ASSUME NEW d \in missing
      PROVE  /\ planned(d).due = d /\ planned(d).seq = M + place(d)
             /\ planned(d).status = "pending" /\ planned(d).log = <<>>
             /\ planned(d).person = Assignee(sched, roster, planned(d).seq)
             /\ \A r \in rows : r.seq < planned(d).seq
  <2>1. \A r \in rows : r.seq < M + place(d)
    BY <1>2, <1>3, <1>5
  <2> QED
    BY <2>1
<1> HIDE DEF planned
<1>7. ASSUME NEW d \in missing, NEW f \in missing, d < f
      PROVE  planned(d).seq < planned(f).seq
  <2>1. place(d) < place(f) /\ place(d) \in Nat /\ place(f) \in Nat
    BY <1>5, <1>7
  <2> QED
    BY <1>2, <1>6, <2>1
<1> QED
  BY <1>1, <1>6, <1>7 DEF missing

-----------------------------------------------------------------------------
(* What a step may do to the rows of a schedule. *)

\* Nothing.  Whose turn it is does not change either: when somebody joins, a rotation
\* that is still followed is planned anew.
Still(i) ==
  /\ instances'[i] = instances[i]
  /\ schedules'[i] = schedules[i]
  /\ i \in outdated => i \in outdated'
  /\ today' \in {today, today + 1}
  /\ people' = people \/ ~(Active(i) /\ schedules[i].mode = "rotate")

\* CompleteInstance, ReopenInstance.
Ticked(i) ==
  /\ UNCHANGED <<today, people, schedules, outdated>>
  /\ \E r \in instances[i], from, to \in Status, event \in LogEvent :
       /\ r.status = from /\ from # to
       /\ instances'[i] = (instances[i] \ {r}) \cup
                            {[r EXCEPT !.status = to, !.log = Append(@, event)]}

\* An archiving, from the date on that its request read from the clock.
Withdrawn(i) ==
  /\ UNCHANGED <<today, people>>
  /\ schedules'[i].state = "archived"
  /\ \E k \in Client :
       /\ requests[k].op \in {"archiveSchedule", "archiveChore"}
       /\ instances'[i] = WithoutPendingFrom(instances[i], requests[k].asOf)

\* generate, in the transaction of a creation, an edit, an arrival or a run: from the
\* row that is there afterwards, or from the copy a run listed.
PlannedFrom(i, replace, sched) ==
  /\ today' = today
  /\ instances'[i] = Generated(Kept(instances[i], replace), sched, people')
  /\ WellFormed(Kept(instances[i], replace))
  /\ \/ sched = schedules'[i] /\ replace
     \/ sched = schedules'[i] /\ Active(i)' /\ schedules[i].state = "absent"
     \/ /\ sched = listed[i] /\ sched.state # "absent" /\ replace = FALSE
        /\ Maintaining
        /\ sched # schedules[i] => i \in outdated'
        /\ schedules'[i] = schedules[i] /\ people' = people
  /\ i \in outdated => i \in outdated' \/ replace

Replanned(i) == \E replace \in BOOLEAN, sched \in ScheduleRow : PlannedFrom(i, replace, sched)

\* A button of a card: one row of one schedule is ticked or unticked.
Ticks == \E j \in Schedule : \E r \in instances[j] : CompleteInstance(j, r) \/ ReopenInstance(j, r)

LEMMA TickOfOne ==
  ASSUME IInv, Ticks
  PROVE  \E j \in Schedule, from, to \in Status, event \in LogEvent :
           \E r \in instances[j] :
             /\ r.status = from /\ from # to
             /\ instances' = [instances EXCEPT ![j] = (@ \ {r}) \cup
                                 {[r EXCEPT !.status = to, !.log = Append(@, event)]}]
             /\ UNCHANGED <<today, people, schedules, outdated>>
<1>1. PICK j \in Schedule : \E r \in instances[j] :
             CompleteInstance(j, r) \/ ReopenInstance(j, r)
  BY DEF Ticks
<1>2. PICK r \in instances[j], from \in Status, to \in Status, event \in LogEvent :
        from # to /\ Transition(j, r, from, to, event)
  BY <1>1 DEF CompleteInstance, ReopenInstance, Status, LogEvent
<1> QED
  BY <1>2 DEF Transition, history

\* The other steps withdraw, plan, or leave the rows alone.
LEMMA StepOfOthers ==
  ASSUME IInv, [Next]_vars, ~Ticks, NEW i \in Schedule
  PROVE  Still(i) \/ Withdrawn(i) \/ Replanned(i)
<1>0. /\ TypeOK /\ RequestTargets /\ WellFormed(instances[i])
      /\ schedules \in [Schedule -> ScheduleRow] /\ listed \in [Schedule -> ScheduleRow]
      /\ instances \in [Schedule -> SUBSET Instance]
  BY DEF IInv, TypeOK, RowsWellFormed
<1>00. \A replace \in BOOLEAN : WellFormed(Kept(instances[i], replace))
  BY <1>0, KeptWellFormed
<1>1. CASE CreatePerson
  <2> DEFINE rotating == {j \in Schedule : Active(j) /\ schedules[j].mode = "rotate"}
             kept(j) == Kept(instances[j], TRUE)
  <2>1. /\ UNCHANGED <<today, schedules>>
        /\ instances' = [j \in Schedule |->
                            IF j \in rotating THEN Generated(kept(j), schedules[j], people')
                                              ELSE instances[j]]
        /\ outdated' = outdated \ rotating
    BY <1>1 DEF CreatePerson
  <2>2. CASE i \in rotating
    <3>1. instances'[i] = Generated(Kept(instances[i], TRUE), schedules'[i], people')
      BY <2>1, <2>2
    <3>2. PlannedFrom(i, TRUE, schedules'[i])
      BY <1>00, <2>1, <3>1 DEF PlannedFrom
    <3> QED
      BY <1>0, <2>1, <3>2 DEF Replanned
  <2>3. CASE i \notin rotating
    <3>1. instances'[i] = instances[i]
      BY <2>1, <2>3
    <3> QED
      BY <2>1, <2>3, <3>1 DEF Still
  <2> QED
    BY <2>2, <2>3
<1>2. CASE \E j \in Schedule, c \in Chore, form \in Form : CreateSchedule(j, c, form)
  <2>1. PICK j \in Schedule, c \in Chore, form \in Form : CreateSchedule(j, c, form)
    BY <1>2
  <2> DEFINE row == RowOf(form, "active", c)
  <2>2. /\ UNCHANGED <<today, people, outdated>>
        /\ schedules[j].state = "absent"
        /\ schedules' = [schedules EXCEPT ![j] = row]
        /\ instances' = [instances EXCEPT
                           ![j] = Generated(Kept(instances[j], FALSE), row, people)]
    BY <1>0, <2>1 DEF CreateSchedule, history
  <2>3. row \in ScheduleRow /\ row.state = "active"
    <3>1. "active" \in RowState /\ c \in Nat
      BY DEF RowState, Chore
    <3> QED
      BY <3>1, RowOfType DEF RowOf
  <2> HIDE DEF row
  <2>4. CASE i = j
    <3>1. schedules'[i] = row
      BY <1>0, <2>2, <2>4
    <3>2. instances'[i] = Generated(Kept(instances[i], FALSE), schedules'[i], people')
      BY <1>0, <2>2, <2>4, <3>1
    <3>3. PlannedFrom(i, FALSE, schedules'[i])
      BY <1>00, <2>2, <2>3, <2>4, <3>1, <3>2 DEF PlannedFrom, Active
    <3> QED
      BY <2>3, <3>1, <3>3 DEF Replanned
  <2>5. CASE i # j
    BY <1>0, <2>2, <2>5 DEF Still
  <2> QED
    BY <2>4, <2>5
<1>3. CASE \E j \in Schedule, form \in Form : UpdateSchedule(j, form)
  <2>1. PICK j \in Schedule, form \in Form : UpdateSchedule(j, form)
    BY <1>3
  <2> DEFINE row == RowOf(form, schedules[j].state, schedules[j].chore)
  <2>2. /\ UNCHANGED <<today, people>>
        /\ outdated' = outdated \ {j}
        /\ schedules' = [schedules EXCEPT ![j] = row]
        /\ instances' = [instances EXCEPT
                           ![j] = Generated(Kept(instances[j], TRUE), row, people)]
    BY <1>0, <2>1 DEF UpdateSchedule
  <2>3. row \in ScheduleRow
    <3>1. schedules[j].state \in RowState /\ schedules[j].chore \in Nat
      BY <1>0 DEF ScheduleRow
    <3> QED
      BY <3>1, RowOfType
  <2> HIDE DEF row
  <2>4. CASE i = j
    <3>1. schedules'[i] = row
      BY <1>0, <2>2, <2>4
    <3>2. instances'[i] = Generated(Kept(instances[i], TRUE), schedules'[i], people')
      BY <1>0, <2>2, <2>4, <3>1
    <3>3. PlannedFrom(i, TRUE, schedules'[i])
      BY <1>00, <2>2, <3>1, <3>2 DEF PlannedFrom
    <3> QED
      BY <2>3, <3>1, <3>3 DEF Replanned
  <2>5. CASE i # j
    BY <1>0, <2>2, <2>5 DEF Still
  <2> QED
    BY <2>4, <2>5
<1>4. CASE \E k \in Client : FinishDeactivateSchedule(k)
  <2>1. PICK k \in Client : FinishDeactivateSchedule(k)
    BY <1>4
  <2> DEFINE j == requests[k].id
  <2>2. /\ UNCHANGED <<today, people>>
        /\ requests[k].op = "archiveSchedule" /\ j \in Schedule
        /\ schedules' = [schedules EXCEPT ![j].state = "archived"]
        /\ instances' = [instances EXCEPT ![j] = WithoutPendingFrom(@, requests[k].asOf)]
        /\ outdated' = outdated \ {j}
    BY <1>0, <2>1 DEF FinishDeactivateSchedule, RequestTargets
  <2> HIDE DEF j
  <2>3. CASE i = j
    BY <1>0, <2>2, <2>3 DEF Withdrawn, ScheduleRow
  <2>4. CASE i # j
    BY <1>0, <2>2, <2>4 DEF Still
  <2> QED
    BY <2>3, <2>4
<1>5. CASE \E k \in Client : FinishDeactivateChore(k)
  <2>1. PICK k \in Client : FinishDeactivateChore(k)
    BY <1>5
  <2> DEFINE hit == ActiveSchedulesOf(requests[k].id)
  <2>2. /\ UNCHANGED <<today, people>>
        /\ requests[k].op = "archiveChore"
        /\ schedules' = [j \in Schedule |->
                            IF j \in hit THEN [schedules[j] EXCEPT !.state = "archived"]
                                         ELSE schedules[j]]
        /\ instances' = [j \in Schedule |->
                            IF j \in hit
                            THEN WithoutPendingFrom(instances[j], requests[k].asOf)
                            ELSE instances[j]]
        /\ outdated' = outdated \ hit
    BY <2>1 DEF FinishDeactivateChore
  <2> HIDE DEF hit
  <2>3. CASE i \in hit
    BY <1>0, <2>2, <2>3 DEF Withdrawn, ScheduleRow
  <2>4. CASE i \notin hit
    BY <1>0, <2>2, <2>4 DEF Still
  <2> QED
    BY <2>3, <2>4
<1>6. CASE \E j \in Schedule : EnsureSchedule(j)
  <2>1. PICK j \in Schedule : EnsureSchedule(j)
    BY <1>6
  <2>2. /\ Maintaining /\ listed[j].state # "absent"
        /\ UNCHANGED <<today, people, schedules>>
        /\ instances' = [instances EXCEPT
                           ![j] = Generated(Kept(instances[j], FALSE), listed[j], people)]
        /\ outdated' = IF listed[j] # schedules[j] THEN outdated \cup {j} ELSE outdated
    BY <1>0, <2>1 DEF EnsureSchedule, IsNext
  <2>3. CASE i = j
    <3>1. instances'[i] = Generated(Kept(instances[i], FALSE), listed[i], people')
      BY <1>0, <2>2, <2>3
    <3>2. PlannedFrom(i, FALSE, listed[i])
      BY <1>00, <2>2, <2>3, <3>1 DEF PlannedFrom
    <3> QED
      BY <1>0, <3>2 DEF Replanned
  <2>4. CASE i # j
    BY <1>0, <2>2, <2>4 DEF Still
  <2> QED
    BY <2>3, <2>4
<1>7. CASE \/ \E c \in Chore : CreateChore(c)
           \/ \E k \in Client, j \in Schedule : BeginDeactivateSchedule(k, j)
           \/ \E k \in Client, c \in Chore : BeginDeactivateChore(k, c)
           \/ \E k \in Client, c \in Chore : BeginUpdateChore(k, c)
           \/ \E k \in Client : FinishUpdateChore(k) \/ Abandon(k)
  <2>1. UNCHANGED <<today, people, schedules, instances, outdated>>
    BY <1>7 DEF CreateChore, BeginDeactivateSchedule, BeginDeactivateChore,
                BeginUpdateChore, Begin, FinishUpdateChore, Abandon, data, history
  <2> QED
    BY <2>1 DEF Still
<1>8. CASE \/ Start \/ MidnightTimer \/ RunEnds \/ RunFails \/ Crash \/ NextDay
           \/ UNCHANGED vars
  <2>1. /\ UNCHANGED <<people, schedules, instances, outdated>>
        /\ today' \in {today, today + 1}
    BY <1>8 DEF Start, MidnightTimer, RunEnds, RunFails, Crash, NextDay, vars,
                data, history
  <2> QED
    BY <2>1 DEF Still
<1> QED
  BY <1>1, <1>2, <1>3, <1>4, <1>5, <1>6, <1>7, <1>8 DEF Next, Ticks

\* Every step does one of these to each schedule.
LEMMA StepOfRows ==
  ASSUME IInv, [Next]_vars, NEW i \in Schedule
  PROVE  Still(i) \/ Ticked(i) \/ Withdrawn(i) \/ Replanned(i)
<1>1. CASE Ticks
  <2>1. PICK j \in Schedule, from \in Status, to \in Status, event \in LogEvent :
           \E r \in instances[j] :
             /\ r.status = from /\ from # to
             /\ instances' = [instances EXCEPT ![j] = (@ \ {r}) \cup
                                 {[r EXCEPT !.status = to, !.log = Append(@, event)]}]
             /\ UNCHANGED <<today, people, schedules, outdated>>
    BY <1>1, TickOfOne
  <2>2. PICK r \in instances[j] :
          /\ r.status = from /\ from # to
          /\ instances' = [instances EXCEPT ![j] = (@ \ {r}) \cup
                              {[r EXCEPT !.status = to, !.log = Append(@, event)]}]
          /\ UNCHANGED <<today, people, schedules, outdated>>
    BY <2>1
  <2>3. instances \in [Schedule -> SUBSET Instance]
    BY DEF IInv, TypeOK
  <2>4. CASE i = j
    <3>1. instances'[i] = (instances[i] \ {r}) \cup
                            {[r EXCEPT !.status = to, !.log = Append(@, event)]}
      BY <2>2, <2>3, <2>4
    <3>2. r \in instances[i] /\ r.status = from /\ from # to
      BY <2>2, <2>4
    <3>3. UNCHANGED <<today, people, schedules, outdated>>
      BY <2>2
    <3> HIDE <2>2, <2>4
    <3> QED
      BY <3>1, <3>2, <3>3, Zenon DEF Ticked
  <2>5. CASE i # j
    BY <2>2, <2>3, <2>5 DEF Still
  <2> QED
    BY <2>4, <2>5
<1>2. CASE ~Ticks
  BY <1>2, StepOfOthers
<1> QED
  BY <1>1, <1>2

-----------------------------------------------------------------------------
(* What is planned is what the schedule says. *)

\* A request under way read the clock today or yesterday.
TimelyRequests ==
  \A k \in Client : requests[k].op # "none" => requests[k].asOf \in {today - 1, today}

LEMMA NextTimely == IInv /\ TimelyRequests /\ [Next]_vars => TimelyRequests'
<1> SUFFICES ASSUME IInv, TimelyRequests, [Next]_vars PROVE TimelyRequests'
  OBVIOUS
<1>0. requests \in [Client -> Request] /\ today \in Nat
  BY DEF IInv, TypeOK
<1>1. CASE UNCHANGED <<today, requests>>
  BY <1>1 DEF TimelyRequests
<1>2. ASSUME NEW k \in Client, Finish(k), UNCHANGED today
      PROVE  TimelyRequests'
  BY <1>0, <1>2 DEF TimelyRequests, Finish, Idle
<1>3. ASSUME NEW k \in Client, NEW op, NEW id, NEW active, Begin(k, op, id, active)
      PROVE  TimelyRequests'
  BY <1>0, <1>3 DEF TimelyRequests, Begin
<1>4. CASE NextDay
  <2>1. today' = today + 1 /\ requests' = requests
    BY <1>4 DEF NextDay
  <2>2. ASSUME NEW k \in Client, requests[k].op # "none" PROVE requests[k].asOf = today
    BY <1>4, <2>2 DEF NextDay, Idle
  <2> QED
    BY <1>0, <2>1, <2>2 DEF TimelyRequests
<1>5. CASE Crash
  BY <1>5 DEF Crash, TimelyRequests, Idle
<1>6. CASE \/ CreatePerson \/ \E c \in Chore : CreateChore(c)
           \/ \E i \in Schedule, c \in Chore, form \in Form : CreateSchedule(i, c, form)
           \/ \E i \in Schedule, form \in Form : UpdateSchedule(i, form)
           \/ \E i \in Schedule : \E r \in instances[i] :
                CompleteInstance(i, r) \/ ReopenInstance(i, r)
           \/ \E i \in Schedule : EnsureSchedule(i)
           \/ Start \/ MidnightTimer \/ RunEnds \/ RunFails \/ UNCHANGED vars
  <2>1. UNCHANGED <<today, requests>>
    BY <1>6 DEF CreatePerson, CreateChore, CreateSchedule, UpdateSchedule,
                CompleteInstance, ReopenInstance, Transition, EnsureSchedule, Start,
                MidnightTimer, RunEnds, RunFails, vars
  <2> QED
    BY <1>1, <2>1
<1>7. CASE \E k \in Client : \/ FinishDeactivateSchedule(k) \/ FinishDeactivateChore(k)
                             \/ FinishUpdateChore(k) \/ Abandon(k)
  <2>1. PICK k \in Client : \/ FinishDeactivateSchedule(k) \/ FinishDeactivateChore(k)
                            \/ FinishUpdateChore(k) \/ Abandon(k)
    BY <1>7
  <2>2. Finish(k) /\ UNCHANGED today
    BY <2>1 DEF FinishDeactivateSchedule, FinishDeactivateChore, FinishUpdateChore, Abandon
  <2> QED
    BY <1>2, <2>2
<1>8. CASE \/ \E k \in Client, i \in Schedule : BeginDeactivateSchedule(k, i)
           \/ \E k \in Client, c \in Chore : BeginDeactivateChore(k, c)
           \/ \E k \in Client, c \in Chore : BeginUpdateChore(k, c)
  BY <1>3, <1>8 DEF BeginDeactivateSchedule, BeginDeactivateChore, BeginUpdateChore
<1> QED
  BY <1>4, <1>5, <1>6, <1>7, <1>8 DEF Next

\* A row nobody has ticked is pending.
LEMMA UntouchedPending ==
  ASSUME NEW rows, WellFormed(rows), NEW r \in rows, r.log = <<>>
  PROVE  r.status = "pending" /\ r.due \in Nat
<1>1. LogAgrees(r) /\ r \in Instance
  BY DEF WellFormed
<1>2. Len(r.log) = 0
  BY EmptySeq
<1> QED
  BY <1>1, <1>2 DEF LogAgrees, Instance, Status

LEMMA NextPlanned == IInv /\ TimelyRequests /\ PlannedAsScheduled /\ [Next]_vars
                       => PlannedAsScheduled'
<1> SUFFICES ASSUME IInv, TimelyRequests, PlannedAsScheduled, [Next]_vars,
                    NEW i \in Schedule, i \notin outdated',
                    NEW r \in instances'[i], r.log = <<>>, r.due >= today'
             PROVE  LET s == schedules'[i]
                    IN /\ s.state = "active"
                       /\ r.due \in Occurrences(s.rule, s.start, s.end, today',
                                                today' + Horizon)
                       /\ r.person = Assignee(s, people', r.seq)
  BY DEF PlannedAsScheduled
<1> DEFINE Right(s, day, roster) ==
             /\ s.state = "active"
             /\ r.due \in Occurrences(s.rule, s.start, s.end, day, day + Horizon)
             /\ r.person = Assignee(s, roster, r.seq)
<1>0. /\ WellFormed(instances[i]) /\ instances[i] \in SUBSET Instance
      /\ today \in Nat /\ schedules[i] \in ScheduleRow /\ Horizon \in Nat
  BY ChoresAssumption DEF IInv, TypeOK, RowsWellFormed, WellFormed
<1>1. ASSUME i \notin outdated, r \in instances[i], r.due >= today
      PROVE  Right(schedules[i], today, people)
  BY <1>1 DEF PlannedAsScheduled
<1>2. r \in instances[i] => r.status = "pending" /\ r.due \in Nat
  BY <1>0, UntouchedPending
<1>3. CASE Still(i)
  <2>1. /\ r \in instances[i] /\ i \notin outdated /\ schedules'[i] = schedules[i]
        /\ today' \in {today, today + 1}
        /\ people' = people \/ ~(Active(i) /\ schedules[i].mode = "rotate")
    BY <1>3 DEF Still
  <2>2. Right(schedules[i], today, people)
    BY <1>0, <1>1, <1>2, <2>1
  <2>3. r.due \in Occurrences(schedules[i].rule, schedules[i].start, schedules[i].end,
                              today', today' + Horizon)
    BY <1>0, <1>2, <2>1, <2>2 DEF Occurrences
  <2>4. Assignee(schedules[i], people', r.seq) = Assignee(schedules[i], people, r.seq)
    <3>1. CASE people' = people
      BY <3>1
    <3>2. CASE schedules[i].mode # "rotate"
      BY <1>0, <3>2 DEF Assignee, ScheduleRow, AssignmentMode
    <3> QED
      BY <2>1, <2>2, <3>1, <3>2 DEF Active
  <2> QED
    BY <2>1, <2>2, <2>3, <2>4
<1>4. CASE Ticked(i)
  <2>1. PICK q \in instances[i], from \in Status, to \in Status, event \in LogEvent :
          instances'[i] = (instances[i] \ {q}) \cup
                            {[q EXCEPT !.status = to, !.log = Append(@, event)]}
    BY <1>4 DEF Ticked
  <2>2. UNCHANGED <<today, people, schedules, outdated>>
    BY <1>4 DEF Ticked
  <2>3. r # [q EXCEPT !.status = to, !.log = Append(@, event)]
    <3>1. q \in Instance
      BY <1>0
    <3>2. q.log \in Seq(LogEvent)
      BY <3>1 DEF Instance
    <3>3. Append(q.log, event) # <<>>
      BY <3>2, AppendProperties, LenProperties, EmptySeq
    <3>4. [q EXCEPT !.status = to, !.log = Append(@, event)].log = Append(q.log, event)
      BY <3>1 DEF Instance
    <3> QED
      BY <3>3, <3>4
  <2>4. r \in instances[i]
    BY <2>1, <2>3
  <2> QED
    BY <1>1, <2>2, <2>4
<1>5. CASE Withdrawn(i)
  <2>1. PICK k \in Client :
          /\ requests[k].op \in {"archiveSchedule", "archiveChore"}
          /\ instances'[i] = WithoutPendingFrom(instances[i], requests[k].asOf)
    BY <1>5 DEF Withdrawn
  <2>2. requests[k].asOf \in {today - 1, today} /\ today' = today
    BY <1>5, <2>1 DEF TimelyRequests, Withdrawn
  <2>3. r \in instances[i] /\ ~(r.status = "pending" /\ r.due >= requests[k].asOf)
    BY <2>1 DEF WithoutPendingFrom
  <2> QED
    BY <1>0, <1>2, <2>2, <2>3
<1>6. CASE Replanned(i)
  <2>1. PICK replace \in BOOLEAN, sched \in ScheduleRow : PlannedFrom(i, replace, sched)
    BY <1>6 DEF Replanned
  <2> DEFINE kept == Kept(instances[i], replace)
  <2>2. /\ today' = today
        /\ instances'[i] = Generated(kept, sched, people')
        /\ WellFormed(kept)
    BY <2>1 DEF PlannedFrom
  <2>3. CASE r \in kept
    <3>1. r \in instances[i] /\ ~replace
      <4>1. r \in instances[i]
        BY <1>0, <2>3, KeptRows
      <4>2. CASE replace = TRUE
        <5>1. r \in Kept(instances[i], TRUE)
          BY <2>3, <4>2
        <5>2. r.status = "done" \/ r.due < today
          BY <1>0, <5>1, ReplacedRows
        <5>3. r.status = "pending" /\ r.due \in Nat /\ r.due >= today
          BY <1>2, <2>2, <4>1
        <5>4. FALSE
          BY <1>0, <5>2, <5>3
        <5> QED
          BY <5>4
      <4>3. CASE replace = FALSE
        BY <4>1, <4>3
      <4> QED
        BY <4>2, <4>3
    <3>2. i \notin outdated
      BY <2>1, <3>1 DEF PlannedFrom
    <3>3. Right(schedules[i], today, people)
      BY <1>1, <2>2, <3>1, <3>2
    <3>4. schedules'[i] = schedules[i] /\ people' = people
      BY <2>1, <3>1, <3>3 DEF PlannedFrom
    <3> QED
      BY <2>2, <3>3, <3>4
  <2>4. CASE r \notin kept
    <3>1. sched.state = "active" /\ r \in Planned(kept, sched, people')
      BY <2>2, <2>4 DEF Generated
    <3>2. kept \in SUBSET Instance /\ Numbered(kept)
      BY <2>2 DEF WellFormed
    <3> HIDE DEF kept
    <3>3. r.due \in Missing(kept, sched) /\ r.person = Assignee(sched, people', r.seq)
      BY <1>0, <3>1, <3>2, PlannedRows
    <3>4. sched = schedules'[i]
      BY <2>1 DEF PlannedFrom
    <3> QED
      BY <2>2, <3>1, <3>3, <3>4 DEF Missing
  <2> QED
    BY <2>3, <2>4
<1> QED
  BY <1>3, <1>4, <1>5, <1>6, StepOfRows

\* Whatever was completed, withdrawn and planned before: what is planned from today on
\* is what the schedule says now, unless a run planned it from an outdated copy.
THEOREM PlansFollowSchedules == Spec => []PlannedAsScheduled
<1>1. Init => TimelyRequests /\ PlannedAsScheduled
  BY DEF Init, TimelyRequests, PlannedAsScheduled, Idle
<1> QED
  BY <1>1, NextTimely, NextPlanned, Invariance, PTL DEF Spec

-----------------------------------------------------------------------------
(* A horizon ahead. *)

\* Whoever plans from the row that is there afterwards fills the horizon.
LEMMA PlanningFills ==
  ASSUME NEW i \in Schedule, NEW kept \in SUBSET Instance, Numbered(kept), today \in Nat,
         today' = today, Active(i)',
         instances'[i] = Generated(kept, schedules'[i], people'),
         NEW t \in Int, t <= today + Horizon
  PROVE  FilledThrough(i, t)'
<1> DEFINE s == schedules'[i]
<1>1. Horizon \in Nat
  BY ChoresAssumption
<1>2. instances'[i] = kept \cup Planned(kept, s, people')
  BY DEF Generated, Active
<1>3. Occurrences(s.rule, s.start, s.end, today, t)
        \subseteq Occurrences(s.rule, s.start, s.end, today, today + Horizon)
  BY <1>1 DEF Occurrences
<1>4. \A d \in Occurrences(s.rule, s.start, s.end, today, today + Horizon) :
        d \in Missing(kept, s) \/ \E r \in kept : r.due = d
  BY DEF Missing
<1> HIDE DEF s
<1>5. \A d \in Missing(kept, s) : \E q \in Planned(kept, s, people') : q.due = d
  BY PlannedRows
<1>6. \A d \in Occurrences(s.rule, s.start, s.end, today, t) :
        \E q \in instances'[i] : q.due = d
  BY <1>2, <1>3, <1>4, <1>5
<1> QED
  BY <1>6 DEF FilledThrough, s

\* What is filled within the horizon stays filled, and an edit fills it.
LEMMA FilledStays ==
  ASSUME IInv, [Next]_vars, NEW i \in Schedule, Active(i)',
         NEW t \in Int, t <= today + Horizon,
         Active(i) /\ schedules'[i] = schedules[i] => FilledThrough(i, t)
  PROVE  FilledThrough(i, t)'
<1>0. /\ today \in Nat /\ instances[i] \in SUBSET Instance
      /\ WellFormed(instances[i])
  BY DEF IInv, TypeOK, RowsWellFormed
<1>1. CASE Still(i)
  <2>1. /\ instances'[i] = instances[i] /\ schedules'[i] = schedules[i]
        /\ today' \in {today, today + 1}
    BY <1>1 DEF Still
  <2>2. FilledThrough(i, t)
    BY <2>1 DEF Active
  <2> QED
    BY <1>0, <2>1, <2>2 DEF FilledThrough, Occurrences
<1>2. CASE Ticked(i)
  <2>1. PICK q \in instances[i], from \in Status, to \in Status, event \in LogEvent :
          instances'[i] = (instances[i] \ {q}) \cup
                            {[q EXCEPT !.status = to, !.log = Append(@, event)]}
    BY <1>2 DEF Ticked
  <2>2. UNCHANGED <<today, schedules>>
    BY <1>2 DEF Ticked
  <2>3. FilledThrough(i, t)
    BY <2>2 DEF Active
  <2>4. [q EXCEPT !.status = to, !.log = Append(@, event)].due = q.due
    BY <1>0 DEF Instance
  <2>5. {r.due : r \in instances[i]} \subseteq {r.due : r \in instances'[i]}
    BY <2>1, <2>4
  <2> QED
    BY <2>2, <2>3, <2>5 DEF FilledThrough
<1>3. CASE Withdrawn(i)
  BY <1>3 DEF Withdrawn, Active
<1>4. CASE Replanned(i)
  <2>1. PICK replace \in BOOLEAN, sched \in ScheduleRow : PlannedFrom(i, replace, sched)
    BY <1>4 DEF Replanned
  <2> DEFINE kept == Kept(instances[i], replace)
  <2>2. /\ today' = today
        /\ instances'[i] = Generated(kept, sched, people')
        /\ kept \in SUBSET Instance /\ Numbered(kept)
    BY <2>1 DEF PlannedFrom, WellFormed
  <2>3. CASE sched = schedules'[i]
    BY <1>0, <2>2, <2>3, PlanningFills
  <2>4. CASE sched # schedules'[i]
    <3>1. FilledThrough(i, t) /\ schedules'[i] = schedules[i] /\ replace = FALSE
      BY <2>1, <2>4 DEF PlannedFrom, Active
    <3>2. kept = instances[i]
      BY <3>1 DEF Kept
    <3>3. instances[i] \subseteq instances'[i]
      BY <2>2, <3>2 DEF Generated
    <3> QED
      BY <2>2, <3>1, <3>3 DEF FilledThrough
  <2> QED
    BY <2>3, <2>4
<1> QED
  BY <1>1, <1>2, <1>3, <1>4, StepOfRows

\* A run sees at most one midnight, and the timer waits for the next one.
OnTime ==
  /\ Maintaining => wake <= today /\ today <= wake + 1
  /\ phase = "waiting" => wake <= today + 1

\* A run has planned every active schedule it no longer has a current copy of.
RunFills ==
  Maintaining =>
    \A i \in Schedule : Active(i) =>
      listed[i] = schedules[i] \/ FilledThrough(i, wake + Horizon)

HInv == OnTime /\ RunFills /\ HorizonFilled

\* Steps that leave the process alone, midnights among them.
LEMMA OthersFill ==
  ASSUME IInv, HInv, [Next]_vars, UNCHANGED <<phase, wake, listed, lastRun>>,
         today' \in {today, today + 1},
         Maintaining => today' = today \/ wake = today
  PROVE  HInv'
<1>0. today \in Nat /\ wake \in Nat /\ Horizon \in Nat
  BY ChoresAssumption DEF IInv, TypeOK
<1>1. OnTime'
  <2>1. phase' = phase /\ wake' = wake
    OBVIOUS
  <2>2. CASE today' = today
    BY <2>1, <2>2 DEF HInv, OnTime, Maintaining
  <2>3. CASE today' = today + 1
    BY <1>0, <2>1, <2>3 DEF HInv, OnTime, Maintaining
  <2> QED
    BY <2>2, <2>3
<1>2. ASSUME NEW i \in Schedule, Active(i)', NEW t \in Int, t <= today + Horizon,
             Active(i) /\ schedules'[i] = schedules[i] => FilledThrough(i, t)
      PROVE  FilledThrough(i, t)'
  BY <1>2, FilledStays
<1>3. RunFills'
  <2> SUFFICES ASSUME Maintaining, NEW i \in Schedule, Active(i)',
                      listed[i] # schedules'[i]
               PROVE  FilledThrough(i, wake + Horizon)'
    BY DEF RunFills, Maintaining
  <2>1. PICK t \in Int : t = wake + Horizon
    BY <1>0
  <2>2. t <= today + Horizon
    BY <1>0, <2>1 DEF HInv, OnTime
  <2>3. Active(i) /\ schedules'[i] = schedules[i] => FilledThrough(i, t)
    BY <2>1 DEF HInv, RunFills
  <2>4. FilledThrough(i, t)'
    BY <1>2, <2>2, <2>3
  <2> QED
    BY <2>1, <2>4 DEF FilledThrough
<1>4. HorizonFilled'
  <2> SUFFICES ASSUME phase = "waiting", lastRun = "ok", NEW i \in Schedule, Active(i)'
               PROVE  FilledThrough(i, wake - 2 + Horizon)'
    BY DEF HorizonFilled
  <2>1. PICK t \in Int : t = wake - 2 + Horizon
    BY <1>0
  <2>2. t <= today + Horizon
    BY <1>0, <2>1 DEF HInv, OnTime
  <2>3. Active(i) => FilledThrough(i, t)
    BY <2>1 DEF HInv, HorizonFilled
  <2>4. FilledThrough(i, t)'
    BY <1>2, <2>2, <2>3
  <2> QED
    BY <2>1, <2>4 DEF FilledThrough
<1> QED
  BY <1>1, <1>3, <1>4 DEF HInv

\* A run plans what it listed; where its copy is outdated, the edit has planned already.
LEMMA EnsureFills ==
  ASSUME IInv, HInv, NEW j \in Schedule, EnsureSchedule(j)
  PROVE  HInv'
<1>0. /\ today \in Nat /\ wake \in Nat /\ Horizon \in Nat
      /\ instances \in [Schedule -> SUBSET Instance]
      /\ listed \in [Schedule -> ScheduleRow]
      /\ \A i \in Schedule : WellFormed(instances[i])
  BY ChoresAssumption DEF IInv, TypeOK, RowsWellFormed
<1>1. /\ Maintaining /\ Maintaining'
      /\ UNCHANGED <<today, people, schedules, phase, wake, lastRun>>
      /\ listed' = [listed EXCEPT ![j] = NoSchedule]
      /\ instances' = [instances EXCEPT
                         ![j] = Generated(Kept(instances[j], FALSE), listed[j], people)]
  BY DEF EnsureSchedule, Maintaining
<1>2. OnTime'
  BY <1>1 DEF HInv, OnTime
<1>3. HorizonFilled'
  BY <1>1 DEF HorizonFilled, Maintaining
<1>4. RunFills'
  <2> SUFFICES ASSUME NEW i \in Schedule, Active(i)', listed'[i] # schedules'[i]
               PROVE  FilledThrough(i, wake + Horizon)'
    BY DEF RunFills
  <2>1. PICK t \in Int : t = wake + Horizon
    BY <1>0
  <2>2. t <= today + Horizon /\ Active(i)
    BY <1>0, <1>1, <2>1 DEF HInv, OnTime, Active
  <2>3. listed[i] = schedules[i] \/ FilledThrough(i, t)
    BY <1>1, <2>1, <2>2 DEF HInv, RunFills
  <2>4. CASE FilledThrough(i, t)
    <3>1. [Next]_vars
      BY DEF Next
    <3>2. FilledThrough(i, t)'
      BY <2>2, <2>4, <3>1, FilledStays
    <3> QED
      BY <1>1, <2>1, <3>2 DEF FilledThrough
  <2>5. CASE listed[i] = schedules[i]
    <3>1. i = j
      BY <1>0, <1>1, <2>5
    <3>2. Kept(instances[i], FALSE) = instances[i]
      BY DEF Kept
    <3>3. instances'[i] = Generated(instances[i], schedules'[i], people')
      BY <1>0, <1>1, <2>5, <3>1, <3>2
    <3>4. instances[i] \in SUBSET Instance /\ Numbered(instances[i])
      BY <1>0 DEF WellFormed
    <3>5. FilledThrough(i, t)'
      BY <1>0, <1>1, <2>2, <3>3, <3>4, PlanningFills
    <3> QED
      BY <1>1, <2>1, <3>5 DEF FilledThrough
  <2> QED
    BY <2>3, <2>4, <2>5
<1> QED
  BY <1>2, <1>3, <1>4 DEF HInv

\* A run begins with a current copy of every active schedule, and ends with none.
LEMMA ProcessFills ==
  ASSUME IInv, HInv, Start \/ MidnightTimer \/ RunEnds \/ RunFails \/ Crash
  PROVE  HInv'
<1>0. today \in Nat /\ wake \in Nat /\ Horizon \in Nat
  BY ChoresAssumption DEF IInv, TypeOK
<1>1. UNCHANGED <<today, schedules, instances>>
  BY DEF Start, MidnightTimer, RunEnds, RunFails, Crash, data
<1>2. CASE Start \/ MidnightTimer
  <2>1. /\ Maintaining' /\ wake' = today /\ phase' # "waiting"
        /\ \A i \in Schedule : Active(i) => listed'[i] = schedules[i]
    BY <1>2 DEF Start, MidnightTimer, ListActive, Maintaining
  <2>2. OnTime' /\ HorizonFilled'
    BY <1>0, <1>1, <2>1 DEF OnTime, HorizonFilled
  <2>3. RunFills'
    BY <1>1, <2>1 DEF RunFills, Active
  <2> QED
    BY <2>2, <2>3 DEF HInv
<1>3. CASE RunEnds
  <2>1. /\ Maintaining /\ phase' = "waiting" /\ wake' = today + 1 /\ lastRun' = lastRun
        /\ \A i \in Schedule : listed[i].state = "absent"
    BY <1>3 DEF RunEnds, Sleep
  <2>2. OnTime' /\ RunFills'
    BY <1>0, <1>1, <2>1 DEF OnTime, RunFills, Maintaining
  <2>3. HorizonFilled'
    <3> SUFFICES ASSUME NEW i \in Schedule, Active(i)
                 PROVE  FilledThrough(i, wake - 2 + Horizon)'
      BY <1>1 DEF HorizonFilled, Active
    <3>1. FilledThrough(i, wake + Horizon)
      BY <2>1 DEF HInv, RunFills, Active
    <3>2. wake' - 2 + Horizon <= wake + Horizon
      BY <1>0, <2>1 DEF HInv, OnTime
    <3> QED
      BY <1>0, <1>1, <2>1, <3>1, <3>2 DEF FilledThrough, Occurrences
  <2> QED
    BY <2>2, <2>3 DEF HInv
<1>4. CASE RunFails
  <2>1. phase' = "waiting" /\ wake' = today + 1 /\ lastRun' = "failed"
    BY <1>4 DEF RunFails, Sleep
  <2> QED
    BY <1>0, <1>1, <2>1 DEF HInv, OnTime, RunFills, HorizonFilled, Maintaining
<1>5. CASE Crash
  <2>1. phase' = "down"
    BY <1>5 DEF Crash
  <2> QED
    BY <2>1 DEF HInv, OnTime, RunFills, HorizonFilled, Maintaining
<1> QED
  BY <1>2, <1>3, <1>4, <1>5

LEMMA NextFills == IInv /\ HInv /\ [Next]_vars => HInv'
<1> SUFFICES ASSUME IInv, HInv, [Next]_vars PROVE HInv'
  OBVIOUS
<1>1. CASE \E j \in Schedule : EnsureSchedule(j)
  BY <1>1, EnsureFills
<1>2. CASE Start \/ MidnightTimer \/ RunEnds \/ RunFails \/ Crash
  BY <1>2, ProcessFills
<1>3. CASE NextDay \/ UNCHANGED vars
  <2>1. /\ UNCHANGED <<phase, wake, listed, lastRun>>
        /\ today' \in {today, today + 1}
        /\ Maintaining => today' = today \/ wake = today
    BY <1>3 DEF NextDay, vars, process
  <2> QED
    BY <2>1, OthersFill
<1>4. CASE \/ CreatePerson \/ \E c \in Chore : CreateChore(c)
           \/ \E i \in Schedule, c \in Chore, form \in Form : CreateSchedule(i, c, form)
           \/ \E i \in Schedule, form \in Form : UpdateSchedule(i, form)
           \/ \E i \in Schedule : \E r \in instances[i] :
                CompleteInstance(i, r) \/ ReopenInstance(i, r)
           \/ \E k \in Client, i \in Schedule : BeginDeactivateSchedule(k, i)
           \/ \E k \in Client, c \in Chore : BeginDeactivateChore(k, c)
           \/ \E k \in Client, c \in Chore : BeginUpdateChore(k, c)
           \/ \E k \in Client : \/ FinishDeactivateSchedule(k) \/ FinishDeactivateChore(k)
                                \/ FinishUpdateChore(k) \/ Abandon(k)
  <2>1. UNCHANGED <<today, phase, wake, listed, lastRun>>
    BY <1>4 DEF CreatePerson, CreateChore, CreateSchedule, UpdateSchedule,
                CompleteInstance, ReopenInstance, Transition, BeginDeactivateSchedule,
                BeginDeactivateChore, BeginUpdateChore, Begin, FinishDeactivateSchedule,
                FinishDeactivateChore, FinishUpdateChore, Abandon, process
  <2> QED
    BY <2>1, OthersFill
<1> QED
  BY <1>1, <1>2, <1>3, <1>4 DEF Next

\* Between two runs that do not fail, every active schedule is planned a horizon ahead,
\* whatever was edited, withdrawn and ticked during and since the last one.
THEOREM HorizonStaysFilled == Spec => []HorizonFilled
<1>1. Init => HInv
  BY DEF Init, HInv, OnTime, RunFills, HorizonFilled, Maintaining
<1>2. HInv => HorizonFilled
  BY DEF HInv
<1>3. Spec => []HInv
  BY <1>1, NextFills, Invariance, PTL DEF Spec
<1> QED
  BY <1>2, <1>3, PTL

\* A run that ends without an error of its own, on the day it began or over a midnight,
\* leaves no active schedule unplanned: one its list lacks was planned by the request that
\* saved it.
THEOREM RunsFillTheHorizon == Spec => RunsFill
<1>1. ASSUME IInv, HInv, [Next]_vars, Maintaining, phase' = "waiting", lastRun' # "failed",
             NEW d \in {wake}, NEW i \in Schedule, Active(i)'
      PROVE  FilledThrough(i, d + Horizon)'
  <2>1. Maintaining' = FALSE /\ ~UNCHANGED phase
    BY <1>1 DEF Maintaining
  <2>2. RunEnds
    BY <1>1, <2>1
    DEF Next, vars, data, process, Maintaining, CreatePerson, CreateChore, CreateSchedule,
        UpdateSchedule, CompleteInstance, ReopenInstance, Transition,
        BeginDeactivateSchedule, BeginDeactivateChore, BeginUpdateChore, Begin,
        FinishDeactivateSchedule, FinishDeactivateChore, FinishUpdateChore, Abandon,
        Start, MidnightTimer, EnsureSchedule, RunFails, Crash, NextDay
  <2>3. FilledThrough(i, wake + Horizon)
    BY <1>1, <2>2 DEF HInv, RunFills, RunEnds, data, Active
  <2> QED
    BY <2>2, <2>3 DEF RunEnds, data, FilledThrough
<1>2. IInv /\ HInv /\ [Next]_vars =>
        [\A d \in {wake} : Maintaining /\ phase' = "waiting" =>
           \/ lastRun' = "failed"
           \/ \A i \in Schedule : Active(i)' => FilledThrough(i, d + Horizon)']_vars
  BY <1>1
<1>3. Init => HInv
  BY DEF Init, HInv, OnTime, RunFills, HorizonFilled, Maintaining
<1>4. Spec => []HInv
  BY <1>3, NextFills, Invariance, PTL DEF Spec
<1> QED
  BY <1>2, <1>4, Invariance, PTL DEF Spec, RunsFill

-----------------------------------------------------------------------------
(* History, and what is planned after it. *)

\* The cut-off is today or the day before, and no archiving goes back behind it.
LEMMA CutOffBounds ==
  ASSUME IInv, TimelyRequests
  PROVE  /\ CutOff \in {today - 1, today}
         /\ \A k \in Client : requests[k].op \in {"archiveSchedule", "archiveChore"}
              => CutOff <= requests[k].asOf
<1>1. today \in Nat
  BY DEF IInv, TypeOK
<1> QED
  BY <1>1 DEF CutOff, TimelyRequests

\* A log is the beginning of itself, and of what an event more makes of it.
LEMMA LogGrows ==
  ASSUME NEW log \in Seq(LogEvent), NEW event \in LogEvent
  PROVE  /\ SubSeq(log, 1, Len(log)) = log
         /\ SubSeq(Append(log, event), 1, Len(log)) = log
         /\ Len(Append(log, event)) >= Len(log)
<1>1. /\ Len(log) \in Nat
      /\ Append(log, event) \in Seq(LogEvent)
      /\ Len(Append(log, event)) = Len(log) + 1
      /\ \A n \in 1..Len(log) : Append(log, event)[n] = log[n]
  BY AppendProperties, LenProperties
<1>2. \A n \in 1..Len(log) : Append(log, event)[n] \in LogEvent
  BY <1>1, ElementOfSeq
<1> DEFINE begin == SubSeq(Append(log, event), 1, Len(log))
<1>3. /\ begin \in Seq(LogEvent)
      /\ Len(begin) = Len(log)
      /\ \A n \in 1..Len(log) : begin[n] = log[n]
  <2>1. 1 \in Int /\ Len(log) \in Int
    BY <1>1
  <2>2. /\ begin \in Seq(LogEvent)
        /\ Len(begin) = IF 1 <= Len(log) THEN Len(log) - 1 + 1 ELSE 0
        /\ \A n \in 1..(Len(log) - 1 + 1) : begin[n] = Append(log, event)[1 + n - 1]
    BY <1>2, <2>1, SubSeqProperties
  <2> HIDE DEF begin
  <2> QED
    BY <1>1, <2>2
<1> HIDE DEF begin
<1>4. begin = log
  BY <1>3, SeqEqual
<1> QED
  BY <1>1, <1>4, SubSeqFull DEF begin

\* A row r lives on in q: the same occurrence, with at least its log.
Continues(q, r) ==
  /\ q.due = r.due /\ q.seq = r.seq /\ q.person = r.person
  /\ Len(q.log) >= Len(r.log)
  /\ SubSeq(q.log, 1, Len(r.log)) = r.log

LEMMA HistoryStep ==
  ASSUME IInv, TimelyRequests, [Next]_vars, NEW i \in Schedule, NEW r \in instances[i],
         r.status = "done" \/ r.due < CutOff
  PROVE  \E q \in instances'[i] : Continues(q, r)
<1>0. /\ today \in Nat /\ instances[i] \in SUBSET Instance
      /\ r \in Instance /\ r.log \in Seq(LogEvent) /\ r.due \in Nat
  BY DEF IInv, TypeOK, RowsWellFormed, Instance
<1>1. CutOff \in {today - 1, today}
  BY CutOffBounds
<1>2. Continues(r, r)
  <2>1. Len(r.log) \in Nat
    BY <1>0, LenProperties
  <2> QED
    BY <1>0, <2>1, SubSeqFull DEF Continues
<1>3. CASE Still(i)
  BY <1>2, <1>3 DEF Still
<1>4. CASE Ticked(i)
  <2>1. PICK p \in instances[i], from \in Status, to \in Status, event \in LogEvent :
          instances'[i] = (instances[i] \ {p}) \cup
                            {[p EXCEPT !.status = to, !.log = Append(@, event)]}
    BY <1>4 DEF Ticked
  <2>2. CASE r # p
    BY <1>2, <2>1, <2>2
  <2>3. CASE r = p
    <3>1. PICK q : q = [r EXCEPT !.status = to, !.log = Append(@, event)]
      OBVIOUS
    <3>2. /\ q.due = r.due /\ q.seq = r.seq /\ q.person = r.person
          /\ q.log = Append(r.log, event)
      BY <1>0, <3>1 DEF Instance
    <3>3. Continues(q, r)
      BY <1>0, <3>2, LogGrows DEF Continues
    <3> QED
      BY <2>1, <2>3, <3>1, <3>3
  <2> QED
    BY <2>2, <2>3
<1>5. CASE Withdrawn(i)
  <2>1. PICK k \in Client :
          /\ requests[k].op \in {"archiveSchedule", "archiveChore"}
          /\ instances'[i] = WithoutPendingFrom(instances[i], requests[k].asOf)
    BY <1>5 DEF Withdrawn
  <2>2. CutOff <= requests[k].asOf /\ requests[k].asOf \in {today - 1, today}
    BY <2>1, CutOffBounds DEF TimelyRequests
  <2>3. r \in instances'[i]
    BY <1>0, <1>1, <2>1, <2>2 DEF WithoutPendingFrom
  <2> QED
    BY <1>2, <2>3
<1>6. CASE Replanned(i)
  <2>1. PICK replace \in BOOLEAN, sched \in ScheduleRow : PlannedFrom(i, replace, sched)
    BY <1>6 DEF Replanned
  <2>2. r.status = "done" \/ r.due < today
    BY <1>0, <1>1
  <2>3. r \in Kept(instances[i], replace)
    BY <1>0, <2>2, KeptRows
  <2>4. r \in instances'[i]
    BY <2>1, <2>3 DEF PlannedFrom, Generated
  <2> QED
    BY <1>2, <2>4
<1> QED
  BY <1>3, <1>4, <1>5, <1>6, StepOfRows

\* No edit, archiving, replanning or maintenance touches what was completed or was due
\* before the cut-off: number and assignee stay, and the log only grows.
THEOREM HistoryIsKept == Spec => HistoryKept
<1>1. Init => TimelyRequests
  BY DEF Init, TimelyRequests, Idle
<1>2. IInv /\ TimelyRequests /\ [Next]_vars =>
        [\A i \in Schedule : \A r \in instances[i] :
           r.status = "done" \/ r.due < CutOff =>
             \E q \in instances'[i] :
               /\ q.due = r.due /\ q.seq = r.seq /\ q.person = r.person
               /\ Len(q.log) >= Len(r.log)
               /\ SubSeq(q.log, 1, Len(r.log)) = r.log]_vars
  BY HistoryStep DEF Continues
<1> QED
  BY <1>1, <1>2, NextTimely, Invariance, PTL DEF Spec, HistoryKept

\* The rows of dates that had none come from generate.
LEMMA NewRows ==
  ASSUME IInv, [Next]_vars, NEW i \in Schedule, NEW q \in instances'[i],
         \A r \in instances[i] : r.due # q.due
  PROVE  \E replace \in BOOLEAN, sched \in ScheduleRow :
           /\ PlannedFrom(i, replace, sched)
           /\ sched.state = "active"
           /\ q \in Planned(Kept(instances[i], replace), sched, people')
<1>0. today \in Nat /\ instances[i] \in SUBSET Instance
  BY DEF IInv, TypeOK
<1>1. q \notin instances[i]
  OBVIOUS
<1>2. ~Still(i) /\ ~Withdrawn(i)
  BY <1>1 DEF Still, Withdrawn, WithoutPendingFrom
<1>3. ~Ticked(i)
  <2> SUFFICES ASSUME Ticked(i) PROVE FALSE
    OBVIOUS
  <2>1. PICK p \in instances[i], from \in Status, to \in Status, event \in LogEvent :
          instances'[i] = (instances[i] \ {p}) \cup
                            {[p EXCEPT !.status = to, !.log = Append(@, event)]}
    BY DEF Ticked
  <2>2. q = [p EXCEPT !.status = to, !.log = Append(@, event)]
    BY <1>1, <2>1
  <2>3. q.due = p.due
    BY <1>0, <2>2 DEF Instance
  <2> QED
    BY <2>3
<1>4. PICK replace \in BOOLEAN, sched \in ScheduleRow : PlannedFrom(i, replace, sched)
  BY <1>2, <1>3, StepOfRows DEF Replanned
<1>5. q \notin Kept(instances[i], replace)
  BY <1>0, <1>1, KeptRows
<1> QED
  BY <1>4, <1>5 DEF PlannedFrom, Generated

\* What a step adds: rows of the horizon, numbered in date order after history.
LEMMA AddedRows ==
  ASSUME IInv, [Next]_vars, NEW i \in Schedule
  PROVE  LET kept == {r \in instances[i] : r.status = "done" \/ r.due < today}
             new == {q \in instances'[i] : \A r \in instances[i] : r.due # q.due}
         IN \A q \in new :
              /\ q.due \in today..(today + Horizon)
              /\ \A r \in kept : r.seq < q.seq
              /\ \A r \in new : r.due < q.due => r.seq < q.seq
<1> DEFINE new == {q \in instances'[i] : \A r \in instances[i] : r.due # q.due}
<1> SUFFICES ASSUME NEW q \in new
             PROVE  /\ q.due \in today..(today + Horizon)
                    /\ \A r \in instances[i] :
                         r.status = "done" \/ r.due < today => r.seq < q.seq
                    /\ \A r \in new : r.due < q.due => r.seq < q.seq
  OBVIOUS
<1>0. /\ today \in Nat /\ instances[i] \in SUBSET Instance
      /\ WellFormed(instances[i])
  BY DEF IInv, TypeOK, RowsWellFormed
<1>1. PICK replace \in BOOLEAN, sched \in ScheduleRow :
        /\ PlannedFrom(i, replace, sched)
        /\ sched.state = "active"
        /\ q \in Planned(Kept(instances[i], replace), sched, people')
  BY NewRows
<1> DEFINE left == Kept(instances[i], replace)
<1>2. /\ left \in SUBSET instances[i]
      /\ \A r \in instances[i] : r.status = "done" \/ r.due < today => r \in left
  BY <1>0, KeptRows
<1>3. left \in SUBSET Instance /\ Numbered(left)
  BY <1>1 DEF PlannedFrom, WellFormed
<1>4. instances'[i] = left \cup Planned(left, sched, people')
  BY <1>1 DEF PlannedFrom, Generated
<1> HIDE DEF left
<1>5. /\ q.due \in Missing(left, sched)
      /\ \A r \in left : r.seq < q.seq
  BY <1>0, <1>1, <1>3, PlannedRows DEF left
<1>6. q.due \in today..(today + Horizon)
  BY <1>5 DEF Missing, Occurrences
<1>7. ASSUME NEW r \in new, r.due < q.due
      PROVE  r.seq < q.seq
  <2>1. r \in Planned(left, sched, people') /\ q \in Planned(left, sched, people')
    BY <1>1, <1>2, <1>4 DEF left
  <2> QED
    BY <1>0, <1>3, <1>7, <2>1, PlannedRows
<1> QED
  BY <1>2, <1>5, <1>6, <1>7

\* New dates lie ahead, within the horizon, and their numbers continue history.
THEOREM PlansLieAhead == Spec => PlannedAhead
<1>1. IInv /\ [Next]_vars =>
        [\A i \in Schedule :
           LET kept == {r \in instances[i] : r.status = "done" \/ r.due < today}
               new == {q \in instances'[i] : \A r \in instances[i] : r.due # q.due}
           IN \A q \in new :
                /\ q.due \in today..(today + Horizon)
                /\ \A r \in kept : r.seq < q.seq
                /\ \A r \in new : r.due < q.due => r.seq < q.seq]_vars
  BY AddedRows
<1> QED
  BY <1>1, Invariance, PTL DEF Spec, PlannedAhead

\* Only a run with a copy from before the archiving revives an archived schedule.
THEOREM ArchivedStayEmpty == Spec => OnlyStaleRunRevives
<1>1. ASSUME IInv, [Next]_vars, NEW i \in Schedule, schedules'[i].state = "archived",
             NEW q \in instances'[i], \A r \in instances[i] : r.due # q.due
      PROVE  Maintaining /\ listed[i].state = "active"
  <2>1. PICK replace \in BOOLEAN, sched \in ScheduleRow :
          PlannedFrom(i, replace, sched) /\ sched.state = "active"
    BY <1>1, NewRows
  <2> QED
    BY <1>1, <2>1 DEF PlannedFrom
<1>2. IInv /\ [Next]_vars =>
        [\A i \in Schedule :
           /\ schedules'[i].state = "archived"
           /\ \E q \in instances'[i] : \A r \in instances[i] : r.due # q.due
           => Maintaining /\ listed[i].state = "active"]_vars
  BY <1>1
<1> QED
  BY <1>2, Invariance, PTL DEF Spec, OnlyStaleRunRevives

-----------------------------------------------------------------------------
(* The household's ledger. *)

\* The dates of the rows of one schedule that have a status.
DatesIn(rows, status) == {r.due : r \in {q \in rows : q.status = status}}

\* What a ledger keeps of a step that ticks nothing: what is done stays done, only dates
\* from yesterday on are withdrawn, and only dates of the horizon that are neither open
\* nor done are planned.
LEMMA RowsOfLedger ==
  ASSUME IInv, TimelyRequests, [Next]_vars, ~Ticks, today' = today, NEW i \in Schedule
  PROVE  /\ DatesIn(instances'[i], "done") = DatesIn(instances[i], "done")
         /\ \A d \in DatesIn(instances[i], "pending") \ DatesIn(instances'[i], "pending") :
              d >= today - 1
         /\ \A d \in DatesIn(instances'[i], "pending") \ DatesIn(instances[i], "pending") :
              d \in today..(today + Horizon) /\ d \notin DatesIn(instances[i], "done")
<1>0. /\ today \in Nat /\ instances[i] \in SUBSET Instance
      /\ \A r \in instances[i] : r.due \in Nat /\ r.status \in {"pending", "done"}
  BY DEF IInv, TypeOK, Instance, Status
<1>1. CASE Still(i)
  BY <1>1 DEF Still
<1>2. CASE Withdrawn(i)
  <2>1. PICK k \in Client :
          /\ requests[k].op \in {"archiveSchedule", "archiveChore"}
          /\ instances'[i] = WithoutPendingFrom(instances[i], requests[k].asOf)
    BY <1>2 DEF Withdrawn
  <2>2. requests[k].asOf \in {today - 1, today}
    BY <2>1 DEF TimelyRequests
  <2>3. instances'[i] = {r \in instances[i] : ~(r.status = "pending" /\ r.due >= requests[k].asOf)}
    BY <2>1 DEF WithoutPendingFrom
  <2>4. DatesIn(instances'[i], "done") = DatesIn(instances[i], "done")
    BY <2>3 DEF DatesIn
  <2>5. ASSUME NEW r \in instances[i], r.status = "pending", r \notin instances'[i]
        PROVE  r.due >= today - 1
    BY <1>0, <2>2, <2>3, <2>5
  <2> QED
    BY <2>3, <2>4, <2>5 DEF DatesIn
<1>3. CASE Replanned(i)
  <2>1. PICK replace \in BOOLEAN, sched \in ScheduleRow : PlannedFrom(i, replace, sched)
    BY <1>3 DEF Replanned
  <2> DEFINE left == Kept(instances[i], replace)
             new == IF sched.state = "active" THEN Planned(left, sched, people') ELSE {}
  <2>2. /\ instances'[i] = left \cup new
        /\ left \in SUBSET Instance /\ Numbered(left)
    BY <2>1 DEF PlannedFrom, Generated, WellFormed
  <2>3. /\ left \in SUBSET instances[i]
        /\ \A r \in instances[i] : r.status = "done" \/ r.due < today => r \in left
    BY <1>0, KeptRows
  <2> HIDE DEF left
  <2>4. \A q \in new : q.due \in Missing(left, sched) /\ q.status = "pending"
    BY <1>0, <2>2, PlannedRows
  <2>5. \A q \in new : /\ q.due \in today..(today + Horizon)
                       /\ \A r \in left : r.due # q.due
                       /\ q.status = "pending"
    BY <2>4 DEF Missing, Occurrences
  <2> HIDE DEF new
  <2>6. DatesIn(instances'[i], "done") = DatesIn(instances[i], "done")
    BY <2>2, <2>3, <2>5 DEF DatesIn
  <2>7. ASSUME NEW r \in instances[i], r.status = "pending", r \notin instances'[i]
        PROVE  r.due >= today - 1
    BY <1>0, <2>2, <2>3, <2>7
  <2>8. \A d \in DatesIn(instances[i], "pending") \ DatesIn(instances'[i], "pending") :
          d >= today - 1
    BY <2>7 DEF DatesIn
  <2>9. \A d \in DatesIn(instances'[i], "pending") \ DatesIn(instances[i], "pending") :
          d \in today..(today + Horizon) /\ d \notin DatesIn(instances[i], "done")
    BY <2>2, <2>3, <2>5 DEF DatesIn
  <2> QED
    BY <2>6, <2>8, <2>9
<1> QED
  BY <1>1, <1>2, <1>3, StepOfOthers

LEMMA LedgerReplan ==
  ASSUME IInv, TimelyRequests, [Next]_vars, ~Ticks, today' = today
  PROVE  Ledger!Replan
<1> DEFINE Open(i) == DatesIn(instances[i], "pending")
           Done(i) == DatesIn(instances[i], "done")
           Open2(i) == DatesIn(instances'[i], "pending")
           Done2(i) == DatesIn(instances'[i], "done")
<1>1. \A i \in Schedule : /\ Done2(i) = Done(i)
                          /\ \A d \in Open(i) \ Open2(i) : d >= today - 1
                          /\ \A d \in Open2(i) \ Open(i) :
                               d \in today..(today + Horizon) /\ d \notin Done(i)
  BY RowsOfLedger
<1>2. /\ InStatus("pending") = UNION {{<<i, d>> : d \in Open(i)} : i \in Schedule}
      /\ InStatus("done") = UNION {{<<i, d>> : d \in Done(i)} : i \in Schedule}
      /\ InStatus("pending")' = UNION {{<<i, d>> : d \in Open2(i)} : i \in Schedule}
      /\ InStatus("done")' = UNION {{<<i, d>> : d \in Done2(i)} : i \in Schedule}
  BY DEF InStatus, DatesIn
<1> HIDE DEF Open, Done, Open2, Done2
<1>3. InStatus("done")' = InStatus("done")
  <2>1. {{<<i, d>> : d \in Done2(i)} : i \in Schedule} = {{<<i, d>> : d \in Done(i)} : i \in Schedule}
    BY <1>1
  <2> QED
    BY <1>2, <2>1
<1>4. ASSUME NEW o \in InStatus("pending") \ InStatus("pending")'
      PROVE  o[2] >= today - 1
  BY <1>1, <1>2
<1>5. ASSUME NEW o \in InStatus("pending")' \ InStatus("pending")
      PROVE  o \in (Schedule \X (today..(today + Horizon))) \ (InStatus("pending") \cup InStatus("done"))
  <2>1. PICK i \in Schedule : \E d \in Open2(i) : o = <<i, d>>
    BY <1>2
  <2>2. PICK d \in Open2(i) : o = <<i, d>>
    BY <2>1
  <2>3. d \notin Open(i)
    BY <1>2, <2>2
  <2>4. d \in today..(today + Horizon) /\ d \notin Done(i)
    BY <1>1, <2>2, <2>3
  <2>5. o \notin InStatus("done")
    BY <1>2, <2>2, <2>4
  <2> QED
    BY <2>2, <2>4, <2>5
<1> QED
  BY <1>3, <1>4, <1>5 DEF Ledger!Replan, Ledger!Withdrawable, Ledger!Plannable

\* What a ledger keeps of a button of a card: one occurrence changes sides.
LEMMA LedgerTick ==
  ASSUME IInv, Ticks
  PROVE  \E from, to \in Status :
           /\ from # to
           /\ UNCHANGED today
           /\ \E o \in InStatus(from) : /\ InStatus(from)' = InStatus(from) \ {o}
                                        /\ InStatus(to)' = InStatus(to) \cup {o}
<1>1. PICK j \in Schedule, from \in Status, to \in Status, event \in LogEvent :
           \E r \in instances[j] :
             /\ r.status = from /\ from # to
             /\ instances' = [instances EXCEPT ![j] = (@ \ {r}) \cup
                                 {[r EXCEPT !.status = to, !.log = Append(@, event)]}]
             /\ UNCHANGED <<today, people, schedules, outdated>>
  BY TickOfOne
<1>2. PICK r \in instances[j] :
             /\ r.status = from /\ from # to
             /\ instances' = [instances EXCEPT ![j] = (@ \ {r}) \cup
                                 {[r EXCEPT !.status = to, !.log = Append(@, event)]}]
             /\ UNCHANGED <<today, people, schedules, outdated>>
  BY <1>1
<1>3. PICK q : q = [r EXCEPT !.status = to, !.log = Append(@, event)]
  OBVIOUS
<1>4. /\ instances \in [Schedule -> SUBSET Instance]
      /\ r \in Instance
      /\ \A p \in instances[j] : p.due = r.due => p = r
  BY DEF IInv, TypeOK, RowsWellFormed, WellFormed, DistinctRows
<1>5. q.due = r.due /\ q.status = to
  BY <1>3, <1>4 DEF Instance
<1>6. /\ instances'[j] = (instances[j] \ {r}) \cup {q}
      /\ \A i \in Schedule : i # j => instances'[i] = instances[i]
  BY <1>2, <1>3, <1>4
<1> DEFINE o == <<j, r.due>>
<1>7. \A status, p : p \in InStatus(status) <=>
        \E i \in Schedule : \E s \in instances[i] : s.status = status /\ p = <<i, s.due>>
  BY DEF InStatus
<1>8. \A status, p : p \in InStatus(status)' <=>
        \E i \in Schedule : \E s \in instances'[i] : s.status = status /\ p = <<i, s.due>>
  BY DEF InStatus
<1>9. o \in InStatus(from)
  BY <1>2, <1>7
<1>10. InStatus(from)' = InStatus(from) \ {o}
  <2>1. ASSUME NEW p \in InStatus(from)'
        PROVE  p \in InStatus(from) \ {o}
    <3>1. PICK i \in Schedule : \E s \in instances'[i] : s.status = from /\ p = <<i, s.due>>
      BY <1>8, <2>1
    <3>2. PICK s \in instances'[i] : s.status = from /\ p = <<i, s.due>>
      BY <3>1
    <3>3. s \in instances[i] /\ (i = j => s # r)
      BY <1>2, <1>5, <1>6, <3>2
    <3> QED
      BY <1>4, <1>7, <3>2, <3>3
  <2>2. ASSUME NEW p \in InStatus(from) \ {o}
        PROVE  p \in InStatus(from)'
    <3>1. PICK i \in Schedule : \E s \in instances[i] : s.status = from /\ p = <<i, s.due>>
      BY <1>7, <2>2
    <3>2. PICK s \in instances[i] : s.status = from /\ p = <<i, s.due>>
      BY <3>1
    <3>3. s \in instances'[i]
      BY <1>6, <2>2, <3>2
    <3> QED
      BY <1>8, <3>2, <3>3
  <2> QED
    BY <2>1, <2>2
<1>11. InStatus(to)' = InStatus(to) \cup {o}
  <2>1. ASSUME NEW p \in InStatus(to)'
        PROVE  p \in InStatus(to) \cup {o}
    <3>1. PICK i \in Schedule : \E s \in instances'[i] : s.status = to /\ p = <<i, s.due>>
      BY <1>8, <2>1
    <3>2. PICK s \in instances'[i] : s.status = to /\ p = <<i, s.due>>
      BY <3>1
    <3>3. s \in instances[i] \/ (i = j /\ s = q)
      BY <1>6, <3>2
    <3> QED
      BY <1>5, <1>7, <3>2, <3>3
  <2>2. o \in InStatus(to)'
    BY <1>5, <1>6, <1>8
  <2>3. ASSUME NEW p \in InStatus(to)
        PROVE  p \in InStatus(to)'
    <3>1. PICK i \in Schedule : \E s \in instances[i] : s.status = to /\ p = <<i, s.due>>
      BY <1>7, <2>3
    <3>2. PICK s \in instances[i] : s.status = to /\ p = <<i, s.due>>
      BY <3>1
    <3>3. s \in instances'[i]
      BY <1>2, <1>6, <3>2
    <3> QED
      BY <1>8, <3>2, <3>3
  <2> QED
    BY <2>1, <2>2, <2>3
<1> QED
  BY <1>1, <1>2, <1>9, <1>10, <1>11

\* Only midnight moves the date, and it leaves the rows alone.
LEMMA DateStep ==
  ASSUME [Next]_vars
  PROVE  today' = today \/ Ledger!NextDay
<1>1. CASE NextDay
  <2>1. InStatus("pending")' = InStatus("pending") /\ InStatus("done")' = InStatus("done")
    BY <1>1 DEF NextDay, data, InStatus
  <2> QED
    BY <1>1, <2>1 DEF NextDay, Ledger!NextDay
<1> QED
  BY <1>1 DEF Next, vars, CreatePerson, CreateChore, CreateSchedule, UpdateSchedule,
    CompleteInstance, ReopenInstance, Transition, BeginDeactivateSchedule,
    BeginDeactivateChore, BeginUpdateChore, Begin, FinishDeactivateSchedule,
    FinishDeactivateChore, FinishUpdateChore, Abandon, Start, MidnightTimer,
    EnsureSchedule, RunEnds, RunFails, Crash

LEMMA LedgerStep ==
  ASSUME IInv, TimelyRequests, [Next]_vars
  PROVE  [Ledger!Next]_(Ledger!vars)
<1>1. CASE Ticks
  <2>1. PICK from \in Status, to \in Status :
           /\ from # to
           /\ UNCHANGED today
           /\ \E o \in InStatus(from) : /\ InStatus(from)' = InStatus(from) \ {o}
                                        /\ InStatus(to)' = InStatus(to) \cup {o}
    BY <1>1, LedgerTick
  <2>2. CASE from = "pending"
    <3>1. to = "done"
      BY <2>1, <2>2 DEF Status
    <3> QED
      BY <2>1, <2>2, <3>1 DEF Ledger!Next, Ledger!Tick
  <2>3. CASE from = "done"
    <3>1. to = "pending"
      BY <2>1, <2>3 DEF Status
    <3> QED
      BY <2>1, <2>3, <3>1 DEF Ledger!Next, Ledger!Untick
  <2> QED
    BY <2>2, <2>3 DEF Status
<1>2. CASE ~Ticks
  BY <1>2, LedgerReplan, DateStep DEF Ledger!Next
<1> QED
  BY <1>1, <1>2

\* Chores implements the ledger of occurrences.
THEOREM ChoresImplementLedger == Spec => ImplementsLedger
<1>1. Init => Ledger!Init
  BY DEF Init, Ledger!Init, InStatus
<1>2. IInv /\ TimelyRequests /\ [Next]_vars => [Ledger!Next]_(Ledger!vars)
  BY LedgerStep
<1>3. Init => TimelyRequests
  BY DEF Init, TimelyRequests, Idle
<1> QED
  BY <1>1, <1>2, <1>3, Invariance, NextTimely, PTL DEF Spec, ImplementsLedger, Ledger!Spec

-----------------------------------------------------------------------------
(* Turns: whom Assignee of assignment.go picks, by a remainder taken twice. *)

LEMMA Division ==
  ASSUME NEW n \in Nat \ {0}, NEW a \in Nat
  PROVE  a \div n \in Nat /\ a % n \in 0..(n - 1) /\ a = n * (a \div n) + (a % n)
BY SMT

LEMMA Remainder ==
  ASSUME NEW n \in Nat \ {0}, NEW q \in Nat, NEW r \in 0..(n - 1)
  PROVE  (n * q + r) % n = r
<1> DEFINE a == n * q + r
<1>1. a \in Nat
  BY SMT
<1> HIDE DEF a
<1>2. PICK p \in Nat, s \in 0..(n - 1) : a = n * p + s /\ s = a % n
  BY <1>1, Division
<1>3. n * p + s = n * q + r
  BY <1>2 DEF a
<1>4. ~ (p < q)
  <2> SUFFICES ASSUME p + 1 <= q PROVE FALSE
    OBVIOUS
  <2>1. n * (p + 1) <= n * q
    BY SMT
  <2>2. n * (p + 1) = n * p + n
    BY SMT
  <2> QED
    BY <1>3, <2>1, <2>2, SMT
<1>5. ~ (q < p)
  <2> SUFFICES ASSUME q + 1 <= p PROVE FALSE
    OBVIOUS
  <2>1. n * (q + 1) <= n * p
    BY SMT
  <2>2. n * (q + 1) = n * q + n
    BY SMT
  <2> QED
    BY <1>3, <2>1, <2>2, SMT
<1>6. p = q
  BY <1>4, <1>5
<1>7. s = r
  BY <1>3, <1>6, SMT
<1> QED
  BY <1>2, <1>7 DEF a

\* A remainder may be taken before an addition or after it.
LEMMA SumOfRemainders ==
  ASSUME NEW n \in Nat \ {0}, NEW a \in Nat, NEW b \in Nat
  PROVE  (a + (b % n)) % n = (a + b) % n
<1>1. PICK q \in Nat, r \in 0..(n - 1) : b = n * q + r /\ r = b % n
  BY Division
<1>2. PICK p \in Nat, s \in 0..(n - 1) : a + r = n * p + s
  <2>1. a + r \in Nat
    OBVIOUS
  <2> QED
    BY <2>1, Division
<1>3. (a + r) % n = s
  BY <1>2, Remainder
<1>4. a + b = n * (p + q) + s
  BY <1>1, <1>2, SMT
<1>5. (a + b) % n = s
  <2>1. p + q \in Nat
    OBVIOUS
  <2>2. (n * (p + q) + s) % n = s
    BY <2>1, Remainder
  <2> QED
    BY <1>4, <2>2
<1> QED
  BY <1>1, <1>3, <1>5

\* Among n successive numbers each remainder is met once.
LEMMA EveryRemainder ==
  ASSUME NEW n \in Nat \ {0}, NEW a \in Nat, NEW r \in 0..(n - 1)
  PROVE  /\ \E k \in 0..(n - 1) : (a + k) % n = r
         /\ \A j \in 0..(n - 1), k \in 0..(n - 1) : (a + j) % n = (a + k) % n => j = k
<1>1. PICK q \in Nat, c \in 0..(n - 1) : a = n * q + c
  BY Division
<1>2. ASSUME NEW k \in 0..(n - 1)
      PROVE  (a + k) % n = IF c + k < n THEN c + k ELSE (c + k) - n
  <2>1. CASE c + k < n
    <3>1. (n * q + (c + k)) % n = c + k
      <4>1. c + k \in 0..(n - 1)
        BY <2>1
      <4> QED
        BY <4>1, Remainder
    <3>2. a + k = n * q + (c + k)
      BY <1>1, SMT
    <3> QED
      BY <2>1, <3>1, <3>2
  <2>2. CASE n <= c + k
    <3>1. (n * (q + 1) + ((c + k) - n)) % n = (c + k) - n
      <4>1. (c + k) - n \in 0..(n - 1) /\ q + 1 \in Nat
        BY <2>2
      <4> QED
        BY <4>1, Remainder
    <3>2. a + k = n * (q + 1) + ((c + k) - n)
      BY <1>1, SMT
    <3> QED
      BY <2>2, <3>1, <3>2
  <2> QED
    BY <2>1, <2>2
<1>3. \E k \in 0..(n - 1) : (a + k) % n = r
  <2>1. CASE c <= r
    <3>1. r - c \in 0..(n - 1) /\ c + (r - c) = r
      BY <2>1
    <3>2. (a + (r - c)) % n = r
      BY <1>2, <3>1
    <3> QED
      BY <3>1, <3>2
  <2>2. CASE r < c
    <3>1. PICK k \in 0..(n - 1) : k = (r - c) + n
      BY <2>2
    <3>2. ~ (c + k < n) /\ (c + k) - n = r
      BY <3>1
    <3>3. (a + k) % n = (c + k) - n
      BY <1>2, <3>2
    <3> QED
      BY <3>2, <3>3
  <2> QED
    BY <2>1, <2>2
<1>4. ASSUME NEW j \in 0..(n - 1), NEW k \in 0..(n - 1), (a + j) % n = (a + k) % n
      PROVE  j = k
  <2>1. (a + j) % n = IF c + j < n THEN c + j ELSE (c + j) - n
    BY <1>2
  <2>2. (a + k) % n = IF c + k < n THEN c + k ELSE (c + k) - n
    BY <1>2
  <2>3. (IF c + j < n THEN c + j ELSE (c + j) - n) = (IF c + k < n THEN c + k ELSE (c + k) - n)
    BY <1>4, <2>1, <2>2
  <2> QED
    BY <2>3
<1> QED
  BY <1>3, <1>4

\* Assignee promises turns: as long as nobody joins, leaves or is made inactive, the first
\* occurrence of a rotating schedule falls to the person it starts with, and of as many
\* successive numbers as there are active people each of them has exactly one.
THEOREM RotationIsFair ==
  ASSUME NEW sched, sched.mode = "rotate", NEW roster \in Seq(Nat), Assignable(sched, roster),
         \A i, j \in DOMAIN roster : roster[i] = roster[j] => i = j
  PROVE  /\ Assignee(sched, roster, 1) = sched.person
         /\ \A n \in Nat \ {0}, p \in Nat : IsActive(roster, p) =>
              LET turns == {m \in n..(n + Len(roster) - 1) : Assignee(sched, roster, m) = p}
              IN \E m \in turns : turns = {m}
<1> DEFINE L == Len(roster)
           start == PositionOf(roster, sched.person)
           at(n) == ((start + n) - 2) % L
<1>1. /\ L \in Nat /\ DOMAIN roster = 1..L /\ L >= 2
      /\ start \in 1..L /\ roster[start] = sched.person
  BY DEF Assignable, IsActive, PositionOf
<1>2. ASSUME NEW n \in Nat \ {0}
      PROVE  at(n) \in 0..(L - 1) /\ Assignee(sched, roster, n) = roster[at(n) + 1]
  <2>1. start - 1 \in Nat /\ n - 1 \in Nat /\ L \in Nat \ {0}
    BY <1>1
  <2>2. (start - 1 + ((n - 1) % L)) % L = ((start - 1) + (n - 1)) % L
    BY <2>1, SumOfRemainders
  <2>3. (start - 1) + (n - 1) = (start + n) - 2 /\ (start - 1) + (n - 1) \in Nat
    BY <1>1, <2>1
  <2>4. Assignee(sched, roster, n) = roster[((start - 1 + ((n - 1) % L)) % L) + 1]
    BY DEF Assignee
  <2>5. ((start - 1) + (n - 1)) % L \in 0..(L - 1)
    BY <2>1, <2>3, Division
  <2> QED
    BY <2>2, <2>3, <2>4, <2>5
<1>3. Assignee(sched, roster, 1) = sched.person
  <2>1. at(1) = start - 1
    <3>1. start - 1 \in 0..(L - 1) /\ 0 \in Nat /\ L \in Nat \ {0}
      BY <1>1
    <3>2. (L * 0 + (start - 1)) % L = start - 1
      BY <3>1, Remainder
    <3>3. L * 0 + (start - 1) = (start + 1) - 2
      BY <1>1
    <3> QED
      BY <3>2, <3>3
  <2>2. 1 \in Nat \ {0} /\ (start - 1) + 1 = start
    BY <1>1
  <2>3. Assignee(sched, roster, 1) = roster[at(1) + 1]
    BY <1>2, <2>2
  <2>4. at(1) + 1 = start
    BY <2>1, <2>2, Zenon
  <2> HIDE DEF at, start
  <2> QED
    BY <1>1, <2>3, <2>4, Zenon
<1>4. ASSUME NEW n \in Nat \ {0}, NEW p \in Nat, IsActive(roster, p)
      PROVE  LET turns == {m \in n..(n + L - 1) : Assignee(sched, roster, m) = p}
             IN \E m \in turns : turns = {m}
  <2> DEFINE a == (start + n) - 2
             turns == {m \in n..(n + L - 1) : Assignee(sched, roster, m) = p}
  <2>1. a \in Nat /\ L \in Nat \ {0}
    BY <1>1
  <2>2. PICK i \in 1..L : roster[i] = p
    BY <1>1, <1>4 DEF IsActive
  <2>3. \A m \in n..(n + L - 1) :
          /\ m \in Nat \ {0} /\ m - n \in 0..(L - 1) /\ at(m) = (a + (m - n)) % L
          /\ m \in turns <=> at(m) = i - 1
    <3> SUFFICES ASSUME NEW m \in n..(n + L - 1)
                 PROVE  /\ m \in Nat \ {0} /\ m - n \in 0..(L - 1) /\ at(m) = (a + (m - n)) % L
                        /\ m \in turns <=> at(m) = i - 1
      OBVIOUS
    <3>1. m \in Nat \ {0} /\ m - n \in 0..(L - 1)
      BY <1>1
    <3>2. (start + m) - 2 = a + (m - n)
      BY <1>1, <3>1
    <3>3. at(m) \in 0..(L - 1) /\ (m \in turns <=> roster[at(m) + 1] = roster[i])
      BY <1>2, <2>2, <3>1
    <3>4. PICK j \in 1..L : j = at(m) + 1
      BY <1>1, <3>3
    <3>5. roster[j] = roster[i] <=> j = i
      BY <1>1, <2>2, Zenon
    <3>6. at(m) \in Int /\ i \in Int
      BY <1>1, <3>3
    <3> HIDE DEF at
    <3> HIDE DEF L
    <3>7. j = i <=> at(m) = i - 1
      BY <3>4, <3>6
    <3>8. m \in turns <=> at(m) = i - 1
      BY <3>3, <3>4, <3>5, <3>7
    <3>9. at(m) = (a + (m - n)) % L
      BY <3>2, Zenon DEF at
    <3> QED
      BY <3>1, <3>8, <3>9
  <2> HIDE DEF a, turns, L, at
  <2>4. i - 1 \in 0..(L - 1)
    BY <2>1, <2>2
  <2>5. PICK k \in 0..(L - 1) : (a + k) % L = i - 1
    <3> DEFINE r == i - 1
    <3>1. r \in 0..(L - 1)
      BY <2>4
    <3> HIDE DEF r
    <3>2. \E k \in 0..(L - 1) : (a + k) % L = r
      BY <2>1, <3>1, EveryRemainder, Zenon
    <3> QED
      BY <3>2, Zenon DEF r
  <2>6. n + k \in n..(n + L - 1) /\ (n + k) - n = k
    BY <2>1
  <2>7. n + k \in turns
    BY <2>3, <2>5, <2>6
  <2>8. ASSUME NEW m \in turns PROVE m = n + k
    <3>1. m \in n..(n + L - 1)
      BY DEF turns
    <3>2. m - n \in 0..(L - 1) /\ (a + (m - n)) % L = (a + k) % L
      BY <2>3, <2>5, <3>1
    <3>3. m - n = k
      BY <2>1, <3>2, EveryRemainder
    <3> QED
      BY <2>1, <3>1, <3>3
  <2> QED
    BY <2>7, <2>8 DEF turns, L
<1> QED
  BY <1>3, <1>4
=============================================================================
