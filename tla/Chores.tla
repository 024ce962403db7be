------------------------------- MODULE Chores -------------------------------
(***************************************************************************)
(* Chores, their recurring schedules and the occurrences planned for them: *)
(* internal/service/service.go and daily.go over internal/store, with the  *)
(* horizon maintenance of cmd/kinops/main.go.                              *)
(*                                                                         *)
(* The database has one connection, so transactions run one at a time and  *)
(* each is one action.  What interleaves is what the code does around its  *)
(* transactions: a handler that reads the clock or a row before it opens   *)
(* one, and EnsureHorizon, which lists the schedules first and then plans  *)
(* each in a transaction of its own from the copy it listed.               *)
(*                                                                         *)
(* An operation that returns an error rolls back and changes nothing: it   *)
(* is a stuttering step.                                                   *)
(***************************************************************************)
EXTENDS Recurrence, FiniteSets

CONSTANTS
  Client,        \* requests that can be under way at once
  Form,          \* what a schedule form may hold: sets of ScheduleForm
  Horizon,       \* days planned ahead: 60 in generate
  MaxChores, MaxSchedules, MaxPeople,    \* bounds on what is ever created
  MaxDay,        \* bound on the calendar
  MaxToggles,    \* bound on one occurrence's completion log
  MaxNumber      \* bound on the sequence numbers whose status changes

Chore == 1..MaxChores
Schedule == 1..MaxSchedules

\* What the schedule form of internal/handlers/management.go yields.
ScheduleForm == [rule: Rule, start: Nat, end: Nat \cup {NoEnd},
                 mode: AssignmentMode, person: Nat]

ASSUME ChoresAssumption ==
  /\ Form \subseteq ScheduleForm
  /\ Horizon \in Nat
  /\ {MaxChores, MaxSchedules, MaxPeople, MaxDay, MaxToggles,
      MaxNumber} \subseteq Nat

VARIABLES
  today,         \* the household's date
  people,        \* ids of the active people, in id order
  chores,        \* state of each chore
  schedules,     \* row of each schedule
  instances,     \* rows of chore_instances, by schedule
  requests,      \* what each request under way has read so far
  phase,         \* what the process is doing
  wake,          \* the day the timer waits for; during a run, the day it began
  listed,        \* copies the run of EnsureHorizon still has to plan from
  lastRun,       \* how the last run of EnsureHorizon went
  outdated,      \* history: schedules planned from a copy that was no longer current
  undone         \* history: chores whose archiving an overlapping edit undid

data == <<people, chores, schedules, instances>>
process == <<phase, wake, listed, lastRun>>
history == <<outdated, undone>>
vars == <<today, data, requests, process, history>>

RowState == {"absent", "active", "archived"}
Status == {"pending", "done"}
LogEvent == {"completed", "reopened"}
Operation == {"none", "archiveSchedule", "archiveChore", "updateChore"}

ScheduleRow == [state: RowState, chore: Nat, rule: Rule, start: Nat,
                end: Nat \cup {NoEnd}, mode: AssignmentMode, person: Nat]

NoRule == [type |-> "one_off", interval |-> 0, weekdays |-> {}, day |-> 0]
NoSchedule == [state |-> "absent", chore |-> 0, rule |-> NoRule, start |-> 0,
               end |-> NoEnd, mode |-> "fixed", person |-> 0]

\* A chore_instances row with its completion_logs, which its deletion cascades
\* to.  Its chore is its schedule's, which no operation changes.
Instance == [due: Nat, seq: Nat, person: Nat, status: Status, log: Seq(LogEvent)]

Request == [op: Operation, id: Nat, asOf: Nat, active: BOOLEAN]
Idle == [op |-> "none", id |-> 0, asOf |-> 0, active |-> FALSE]

Serving == phase \in {"waiting", "maintaining"}
Maintaining == phase \in {"starting", "maintaining"}

Active(i) == schedules[i].state = "active"

-----------------------------------------------------------------------------
(* The store's statements on chore_instances. *)

\* Fault: the statement forgets the status.
WithoutAnyFrom(rows, from) == {r \in rows : r.due < from}

\* Fault: > for >=.
WithoutPendingAfter(rows, from) ==
  {r \in rows : ~(r.status = "pending" /\ r.due > from)}

\* DeletePendingInstancesFrom
WithoutPendingFrom(rows, from) ==
  {r \in rows : ~(r.status = "pending" /\ r.due >= from)}

\* Fault: COUNT for MAX.
RowCount(rows) == Cardinality(rows)

\* MaxInstanceSequence
MaxSequence(rows) ==
  CHOOSE n \in {0} \cup {r.seq : r \in rows} : \A r \in rows : r.seq <= n

-----------------------------------------------------------------------------
(* generate, the planning every transaction on a schedule ends with. *)

\* Fault: the window starts tomorrow.
MissingFromTomorrow(rows, sched) ==
  Occurrences(sched.rule, sched.start, sched.end, today + 1, today + Horizon)
    \ {r.due : r \in rows}

\* Fault: the window starts where the schedule does.
MissingFromStart(rows, sched) ==
  Occurrences(sched.rule, sched.start, sched.end, sched.start, today + Horizon)
    \ {r.due : r \in rows}

\* The dates of the horizon that have no row yet.
Missing(rows, sched) ==
  Occurrences(sched.rule, sched.start, sched.end, today, today + Horizon)
    \ {r.due : r \in rows}

\* Fault: dates are numbered from the last to the first.
PlannedBackwards(rows, sched, roster) ==
  LET missing == Missing(rows, sched)
      seq(d) == MaxSequence(rows) + Cardinality({e \in missing : e >= d})
  IN {[due |-> d, seq |-> seq(d), person |-> Assignee(sched, roster, seq(d)),
       status |-> "pending", log |-> <<>>] : d \in missing}

\* Sequence numbers continue from the highest one there is, in date order.
Planned(rows, sched, roster) ==
  LET missing == Missing(rows, sched)
      seq(d) == MaxSequence(rows) + Cardinality({e \in missing : e <= d})
  IN {[due |-> d, seq |-> seq(d), person |-> Assignee(sched, roster, seq(d)),
       status |-> "pending", log |-> <<>>] : d \in missing}

\* Fault: replace is ignored.
KeptAlways(rows, replace) == rows

\* The rows generate starts from: with replace, without the pending ones.
Kept(rows, replace) ==
  IF replace THEN WithoutPendingFrom(rows, today) ELSE rows

\* generate returns no error.
CanGenerate(rows, sched, roster) ==
  sched.state = "active" /\ Missing(rows, sched) # {} => Assignable(sched, roster)

\* Fault: archived schedules are planned too.
GeneratedAlways(rows, sched, roster) == rows \cup Planned(rows, sched, roster)

\* The rows generate leaves behind.
Generated(rows, sched, roster) ==
  rows \cup (IF sched.state = "active" THEN Planned(rows, sched, roster) ELSE {})

-----------------------------------------------------------------------------
Init ==
  /\ today = 0
  /\ people = <<>>
  /\ chores = [c \in Chore |-> "absent"]
  /\ schedules = [i \in Schedule |-> NoSchedule]
  /\ instances = [i \in Schedule |-> {}]
  /\ requests = [k \in Client |-> Idle]
  /\ phase = "down"
  /\ wake = 0
  /\ listed = [i \in Schedule |-> NoSchedule]
  /\ lastRun = "ok"
  /\ outdated = {}
  /\ undone = {}

-----------------------------------------------------------------------------
(* Requests that are one transaction. *)

\* A new person joins every rotation, so rotating schedules are replanned.
CreatePerson ==
  LET roster == Append(people, Len(people) + 1)
      rotating == {i \in Schedule : Active(i) /\ schedules[i].mode = "rotate"}
      kept(i) == Kept(instances[i], TRUE)
  IN /\ Serving
     /\ Len(people) < MaxPeople
     /\ \A i \in rotating : CanGenerate(kept(i), schedules[i], roster)
     /\ people' = roster
     /\ instances' = [i \in Schedule |->
                        IF i \in rotating
                        THEN Generated(kept(i), schedules[i], roster)
                        ELSE instances[i]]
     /\ outdated' = outdated \ rotating
     /\ UNCHANGED <<today, chores, schedules, requests, process, undone>>

CreateChore(c) ==
  /\ Serving
  /\ chores[c] = "absent"
  /\ \A b \in Chore : b < c => chores[b] # "absent"
  /\ chores' = [chores EXCEPT ![c] = "active"]
  /\ UNCHANGED <<today, people, schedules, instances, requests, process, history>>

\* The row a form makes of a schedule of chore c.
RowOf(form, state, c) ==
  [state |-> state, chore |-> c, rule |-> form.rule, start |-> form.start,
   end |-> form.end, mode |-> form.mode, person |-> form.person]

CreateSchedule(i, c, form) ==
  LET row == RowOf(form, "active", c)
  IN /\ Serving
     /\ ValidSchedule(form)
     /\ chores[c] = "active"
     /\ Assignable(form, people)
     /\ schedules[i].state = "absent"
     /\ \A j \in Schedule : j < i => schedules[j].state # "absent"
     /\ schedules' = [schedules EXCEPT ![i] = row]
     /\ instances' = [instances EXCEPT ![i] = Generated(Kept(@, FALSE), row, people)]
     /\ UNCHANGED <<today, people, chores, requests, process, history>>

\* Fault: the people of the form are not validated; generate alone may fail.
UpdateScheduleUnchecked(i, form) ==
  LET row == RowOf(form, schedules[i].state, schedules[i].chore)
  IN /\ Serving
     /\ schedules[i].state # "absent"
     /\ CanGenerate(Kept(instances[i], TRUE), row, people)
     /\ schedules' = [schedules EXCEPT ![i] = row]
     /\ instances' = [instances EXCEPT ![i] = Generated(Kept(@, TRUE), row, people)]
     /\ outdated' = outdated \ {i}
     /\ UNCHANGED <<today, people, chores, requests, process, undone>>

\* The chore and the active flag are read again and kept.
UpdateSchedule(i, form) ==
  LET row == RowOf(form, schedules[i].state, schedules[i].chore)
  IN /\ Serving
     /\ schedules[i].state # "absent"
     /\ ValidSchedule(form)
     /\ Assignable(form, people)
     /\ schedules' = [schedules EXCEPT ![i] = row]
     /\ instances' = [instances EXCEPT ![i] = Generated(Kept(@, TRUE), row, people)]
     /\ outdated' = outdated \ {i}
     /\ UNCHANGED <<today, people, chores, requests, process, undone>>

\* Fault: the status is not looked at.
TransitionUnguarded(i, r, from, to, event) ==
  /\ Serving
  /\ Len(r.log) < MaxToggles /\ r.seq <= MaxNumber
  /\ instances' = [instances EXCEPT ![i] =
       (@ \ {r}) \cup {[r EXCEPT !.status = to, !.log = Append(@, event)]}]
  /\ UNCHANGED <<today, people, chores, schedules, requests, process, history>>

\* transitionInstance: a row already in the target status is left alone.
Transition(i, r, from, to, event) ==
  /\ Serving
  /\ r.status = from
  /\ Len(r.log) < MaxToggles /\ r.seq <= MaxNumber
  /\ instances' = [instances EXCEPT ![i] =
       (@ \ {r}) \cup {[r EXCEPT !.status = to, !.log = Append(@, event)]}]
  /\ UNCHANGED <<today, people, chores, schedules, requests, process, history>>

CompleteInstance(i, r) == Transition(i, r, "pending", "done", "completed")

ReopenInstance(i, r) == Transition(i, r, "done", "pending", "reopened")

-----------------------------------------------------------------------------
(* Requests that read something before the transaction that uses it. *)

Begin(k, op, id, active) ==
  /\ Serving
  /\ requests[k] = Idle
  /\ requests' = [requests EXCEPT ![k] =
       [op |-> op, id |-> id, asOf |-> today, active |-> active]]
  /\ UNCHANGED <<today, data, process, history>>

Finish(k) == requests' = [requests EXCEPT ![k] = Idle]

\* The request's context is cancelled, or a statement fails: no effect.
Abandon(k) ==
  /\ requests[k] # Idle
  /\ Finish(k)
  /\ UNCHANGED <<today, data, process, history>>

\* DeactivateSchedule reads the clock, then opens its transaction.
BeginDeactivateSchedule(k, i) ==
  /\ schedules[i].state # "absent"
  /\ Begin(k, "archiveSchedule", i, FALSE)

FinishDeactivateSchedule(k) ==
  LET request == requests[k]
      i == request.id
  IN /\ request.op = "archiveSchedule"
     /\ schedules' = [schedules EXCEPT ![i].state = "archived"]
     /\ instances' = [instances EXCEPT ![i] = WithoutPendingFrom(@, request.asOf)]
     /\ outdated' = outdated \ {i}
     /\ Finish(k)
     /\ UNCHANGED <<today, people, chores, process, undone>>

\* Fault: "active = 0" for "active = 1".
ArchivedSchedulesOf(c) ==
  {i \in Schedule : schedules[i].state = "archived" /\ schedules[i].chore = c}

\* ListSchedulesByChore, without the inactive ones.
ActiveSchedulesOf(c) == {i \in Schedule : Active(i) /\ schedules[i].chore = c}

\* DeactivateChore reads the clock, then archives the chore's active schedules
\* and the chore in one transaction.
BeginDeactivateChore(k, c) ==
  /\ chores[c] # "absent"
  /\ Begin(k, "archiveChore", c, FALSE)

FinishDeactivateChore(k) ==
  LET request == requests[k]
      hit == ActiveSchedulesOf(request.id)
  IN /\ request.op = "archiveChore"
     /\ schedules' = [i \in Schedule |->
                        IF i \in hit THEN [schedules[i] EXCEPT !.state = "archived"]
                                     ELSE schedules[i]]
     /\ instances' = [i \in Schedule |->
                        IF i \in hit
                        THEN WithoutPendingFrom(instances[i], request.asOf)
                        ELSE instances[i]]
     /\ chores' = [chores EXCEPT ![request.id] = "archived"]
     /\ outdated' = outdated \ hit
     /\ Finish(k)
     /\ UNCHANGED <<today, people, process, undone>>

\* UpdateChore reads the active flag and writes the whole row back, outside
\* any transaction.
BeginUpdateChore(k, c) ==
  /\ chores[c] # "absent"
  /\ Begin(k, "updateChore", c, chores[c] = "active")

FinishUpdateChore(k) ==
  LET request == requests[k]
      c == request.id
      written == IF request.active THEN "active" ELSE "archived"
  IN /\ request.op = "updateChore"
     /\ chores' = [chores EXCEPT ![c] = written]
     /\ undone' = IF chores[c] # written THEN undone \cup {c} ELSE undone
     /\ Finish(k)
     /\ UNCHANGED <<today, people, schedules, instances, process, outdated>>

-----------------------------------------------------------------------------
(* The process: startup, the maintenance goroutine, the clock. *)

\* EnsureHorizon lists the active schedules, outside any transaction.
ListActive ==
  listed' = [i \in Schedule |-> IF Active(i) THEN schedules[i] ELSE NoSchedule]

\* main runs EnsureHorizon before it serves.
Start ==
  /\ phase = "down"
  /\ phase' = "starting"
  /\ wake' = today
  /\ ListActive
  /\ lastRun' = "ok"
  /\ UNCHANGED <<today, data, requests, history>>

\* Fault: the goroutine returns at its first error.
MidnightTimerUnlessFailed ==
  /\ phase = "waiting"
  /\ lastRun = "ok"
  /\ today >= wake
  /\ phase' = "maintaining"
  /\ wake' = today
  /\ ListActive
  /\ UNCHANGED <<today, data, requests, lastRun, history>>

\* maintainHorizon: the timer set for a midnight fires.
MidnightTimer ==
  /\ phase = "waiting"
  /\ today >= wake
  /\ phase' = "maintaining"
  /\ wake' = today
  /\ ListActive
  /\ lastRun' = "ok"
  /\ UNCHANGED <<today, data, requests, history>>

\* The next schedule of the list, in id order.
IsNext(i) ==
  /\ listed[i].state # "absent"
  /\ \A j \in Schedule : j < i => listed[j].state = "absent"

\* One transaction of EnsureHorizon: generate from the listed copy.
EnsureSchedule(i) ==
  LET copy == listed[i]
  IN /\ Maintaining
     /\ IsNext(i)
     /\ CanGenerate(instances[i], copy, people)
     /\ instances' = [instances EXCEPT ![i] = Generated(Kept(@, FALSE), copy, people)]
     /\ listed' = [listed EXCEPT ![i] = NoSchedule]
     /\ outdated' = IF copy # schedules[i] THEN outdated \cup {i} ELSE outdated
     /\ UNCHANGED <<today, people, chores, schedules, requests, phase, wake,
                    lastRun, undone>>

\* The loop computes the midnight after now; main goes on to serve.
Sleep ==
  /\ phase' = "waiting"
  /\ wake' = today + 1

RunEnds ==
  /\ Maintaining
  /\ \A i \in Schedule : listed[i].state = "absent"
  /\ Sleep
  /\ UNCHANGED <<today, data, requests, listed, lastRun, history>>

\* An error (the list's, a transaction's) ends the run; it is only logged.
RunFails ==
  /\ Maintaining
  /\ listed' = [i \in Schedule |-> NoSchedule]
  /\ lastRun' = "failed"
  /\ Sleep
  /\ UNCHANGED <<today, data, requests, history>>

\* The process stops, killed or shut down: what was under way is lost.
Crash ==
  /\ phase # "down"
  /\ phase' = "down"
  /\ wake' = 0
  /\ listed' = [i \in Schedule |-> NoSchedule]
  /\ lastRun' = "ok"
  /\ requests' = [k \in Client |-> Idle]
  /\ UNCHANGED <<today, data, history>>

\* Midnight.  Bound: neither a request nor a run of EnsureHorizon sees two.
NextDay ==
  /\ today < MaxDay
  /\ \A k \in Client : requests[k] # Idle => requests[k].asOf = today
  /\ Maintaining => wake = today
  /\ today' = today + 1
  /\ UNCHANGED <<data, requests, process, history>>

Next ==
  \/ CreatePerson
  \/ \E c \in Chore : CreateChore(c)
  \/ \E i \in Schedule, c \in Chore, form \in Form : CreateSchedule(i, c, form)
  \/ \E i \in Schedule, form \in Form : UpdateSchedule(i, form)
  \/ \E i \in Schedule : \E r \in instances[i] : CompleteInstance(i, r)
  \/ \E i \in Schedule : \E r \in instances[i] : ReopenInstance(i, r)
  \/ \E k \in Client, i \in Schedule : BeginDeactivateSchedule(k, i)
  \/ \E k \in Client : FinishDeactivateSchedule(k)
  \/ \E k \in Client, c \in Chore : BeginDeactivateChore(k, c)
  \/ \E k \in Client : FinishDeactivateChore(k)
  \/ \E k \in Client, c \in Chore : BeginUpdateChore(k, c)
  \/ \E k \in Client : FinishUpdateChore(k)
  \/ \E k \in Client : Abandon(k)
  \/ Start
  \/ MidnightTimer
  \/ \E i \in Schedule : EnsureSchedule(i)
  \/ RunEnds
  \/ RunFails
  \/ Crash
  \/ NextDay

Spec == Init /\ [][Next]_vars

\* The goroutine of maintainHorizon is scheduled and its timer fires.
FairSpec ==
  /\ Spec
  /\ WF_vars(MidnightTimer)
  /\ WF_vars(\E i \in Schedule : EnsureSchedule(i))
  /\ WF_vars(RunEnds)

-----------------------------------------------------------------------------
(* What the service promises. *)

TypeOK ==
  /\ today \in Nat
  /\ people \in Seq(Nat)
  /\ chores \in [Chore -> RowState]
  /\ schedules \in [Schedule -> ScheduleRow]
  /\ instances \in [Schedule -> SUBSET Instance]
  /\ requests \in [Client -> Request]
  /\ phase \in {"down", "starting", "waiting", "maintaining"}
  /\ wake \in Nat
  /\ listed \in [Schedule -> ScheduleRow]
  /\ lastRun \in {"ok", "failed"}
  /\ outdated \subseteq Schedule
  /\ undone \subseteq Chore

\* No step makes a second row for a schedule's date, or gives a sequence number
\* twice: generate never runs into the UNIQUE constraints of chore_instances,
\* whatever was completed, withdrawn and planned again before.
UniqueOccurrence ==
  \A i \in Schedule : \A r, q \in instances[i] :
    r.due = q.due \/ r.seq = q.seq => r = q

\* A row's completion log alternates, starts with a completion, and tells its
\* status: done exactly when the last event is a completion.
LogTellsStatus ==
  \A i \in Schedule : \A r \in instances[i] :
    /\ \A n \in 1..Len(r.log) :
         r.log[n] = (IF n % 2 = 1 THEN "completed" ELSE "reopened")
    /\ (r.status = "done") <=> (Len(r.log) % 2 = 1)

\* The assignee of a stored schedule, or of a copy that is about to be planned
\* from, is always found: no transaction of the maintenance fails on it.
AssigneesExist ==
  \A i \in Schedule :
    /\ schedules[i].state # "absent" => Assignable(schedules[i], people)
    /\ listed[i].state # "absent" => Assignable(listed[i], people)

\* An active schedule belongs to an active chore, unless an edit that overlapped
\* the chore's archiving wrote the old flag back.
ActiveScheduleHasActiveChore ==
  \A i \in Schedule :
    Active(i) /\ schedules[i].chore \notin undone
      => chores[schedules[i].chore] = "active"

\* What is planned from today on is what the schedule says now: an untouched row
\* stands for an active schedule, falls on one of its dates within the horizon,
\* and is assigned to the person its number falls to among today's people.
\* Excepted: schedules the maintenance planned from an outdated copy.
PlannedAsScheduled ==
  \A i \in Schedule \ outdated : \A r \in instances[i] :
    r.log = <<>> /\ r.due >= today =>
      LET s == schedules[i]
      IN /\ s.state = "active"
         /\ r.due \in Occurrences(s.rule, s.start, s.end, today, today + Horizon)
         /\ r.person = Assignee(s, people, r.seq)

\* Every date the schedule has from today to "through" has a row.
FilledThrough(i, through) ==
  LET s == schedules[i]
  IN Occurrences(s.rule, s.start, s.end, today, through)
       \subseteq {r.due : r \in instances[i]}

\* Between two runs of a maintenance that does not fail, every active schedule
\* is planned a whole horizon from the day before the last run ended.
HorizonFilled ==
  phase = "waiting" /\ lastRun = "ok" =>
    \A i \in Schedule : Active(i) => FilledThrough(i, wake - 2 + Horizon)

\* The first date a step may withdraw: today's, or the date an archiving request
\* read from the clock before midnight.
CutOff ==
  IF \E k \in Client : /\ requests[k].op \in {"archiveSchedule", "archiveChore"}
                       /\ requests[k].asOf < today
  THEN today - 1 ELSE today

\* Nothing a schedule's edit, archiving or replanning does touches history: a
\* completed occurrence, and one due before the cut-off, keep their number and
\* assignee, and their logs only grow.
HistoryKept ==
  [][\A i \in Schedule : \A r \in instances[i] :
       r.status = "done" \/ r.due < CutOff =>
         \E q \in instances'[i] :
           /\ q.due = r.due /\ q.seq = r.seq /\ q.person = r.person
           /\ Len(q.log) >= Len(r.log)
           /\ SubSeq(q.log, 1, Len(r.log)) = r.log]_vars

\* The rows a step adds are for today or later, within the horizon, and their
\* numbers come after those of the completed and the overdue rows, in date order.
PlannedAhead ==
  [][\A i \in Schedule :
       LET kept == {r \in instances[i] : r.status = "done" \/ r.due < today}
           new == {q \in instances'[i] : \A r \in instances[i] : r.due # q.due}
       IN \A q \in new :
            /\ q.due \in today..(today + Horizon)
            /\ \A r \in kept : r.seq < q.seq
            /\ \A r \in new : r.due < q.due => r.seq < q.seq]_vars

\* Only one thing puts a date back on an archived schedule: a maintenance run
\* that listed it while it was active.
OnlyStaleRunRevives ==
  [][\A i \in Schedule :
       /\ schedules'[i].state = "archived"
       /\ \E q \in instances'[i] : \A r \in instances[i] : r.due # q.due
       => Maintaining /\ listed[i].state = "active"]_vars

\* However a run that was due came to begin, at a midnight or at startup: when it ends,
\* and this very run has not failed, every active schedule is planned through the horizon of
\* the day the run began.
RunsFill ==
  [][\A d \in {wake} : Maintaining /\ phase' = "waiting" =>
       \/ lastRun' = "failed"
       \/ \A i \in Schedule : Active(i)' => FilledThrough(i, d + Horizon)']_vars

\* A run that is due, at a midnight, begins, however the last one ended. One that has
\* begun ends, unless the process stops, and has filled the horizon then.
MaintenanceFills ==
  /\ phase = "waiting" /\ today >= wake ~> phase \in {"maintaining", "down"}
  /\ Maintaining ~> phase \in {"waiting", "down"}
  /\ RunsFill

\* The rows, seen as the ledger the household keeps.
InStatus(status) ==
  UNION {{<<i, r.due>> : r \in {q \in instances[i] : q.status = status}} :
           i \in Schedule}

Ledger == INSTANCE ChoreLedger
            WITH open <- InStatus("pending"), done <- InStatus("done")

\* Chores implements the ledger: every request, crash, restart, midnight and
\* maintenance step is a step of it or leaves it alone.
ImplementsLedger == Ledger!Spec

-----------------------------------------------------------------------------
(* What the pages say of it, and the code does not keep. *)

\* "Archive this chore and its active schedules?" (chores.templ): no operation
\* brings an archived chore back.
ArchivedChoreStaysArchived ==
  [][\A c \in Chore : chores[c] = "archived" => chores'[c] = "archived"]_vars
=============================================================================
