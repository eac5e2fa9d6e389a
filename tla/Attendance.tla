----------------------------- MODULE Attendance -----------------------------
(***************************************************************************)
(* Attendance rows: backend/src/attendance/attendance.service.ts, and the  *)
(* two jobs that mark who did not come: attendance-cron.service.ts and     *)
(* scheduler/scheduler.service.ts.                                         *)
(*                                                                         *)
(* Time is counted in minutes of Indian time from midnight of day 0, the   *)
(* server runs in UTC as its container image does.  Handlers and jobs are  *)
(* split at their awaits.                                                  *)
(***************************************************************************)
EXTENDS Integers, FiniteSets

CONSTANTS
    Employees,
    shiftStart,      \* start of an employee's shift, or NULL without one
    Instants,        \* moments at which something is looked at
    Stamps,          \* timestamps a client may send instead of the clock
    ManualEntries,   \* what HR enters by hand: times of day and a status
    ApprovedLeave,   \* (employee, day) pairs on approved leave at the start
    RequestedLeave,  \* pairs whose leave is approved or cancelled meanwhile
    Changing,        \* employees whose employmentStatus is changed meanwhile
    Handlers,        \* HTTP requests served at the same time
    Cron, Scheduler, \* the jobs of 23:55 and of 23:59
    NULL

DayMinutes == 1440

\* getDateString: the Indian date of a moment.
DateOf(t) == t \div DayMinutes

Days == {DateOf(t) : t \in Instants \cup Stamps}
Slots == Employees \X Days

Statuses == {"present", "late", "half-day", "absent", "on-leave"}

OrNull(S) == S \cup {NULL}

ASSUME AttendanceAssumption ==
    /\ Instants \subseteq Nat
    /\ Stamps \subseteq Nat
    /\ shiftStart \in [Employees -> OrNull(0..DayMinutes - 1)]
    /\ ManualEntries \subseteq
          [checkIn : OrNull(0..DayMinutes - 1), status : OrNull(Statuses),
           checkOut : OrNull(0..DayMinutes - 1)]
    /\ ApprovedLeave \subseteq Slots /\ RequestedLeave \subseteq Slots
    /\ Changing \subseteq Employees
    /\ IsFiniteSet(Handlers)
    /\ Cron # Scheduler /\ {Cron, Scheduler} \cap Handlers = {}
    /\ NULL \notin Int /\ NULL \notin Statuses

\* More ids than handlers can hold of one slot.
RowIds == 0..Cardinality(Handlers) + 1

Row == [id : RowIds, checkIn : OrNull(Nat), checkOut : OrNull(Nat),
        status : Statuses, late : Nat, work : OrNull(Int), overtime : Nat,
        manual : BOOLEAN]

ASSUME NullAssumption == NULL \notin Row

VARIABLES
    now,      \* the clock
    active,   \* employees whose employmentStatus is active
    onLeave,  \* (employee, day) pairs with an approved leave request
    rows,     \* the attendance table; (employeeId, date) is unique
    pc, loc,  \* where a handler or job stands, and its local variables
    fired,    \* (job, day) pairs that were started
    ended,    \* history: those that came to their end, with or without error
    removed,  \* history: slots whose row was deleted by hand
    joined,   \* history: slots of whoever became active after the 23:55 job of
              \* the day had begun
    stale     \* history: slots written from times that had changed meanwhile

vars == <<now, active, onLeave, joined, rows, pc, loc, fired, ended, removed, stale>>
people == <<active, onLeave, joined>>
history == <<ended, removed, stale>>

Processes == Handlers \cup {Cron, Scheduler}

-----------------------------------------------------------------------------
(* The arithmetic of a row *)

PositivePart(n) == IF n > 0 THEN n ELSE 0

\* 15 minutes of grace after the start of the shift, 9:15 without a shift.
LateThreshold(e) == IF shiftStart[e] = NULL THEN 9 * 60 + 15
                    ELSE shiftStart[e] + 15

LateMinutes(e, t) == PositivePart((t % DayMinutes) - LateThreshold(e))

Overtime(work) == PositivePart(work - 8 * 60)

\* determineStatus.
StatusOf(e, checkIn, checkOut, work) ==
    IF checkIn = NULL THEN "absent"
    ELSE IF checkOut = NULL \/ LateMinutes(e, checkIn) = 0 THEN "present"
    ELSE IF work < 4 * 60 THEN "half-day" ELSE "late"

Unmarked(id, status) ==
    [id |-> id, checkIn |-> NULL, checkOut |-> NULL, status |-> status,
     late |-> 0, work |-> NULL, overtime |-> 0, manual |-> FALSE]

\* Mutation: the upsert updates the times only.
CheckedInStatusKept(row, e, t) ==
    [row EXCEPT !.checkIn = t, !.late = LateMinutes(e, t)]

CheckedIn(row, e, t) ==
    [row EXCEPT !.checkIn = t, !.late = LateMinutes(e, t),
                !.status = StatusOf(e, t, NULL, 0)]

CheckedOut(row, e, checkIn, t) ==
    [row EXCEPT !.checkOut = t, !.work = t - checkIn,
                !.overtime = Overtime(t - checkIn),
                !.status = StatusOf(e, checkIn, t, t - checkIn)]

\* Mutation: the late minutes are not worked out again.
EnteredLateKept(row, e, checkIn, checkOut, status) ==
    LET both == checkIn # NULL /\ checkOut # NULL
        work == IF both THEN checkOut - checkIn ELSE row.work
    IN  [row EXCEPT !.checkIn = checkIn, !.checkOut = checkOut,
                    !.work = work, !.manual = TRUE,
                    !.overtime = IF both THEN Overtime(work) ELSE @,
                    !.status = IF status # NULL THEN status ELSE @]

\* The times of the row, or those given instead, and what follows from them;
\* a status that is not given is worked out if there is a check-in.
Entered(row, e, checkIn, checkOut, status) ==
    LET both == checkIn # NULL /\ checkOut # NULL
        work == IF both THEN checkOut - checkIn ELSE row.work
    IN  [id |-> row.id, checkIn |-> checkIn, checkOut |-> checkOut,
         work |-> work, manual |-> TRUE,
         late |-> IF checkIn = NULL THEN row.late ELSE LateMinutes(e, checkIn),
         overtime |-> IF both THEN Overtime(work) ELSE row.overtime,
         status |-> IF status # NULL THEN status
                    ELSE IF checkIn = NULL THEN row.status
                    ELSE StatusOf(e, checkIn, checkOut,
                                  IF work = NULL THEN 0 ELSE work)]

\* A time of day HR enters for day d, or the time that is there.
Given(time, d, other) == IF time = NULL THEN other ELSE d * DayMinutes + time

-----------------------------------------------------------------------------
(* Rows and handlers *)

Times(row) == IF row = NULL THEN <<NULL, NULL>>
              ELSE <<row.checkIn, row.checkOut>>

\* An id that no handler still knows a row of this slot by.
NewId(s) ==
    LET known == {loc[h].row.id : h \in
                    {g \in Handlers : /\ pc[g] \in {"upsert", "write", "checkOut",
                                                    "save", "delete"}
                                      /\ loc[g].slot = s /\ loc[g].row # NULL}}
    IN  CHOOSE i \in RowIds : i \notin known

Insert(s, row) == rows' = [rows EXCEPT ![s] = row]

\* A write of a handler that had read the row as it was in loc[h].row.
Overwrite(h, row) ==
    LET s == loc[h].slot
    IN  /\ rows' = [rows EXCEPT ![s] = row]
        /\ stale' = IF Times(rows[s]) = Times(loc[h].row) THEN stale
                    ELSE stale \cup {s}

Goto(p, label, locals) == /\ pc' = [pc EXCEPT ![p] = label]
                          /\ loc' = [loc EXCEPT ![p] = locals]

Finish(p) == Goto(p, "idle", NULL)

\* The request is refused, or a statement of it fails.
Refuse(h) == Finish(h) /\ UNCHANGED <<rows, stale>>

Begin(h, label, locals) ==
    /\ pc[h] = "idle"
    /\ Goto(h, label, locals)
    /\ UNCHANGED <<now, people, rows, fired, history>>

At(h, label) == /\ pc[h] = label
                /\ UNCHANGED <<now, people, fired, ended>>

-----------------------------------------------------------------------------
(* checkIn *)

\* Mutation: a second check-in of the day is let through.
ReadForCheckInAgain(h, e, t) ==
    Begin(h, "upsert", [slot |-> <<e, DateOf(t)>>, at |-> t,
                        row |-> rows[<<e, DateOf(t)>>]])

ReadForCheckIn(h, e, t) ==
    /\ Times(rows[<<e, DateOf(t)>>])[1] = NULL
    /\ Begin(h, "upsert", [slot |-> <<e, DateOf(t)>>, at |-> t,
                           row |-> rows[<<e, DateOf(t)>>]])

\* The upsert looks for the row itself before it inserts or updates.
FindForUpsert(h) ==
    /\ At(h, "upsert")
    /\ Goto(h, "write", [slot |-> loc[h].slot, at |-> loc[h].at,
                         row |-> rows[loc[h].slot], read |-> loc[h].row])
    /\ UNCHANGED <<rows, removed, stale>>

\* An insert meets the unique key if somebody else inserted, an update finds
\* nothing if the row is gone: the request fails.
Upsert(h) ==
    LET s == loc[h].slot
        found == loc[h].row
        row == rows[s]
    IN  /\ At(h, "write")
        /\ \/ /\ found = NULL /\ row = NULL
              /\ Insert(s, CheckedIn(Unmarked(NewId(s), "present"), s[1],
                                     loc[h].at))
              /\ Finish(h) /\ UNCHANGED stale
           \/ /\ found # NULL /\ row # NULL /\ row.id = found.id
              /\ Insert(s, CheckedIn(row, s[1], loc[h].at))
              /\ stale' = IF Times(row) = Times(loc[h].read) THEN stale
                          ELSE stale \cup {s}
              /\ Finish(h)
           \/ /\ found = NULL <=> row # NULL
              /\ Refuse(h)
           \/ /\ found # NULL /\ row # NULL /\ row.id # found.id
              /\ Refuse(h)
        /\ UNCHANGED removed

-----------------------------------------------------------------------------
(* checkOut *)

\* Mutation: a second check-out of the day is let through.
ReadForCheckOutAgain(h, e, t) ==
    LET s == <<e, DateOf(t)>>
    IN  /\ Times(rows[s])[1] # NULL
        /\ Begin(h, "checkOut", [slot |-> s, at |-> t, row |-> rows[s]])

ReadForCheckOut(h, e, t) ==
    LET s == <<e, DateOf(t)>>
    IN  /\ Times(rows[s])[1] # NULL /\ Times(rows[s])[2] = NULL
        /\ Begin(h, "checkOut", [slot |-> s, at |-> t, row |-> rows[s]])

\* The work done is counted from the check-in that was read.
CheckOut(h) ==
    LET s == loc[h].slot
    IN  /\ At(h, "checkOut")
        /\ IF rows[s] = NULL THEN Refuse(h)
           ELSE /\ Overwrite(h, CheckedOut(rows[s], s[1], loc[h].row.checkIn,
                                           loc[h].at))
                /\ Finish(h)
        /\ UNCHANGED removed

-----------------------------------------------------------------------------
(* create, update, remove: entries made by hand *)

ReadForEntry(h, s, entry) ==
    /\ rows[s] = NULL
    /\ Begin(h, "entry", [slot |-> s, entry |-> entry])

CreateEntry(h) ==
    LET s == loc[h].slot
        entry == loc[h].entry
    IN  /\ At(h, "entry")
        /\ IF rows[s] # NULL THEN Refuse(h)
           ELSE /\ Insert(s, Entered(Unmarked(NewId(s), "absent"), s[1],
                                     Given(entry.checkIn, s[2], NULL),
                                     Given(entry.checkOut, s[2], NULL),
                                     entry.status))
                /\ Finish(h) /\ UNCHANGED stale
        /\ UNCHANGED removed

ReadForSave(h, s, entry) ==
    /\ rows[s] # NULL
    /\ Begin(h, "save", [slot |-> s, row |-> rows[s], entry |-> entry])

IsStill(h) == rows[loc[h].slot] # NULL /\ rows[loc[h].slot].id = loc[h].row.id

\* All columns are written, those not given as they were read.
SaveEntry(h) ==
    LET s == loc[h].slot
        row == loc[h].row
        entry == loc[h].entry
    IN  /\ At(h, "save")
        /\ IF ~IsStill(h) THEN Refuse(h)
           ELSE /\ Overwrite(h, Entered(row, s[1],
                                        Given(entry.checkIn, s[2], row.checkIn),
                                        Given(entry.checkOut, s[2], row.checkOut),
                                        entry.status))
                /\ Finish(h)
        /\ UNCHANGED removed

ReadForRemove(h, s) ==
    /\ rows[s] # NULL
    /\ Begin(h, "delete", [slot |-> s, row |-> rows[s]])

Remove(h) ==
    LET s == loc[h].slot
    IN  /\ At(h, "delete")
        /\ IF ~IsStill(h) THEN Refuse(h) /\ UNCHANGED removed
           ELSE /\ Insert(s, NULL)
                /\ removed' = removed \cup {s}
                /\ stale' = stale \ {s}
                /\ Finish(h)

-----------------------------------------------------------------------------
(* AttendanceService.markAbsentees: the 23:55 job, and every look at the     *)
(* statistics of today, at whatever time                                     *)

StartMarking(p) == Goto(p, "marked", [day |-> DateOf(now), active |-> active])

\* The statistics themselves only read, once the marking is done.
TodayStats(h) ==
    /\ pc[h] = "idle" /\ StartMarking(h)
    /\ UNCHANGED <<now, people, rows, fired, history>>

IsTime(t) == now % DayMinutes = t

Fire(job) ==
    /\ pc[job] = "idle"
    /\ <<job, DateOf(now)>> \notin fired
    /\ fired' = fired \cup {<<job, DateOf(now)>>}
    /\ StartMarking(job)
    /\ UNCHANGED <<now, people, rows, history>>

CronFires == IsTime(23 * 60 + 55) /\ Fire(Cron)

Marked(d) == {e \in Employees : rows[<<e, d>>] # NULL}

ReadMarked(p) ==
    /\ p # Scheduler /\ At(p, "marked")
    /\ Goto(p, "absentees", [day |-> loc[p].day,
                             absent |-> loc[p].active \ Marked(loc[p].day)])
    /\ UNCHANGED <<rows, removed, stale>>

\* Rows of the employees E for day d, but for those that have one.
CreateMany(E, d, status) ==
    rows' = [s \in Slots |-> IF s[1] \in E /\ s[2] = d /\ rows[s] = NULL
                             THEN Unmarked(NewId(s), status) ELSE rows[s]]

\* Without skipDuplicates the statement fails as a whole.
Conflict(E, d) == E \cap Marked(d) # {}

End(job, d) == ended' = IF job \in Handlers THEN ended
                        ELSE ended \cup {<<job, d>>}

\* Mutation: createMany without skipDuplicates.
MarkAbsenteesOrFail(p) ==
    /\ pc[p] = "absentees"
    /\ IF Conflict(loc[p].absent, loc[p].day) THEN UNCHANGED rows
       ELSE CreateMany(loc[p].absent, loc[p].day, "absent")
    /\ Finish(p) /\ End(p, loc[p].day)
    /\ UNCHANGED <<now, people, fired, removed, stale>>

\* createMany with skipDuplicates.
MarkAbsentees(p) ==
    /\ pc[p] = "absentees"
    /\ CreateMany(loc[p].absent, loc[p].day, "absent")
    /\ Finish(p) /\ End(p, loc[p].day)
    /\ UNCHANGED <<now, people, fired, removed, stale>>

-----------------------------------------------------------------------------
(* SchedulerService.markAbsentees: the 23:59 job *)

SchedulerFires == IsTime(23 * 60 + 59) /\ Fire(Scheduler)

ReadMarkedByScheduler ==
    /\ At(Scheduler, "marked")
    /\ Goto(Scheduler, "leaves",
            [day |-> loc[Scheduler].day,
             unmarked |-> loc[Scheduler].active \ Marked(loc[Scheduler].day)])
    /\ UNCHANGED <<rows, removed, stale>>

ReadLeaves ==
    LET d == loc[Scheduler].day
        away == {e \in loc[Scheduler].unmarked : <<e, d>> \in onLeave}
    IN  /\ At(Scheduler, "leaves")
        /\ Goto(Scheduler, "absent",
                [day |-> d, away |-> away,
                 absent |-> loc[Scheduler].unmarked \ away])
        /\ UNCHANGED <<rows, removed, stale>>

\* createMany without skipDuplicates: an error ends the job.
MarkAbsent ==
    LET l == loc[Scheduler]
    IN  /\ pc[Scheduler] = "absent"
        /\ \/ /\ ~Conflict(l.absent, l.day)
              /\ CreateMany(l.absent, l.day, "absent")
              /\ Goto(Scheduler, "onLeave", [day |-> l.day, away |-> l.away])
              /\ UNCHANGED ended
           \/ /\ Conflict(l.absent, l.day)
              /\ Finish(Scheduler) /\ End(Scheduler, l.day)
              /\ UNCHANGED rows
        /\ UNCHANGED <<now, people, fired, removed, stale>>

MarkOnLeave ==
    LET l == loc[Scheduler]
    IN  /\ pc[Scheduler] = "onLeave"
        /\ IF Conflict(l.away, l.day) THEN UNCHANGED rows
           ELSE CreateMany(l.away, l.day, "on-leave")
        /\ Finish(Scheduler) /\ End(Scheduler, l.day)
        /\ UNCHANGED <<now, people, fired, removed, stale>>

-----------------------------------------------------------------------------
(* What happens around them *)

\* EmployeesService.remove, or an update that sets another employmentStatus.
Terminate(e) ==
    /\ e \in active
    /\ active' = active \ {e}
    /\ joined' = {s \in joined : s[1] # e}
    /\ UNCHANGED <<now, onLeave, rows, pc, loc, fired, history>>

\* EmployeesService.update spreads the employmentStatus it is given, and create
\* inserts active employees: somebody who is not active, or not there, becomes
\* active, also while a job is at work on those it has read.
Activate(e) ==
    /\ e \notin active
    /\ active' = active \cup {e}
    /\ joined' = joined \cup {s \in Slots : s[1] = e /\ <<Cron, s[2]>> \in fired}
    /\ UNCHANGED <<now, onLeave, rows, pc, loc, fired, history>>

\* A decision of the leave service; approved leave can be cancelled any time.
DecideLeave(s) ==
    /\ s \in RequestedLeave
    /\ onLeave' = IF s \in onLeave THEN onLeave \ {s} ELSE onLeave \cup {s}
    /\ UNCHANGED <<now, active, joined, rows, pc, loc, fired, history>>

\* The process ends and starts again: what was under way is gone.
Crash ==
    /\ \E p \in Processes : pc[p] # "idle"
    /\ pc' = [p \in Processes |-> "idle"]
    /\ loc' = [p \in Processes |-> NULL]
    /\ UNCHANGED <<now, people, rows, fired, history>>

Tick ==
    /\ now' \in Instants /\ now' > now
    /\ \A t \in Instants : t > now => t >= now'
    /\ UNCHANGED <<people, rows, pc, loc, fired, history>>

-----------------------------------------------------------------------------
Init ==
    /\ now \in Instants /\ \A t \in Instants : t >= now
    /\ active = Employees
    /\ onLeave = ApprovedLeave
    /\ rows = [s \in Slots |-> NULL]
    /\ pc = [p \in Processes |-> "idle"]
    /\ loc = [p \in Processes |-> NULL]
    /\ fired = {} /\ ended = {} /\ removed = {} /\ joined = {} /\ stale = {}

Begins(h) ==
    \/ \E e \in Employees, t \in Stamps \cup {now} :
          ReadForCheckIn(h, e, t) \/ ReadForCheckOut(h, e, t)
    \/ \E s \in Slots, entry \in ManualEntries :
          ReadForEntry(h, s, entry) \/ ReadForSave(h, s, entry)
    \/ \E s \in Slots : ReadForRemove(h, s)
    \/ TodayStats(h)

Continues(h) == \/ FindForUpsert(h) \/ Upsert(h) \/ CheckOut(h)
                \/ CreateEntry(h) \/ SaveEntry(h) \/ Remove(h)

JobStep ==
    \/ CronFires \/ SchedulerFires
    \/ ReadMarkedByScheduler \/ ReadLeaves \/ MarkAbsent \/ MarkOnLeave

Next ==
    \/ \E h \in Handlers : Begins(h) \/ Continues(h)
    \/ \E p \in Processes : ReadMarked(p) \/ MarkAbsentees(p)
    \/ JobStep
    \/ \E e \in Changing : Terminate(e) \/ Activate(e)
    \/ \E s \in Slots : DecideLeave(s)
    \/ Crash \/ Tick

Spec == Init /\ [][Next]_vars

-----------------------------------------------------------------------------
(* Properties *)

\* Every row has its columns' types; a job runs at most once for a day.
TypeOK ==
    /\ now \in Instants
    /\ active \subseteq Employees /\ onLeave \subseteq Slots /\ joined \subseteq Slots
    /\ rows \in [Slots -> OrNull(Row)]
    /\ ended \subseteq fired /\ fired \subseteq {Cron, Scheduler} \X Days

\* The minutes worked are those between the two times of the row, and the
\* overtime is what exceeds eight hours, unless two requests wrote the row
\* from different times (checkIn, checkOut, create, update).
WorkMatchesTimes ==
    \A s \in Slots \ stale :
        LET r == rows[s]
        IN  r # NULL =>
              /\ r.work # NULL => /\ r.checkIn # NULL /\ r.checkOut # NULL
                                  /\ r.work = r.checkOut - r.checkIn
              /\ r.overtime = IF r.work = NULL THEN 0 ELSE Overtime(r.work)

\* The late minutes are those of the check-in the row has, whoever wrote it
\* and whatever ran beside it.
LateMatchesCheckIn ==
    \A s \in Slots : rows[s] # NULL =>
        rows[s].late = IF rows[s].checkIn = NULL THEN 0
                       ELSE LateMinutes(s[1], rows[s].checkIn)

\* A row nobody edited by hand has the status that determineStatus gives its
\* times (without check-in: absent or on leave): a check-in overrides the mark of
\* a job, and only a late check-in makes a short day a half-day.  (backend.md:304
\* has every day under four hours a half-day; the code has not.)
StatusMatchesTimes ==
    \A s \in Slots \ stale :
        LET r == rows[s]
        IN  r # NULL /\ ~r.manual =>
              \/ r.status = StatusOf(s[1], r.checkIn, r.checkOut, r.work)
              \/ r.checkIn = NULL /\ r.status = "on-leave"

\* Once the 23:55 job came to its end every employee who has been active since
\* it began has a row for the day, unless somebody deleted it: createMany skips
\* those that appeared meanwhile and marks the others.  Whoever becomes active
\* while the job runs, or after it, is not among those it has read.
EveryoneRecorded ==
    \A s \in Slots : s[1] \in active /\ <<Cron, s[2]>> \in ended =>
        rows[s] # NULL \/ s \in removed \/ s \in joined

\* A time an employee recorded changes only by a manual entry: the jobs, the
\* statistics, later check-ins and check-outs leave it alone.
RecordedTimesStand ==
    [][\A s \in Slots \ stale' : \A i \in 1..2 :
          Times(rows[s])[i] # NULL /\ rows'[s] # NULL =>
              \/ Times(rows'[s])[i] = Times(rows[s])[i]
              \/ rows'[s].manual]_vars

=============================================================================
