-------------------------- MODULE Attendance_proofs --------------------------
(***************************************************************************)
(* Theorems about Attendance, for every set of employees, moments, manual  *)
(* entries and handlers.                                                   *)
(***************************************************************************)
EXTENDS Attendance, FunctionTheorems, FiniteSetTheorems, TLAPS

\* The late minutes of a row are those of its check-in.
LateOK(e, row) == row.late = IF row.checkIn = NULL THEN 0
                             ELSE LateMinutes(e, row.checkIn)

\* What process p may hold while it stands at a label.  The row an update will
\* write back from has the late minutes of its check-in.
HoldsRequest(p, label, l) ==
    /\ p \in Handlers
    /\ \/ /\ label = "upsert"
          /\ l \in [slot : Slots, at : Nat, row : OrNull(Row)]
       \/ /\ label = "write"
          /\ l \in [slot : Slots, at : Nat, row : OrNull(Row), read : OrNull(Row)]
       \/ /\ label = "checkOut"
          /\ l \in [slot : Slots, at : Nat, row : Row]
          /\ l.row.checkIn # NULL
       \/ label = "entry" /\ l \in [slot : Slots, entry : ManualEntries]
       \/ /\ label = "save"
          /\ l \in [slot : Slots, row : Row, entry : ManualEntries]
          /\ LateOK(l.slot[1], l.row)
       \/ label = "delete" /\ l \in [slot : Slots, row : Row]

HoldsMarking(p, label, l) ==
    \/ /\ label = "marked"
       /\ l \in [day : Days, active : SUBSET Employees]
    \/ /\ label = "absentees" /\ p # Scheduler
       /\ l \in [day : Days, absent : SUBSET Employees]
    \/ /\ label = "leaves" /\ p = Scheduler
       /\ l \in [day : Days, unmarked : SUBSET Employees]
    \/ /\ label = "absent" /\ p = Scheduler
       /\ l \in [day : Days, away : SUBSET Employees, absent : SUBSET Employees]
    \/ /\ label = "onLeave" /\ p = Scheduler
       /\ l \in [day : Days, away : SUBSET Employees]

\* A job works on a day for which it was started.
LocalOK(p, label, l, started) ==
    /\ \/ label = "idle"
       \/ HoldsRequest(p, label, l)
       \/ HoldsMarking(p, label, l)
    /\ p \in {Cron, Scheduler} /\ label # "idle" => <<p, l.day>> \in started

LocalsOK ==
    /\ pc = [p \in Processes |-> pc[p]] /\ loc = [p \in Processes |-> loc[p]]
    /\ \A p \in Processes : LocalOK(p, pc[p], loc[p], fired)

RowsOK == rows \in [Slots -> OrNull(Row)] /\ LateMatchesCheckIn

\* The inductive invariant.
AInv == TypeOK /\ LateMatchesCheckIn /\ LocalsOK

-----------------------------------------------------------------------------
(* The arithmetic of a row *)

LEMMA LateType ==
    ASSUME NEW e \in Employees, NEW t \in Nat
    PROVE  LateMinutes(e, t) \in Nat
<1>1. LateThreshold(e) \in Int
  <2>1. shiftStart \in [Employees -> OrNull(0..DayMinutes - 1)]
    BY AttendanceAssumption
  <2>2. shiftStart[e] # NULL => shiftStart[e] \in Int
    BY <2>1 DEF OrNull
  <2> QED  BY <2>2 DEF LateThreshold
<1>2. t % DayMinutes \in Int
  BY DEF DayMinutes
<1> QED BY <1>1, <1>2 DEF LateMinutes, PositivePart

LEMMA OvertimeType ==
    ASSUME NEW w \in Int
    PROVE  Overtime(w) \in Nat
BY DEF Overtime, PositivePart

LEMMA StatusType ==
    ASSUME NEW e, NEW checkIn, NEW checkOut, NEW w
    PROVE  StatusOf(e, checkIn, checkOut, w) \in Statuses
BY DEF StatusOf, Statuses

LEMMA NullApart == NULL \notin Nat /\ NULL \notin Int
BY AttendanceAssumption

LEMMA UnmarkedType ==
    ASSUME NEW id \in RowIds, NEW status \in Statuses, NEW e
    PROVE  /\ Unmarked(id, status) \in Row
           /\ LateOK(e, Unmarked(id, status))
           /\ Unmarked(id, status).checkIn = NULL
BY DEF Unmarked, Row, OrNull, LateOK

LEMMA CheckedInType ==
    ASSUME NEW row \in Row, NEW e \in Employees, NEW t \in Nat
    PROVE  CheckedIn(row, e, t) \in Row /\ LateOK(e, CheckedIn(row, e, t))
<1>1. LateMinutes(e, t) \in Nat /\ t # NULL
  BY LateType, NullApart
<1>2. StatusOf(e, t, NULL, 0) \in Statuses
  BY StatusType
<1> QED BY <1>1, <1>2 DEF CheckedIn, Row, OrNull, LateOK

LEMMA CheckedOutType ==
    ASSUME NEW row \in Row, NEW e, LateOK(e, row),
           NEW checkIn \in Nat, NEW t \in Nat
    PROVE  /\ CheckedOut(row, e, checkIn, t) \in Row
           /\ LateOK(e, CheckedOut(row, e, checkIn, t))
<1>1. t - checkIn \in Int /\ Overtime(t - checkIn) \in Nat
  BY OvertimeType
<1>2. StatusOf(e, checkIn, t, t - checkIn) \in Statuses
  BY StatusType
<1> QED BY <1>1, <1>2 DEF CheckedOut, Row, OrNull, LateOK

LEMMA EnteredType ==
    ASSUME NEW row \in Row, NEW e \in Employees, LateOK(e, row),
           NEW checkIn \in OrNull(Nat), NEW checkOut \in OrNull(Nat),
           NEW status \in OrNull(Statuses),
           checkIn = NULL => row.checkIn = NULL
    PROVE  /\ Entered(row, e, checkIn, checkOut, status) \in Row
           /\ LateOK(e, Entered(row, e, checkIn, checkOut, status))
<1> DEFINE both == checkIn # NULL /\ checkOut # NULL
           work == IF both THEN checkOut - checkIn ELSE row.work
           late == IF checkIn = NULL THEN row.late ELSE LateMinutes(e, checkIn)
           over == IF both THEN Overtime(work) ELSE row.overtime
           given == IF status # NULL THEN status
                    ELSE IF checkIn = NULL THEN row.status
                    ELSE StatusOf(e, checkIn, checkOut,
                                  IF work = NULL THEN 0 ELSE work)
<1>0. /\ row.id \in RowIds /\ row.late \in Nat /\ row.work \in OrNull(Int)
      /\ row.overtime \in Nat /\ row.status \in Statuses
  BY DEF Row
<1>1. work \in OrNull(Int)
  BY <1>0 DEF OrNull
<1>2. late \in Nat
  BY <1>0, LateType DEF OrNull
<1>3. over \in Nat
  BY <1>0, OvertimeType DEF OrNull
<1>4. given \in Statuses
  BY <1>0, StatusType DEF OrNull
<1>5. Entered(row, e, checkIn, checkOut, status) =
        [id |-> row.id, checkIn |-> checkIn, checkOut |-> checkOut,
         work |-> work, manual |-> TRUE, late |-> late, overtime |-> over,
         status |-> given]
  BY DEF Entered
<1> HIDE DEF work, late, over, given
<1>6. Entered(row, e, checkIn, checkOut, status) \in Row
  BY <1>0, <1>1, <1>2, <1>3, <1>4, <1>5 DEF Row
<1>7. late = IF checkIn = NULL THEN 0 ELSE LateMinutes(e, checkIn)
  BY DEF late, LateOK
<1> QED BY <1>5, <1>6, <1>7 DEF LateOK

LEMMA SlotType ==
    ASSUME NEW s \in Slots
    PROVE  s[1] \in Employees /\ s[2] \in Days /\ s[2] \in Nat
<1>1. \A t \in Instants \cup Stamps : t \in Nat
  BY AttendanceAssumption
<1>2. \A d \in Days : d \in Nat
  BY <1>1 DEF Days, DateOf, DayMinutes
<1> QED BY <1>2 DEF Slots

LEMMA GivenType ==
    ASSUME NEW time \in OrNull(0..DayMinutes - 1), NEW d \in Nat,
           NEW other \in OrNull(Nat)
    PROVE  /\ Given(time, d, other) \in OrNull(Nat)
           /\ Given(time, d, other) = NULL => other = NULL
<1>1. CASE time = NULL
  BY <1>1 DEF Given
<1>2. CASE time # NULL
  <2>1. time \in Nat /\ d * DayMinutes + time \in Nat
    BY <1>2 DEF OrNull, DayMinutes
  <2> QED BY <1>2, <2>1, NullApart DEF Given, OrNull
<1> QED BY <1>1, <1>2

LEMMA SlotOf ==
    ASSUME AInv, NEW e \in Employees, NEW t \in Stamps \cup {now}
    PROVE  /\ t \in Nat /\ DateOf(t) \in Days
           /\ <<e, DateOf(t)>> \in Slots
<1>1. t \in Instants \cup Stamps
  BY DEF AInv, TypeOK
<1> QED BY <1>1, AttendanceAssumption DEF Days, Slots

-----------------------------------------------------------------------------
(* Rows and locals *)

\* Handlers hold fewer ids of a slot than there are, so a new one is none of
\* theirs.
LEMMA NewIdType ==
    ASSUME NEW s
    PROVE  /\ NewId(s) \in RowIds
           /\ \A g \in Handlers :
                 /\ pc[g] \in {"upsert", "write", "checkOut", "save", "delete"}
                 /\ loc[g].slot = s /\ loc[g].row # NULL
                 => loc[g].row.id # NewId(s)
<1> DEFINE D == {g \in Handlers :
                   /\ pc[g] \in {"upsert", "write", "checkOut", "save", "delete"}
                   /\ loc[g].slot = s /\ loc[g].row # NULL}
           K == {loc[h].row.id : h \in D}
           f == [h \in D |-> loc[h].row.id]
           n == Cardinality(Handlers)
<1>1. IsFiniteSet(Handlers) /\ n \in Nat
  BY AttendanceAssumption, FS_CardinalityType
<1>2. IsFiniteSet(D) /\ Cardinality(D) <= n
  <2>1. D \in SUBSET Handlers
    OBVIOUS
  <2> HIDE DEF D
  <2> QED BY <1>1, <2>1, FS_Subset
<1>3. f \in Surjection(D, K)
  <2> HIDE DEF D
  <2> QED BY DEF Surjection
<1>4. IsFiniteSet(K) /\ Cardinality(K) <= Cardinality(D)
  <2> HIDE DEF D, K, f
  <2> QED BY <1>2, <1>3, FS_Surjection
<1>5. IsFiniteSet(RowIds) /\ Cardinality(RowIds) = n + 2
  <2>1. n + 1 \in Int /\ 0 \in Int /\ ~(0 > n + 1) /\ n + 1 - 0 + 1 = n + 2
    BY <1>1
  <2>2. RowIds = 0..n + 1
    BY DEF RowIds
  <2> HIDE DEF n
  <2> QED BY <2>1, <2>2, FS_Interval
<1>6. \E i \in RowIds : i \notin K
  <2>1. SUFFICES ASSUME RowIds \subseteq K PROVE FALSE
    OBVIOUS
  <2>2. Cardinality(RowIds) <= Cardinality(K)
    <3> HIDE DEF K
    <3> QED BY <1>4, <2>1, FS_Subset
  <2>3. Cardinality(K) \in Nat /\ Cardinality(D) \in Nat
    <3> HIDE DEF K, D
    <3> QED BY <1>2, <1>4, FS_CardinalityType
  <2> HIDE DEF K, D, n
  <2> QED BY <1>1, <1>2, <1>4, <1>5, <2>2, <2>3
<1>7. NewId(s) = CHOOSE i \in RowIds : i \notin K
  BY DEF NewId
<1>8. NewId(s) \in RowIds /\ NewId(s) \notin K
  <2> HIDE DEF K
  <2> QED BY <1>6, <1>7
<1> QED BY <1>8

LEMMA InsertKeeps ==
    ASSUME RowsOK, NEW s \in Slots, NEW row \in OrNull(Row),
           row # NULL => LateOK(s[1], row), Insert(s, row)
    PROVE  RowsOK'
BY DEF RowsOK, LateMatchesCheckIn, LateOK, Insert

LEMMA CreateManyKeeps ==
    ASSUME RowsOK, NEW E, NEW d, NEW status \in Statuses,
           CreateMany(E, d, status)
    PROVE  RowsOK'
<1>1. \A s \in Slots : /\ Unmarked(NewId(s), status) \in Row
                      /\ LateOK(s[1], Unmarked(NewId(s), status))
  BY NewIdType, UnmarkedType
<1>2. \A s \in Slots : rows'[s] = rows[s] \/ rows'[s] = Unmarked(NewId(s), status)
  BY DEF CreateMany
<1>3. rows' \in [Slots -> OrNull(Row)]
  BY <1>1 DEF CreateMany, RowsOK, OrNull
<1>4. LateMatchesCheckIn'
  BY <1>1, <1>2 DEF RowsOK, LateMatchesCheckIn, LateOK
<1> QED BY <1>3, <1>4 DEF RowsOK

\* One process goes on, the others stay where they are.
LEMMA GotoKeeps ==
    ASSUME LocalsOK, NEW p \in Processes, NEW label, NEW l,
           Goto(p, label, l), fired \subseteq fired',
           LocalOK(p, label, l, fired')
    PROVE  LocalsOK'
<1>1. /\ pc' = [q \in Processes |-> pc'[q]]
      /\ loc' = [q \in Processes |-> loc'[q]]
  BY DEF LocalsOK, Goto
<1>2. \A q \in Processes \ {p} : pc'[q] = pc[q] /\ loc'[q] = loc[q]
  BY DEF LocalsOK, Goto
<1>3. pc'[p] = label /\ loc'[p] = l
  BY DEF LocalsOK, Goto
<1>4. \A q \in Processes : LocalOK(q, pc'[q], loc'[q], fired')
  <2>1. TAKE q \in Processes
  <2>2. CASE q = p
    BY <2>2, <1>3
  <2>3. CASE q # p
    BY <2>3, <1>2 DEF LocalsOK, LocalOK
  <2> QED BY <2>2, <2>3
<1> QED BY <1>1, <1>4 DEF LocalsOK

LEMMA FinishKeeps ==
    ASSUME LocalsOK, NEW p \in Processes, Finish(p), fired \subseteq fired'
    PROVE  LocalsOK'
<1>1. LocalOK(p, "idle", NULL, fired')
  BY DEF LocalOK
<1> QED BY <1>1, GotoKeeps DEF Finish

LEMMA HandlersAreNoJobs ==
    /\ \A h \in Handlers : h \notin {Cron, Scheduler} /\ h \in Processes
    /\ Cron # Scheduler /\ Cron \in Processes /\ Scheduler \in Processes
BY AttendanceAssumption DEF Processes

\* Nothing but rows and locals changes.
LEMMA Reassemble ==
    ASSUME AInv, UNCHANGED <<now, people, fired, ended>>, RowsOK', LocalsOK'
    PROVE  AInv'
BY DEF AInv, TypeOK, RowsOK, people

LEMMA RowsKept ==
    ASSUME AInv, UNCHANGED rows
    PROVE  RowsOK'
BY DEF AInv, TypeOK, RowsOK, LateMatchesCheckIn

LEMMA BeginKeeps ==
    ASSUME AInv, NEW h \in Handlers, NEW label, NEW l, Begin(h, label, l),
           HoldsRequest(h, label, l)
    PROVE  AInv'
<1>1. UNCHANGED <<now, people, rows, fired, ended>> /\ Goto(h, label, l)
  BY DEF Begin, history
<1>2. LocalOK(h, label, l, fired')
  BY HandlersAreNoJobs DEF LocalOK
<1>3. LocalsOK'
  BY <1>1, <1>2, GotoKeeps, HandlersAreNoJobs DEF AInv
<1> QED BY <1>1, <1>3, RowsKept, Reassemble

\* What a handler at a label holds.
LEMMA Held ==
    ASSUME AInv, NEW h \in Handlers,
           pc[h] \in {"upsert", "write", "checkOut", "entry", "save", "delete"}
    PROVE  HoldsRequest(h, pc[h], loc[h])
<1>1. LocalOK(h, pc[h], loc[h], fired)
  BY HandlersAreNoJobs DEF AInv, LocalsOK
<1> QED BY <1>1 DEF LocalOK, HoldsMarking

\* The row of a slot a handler works on.
LEMMA RowAt ==
    ASSUME AInv, NEW s \in Slots
    PROVE  /\ rows[s] \in OrNull(Row)
           /\ rows[s] # NULL => rows[s] \in Row /\ LateOK(s[1], rows[s])
           /\ Times(rows[s])[1] # NULL => rows[s] # NULL /\ rows[s].checkIn # NULL
BY DEF AInv, TypeOK, LateMatchesCheckIn, LateOK, OrNull, Times

\* A handler that writes a row and is done.
LEMMA WriteKeeps ==
    ASSUME AInv, NEW h \in Handlers, UNCHANGED <<now, people, fired, ended>>,
           NEW s \in Slots, NEW row \in OrNull(Row),
           row # NULL => LateOK(s[1], row), Insert(s, row), Finish(h)
    PROVE  AInv'
<1>1. RowsOK
  BY DEF AInv, TypeOK, RowsOK
<1>2. RowsOK'
  BY <1>1, InsertKeeps
<1>3. LocalsOK'
  BY FinishKeeps, HandlersAreNoJobs DEF AInv
<1> QED BY <1>2, <1>3, Reassemble

LEMMA RefuseKeeps ==
    ASSUME AInv, NEW h \in Handlers, UNCHANGED <<now, people, fired, ended>>,
           Refuse(h)
    PROVE  AInv'
<1>1. LocalsOK'
  BY FinishKeeps, HandlersAreNoJobs DEF AInv, Refuse
<1> QED BY <1>1, RowsKept, Reassemble DEF Refuse

-----------------------------------------------------------------------------
(* The requests *)

LEMMA CheckInKeeps ==
    ASSUME AInv, NEW h \in Handlers
    PROVE  /\ \A e \in Employees, t \in Stamps \cup {now} :
                ReadForCheckIn(h, e, t) => AInv'
           /\ FindForUpsert(h) => AInv'
           /\ Upsert(h) => AInv'
<1>1. ASSUME NEW e \in Employees, NEW t \in Stamps \cup {now},
             ReadForCheckIn(h, e, t)
      PROVE  AInv'
  <2> DEFINE s == <<e, DateOf(t)>>
             l == [slot |-> s, at |-> t, row |-> rows[s]]
  <2>1. l \in [slot : Slots, at : Nat, row : OrNull(Row)]
    BY SlotOf, RowAt
  <2>2. HoldsRequest(h, "upsert", l)
    BY <2>1 DEF HoldsRequest
  <2>3. Begin(h, "upsert", l)
    BY <1>1 DEF ReadForCheckIn
  <2> QED BY <2>2, <2>3, BeginKeeps
<1>2. ASSUME FindForUpsert(h) PROVE AInv'
  <2> DEFINE l == [slot |-> loc[h].slot, at |-> loc[h].at,
                   row |-> rows[loc[h].slot], read |-> loc[h].row]
  <2>1. loc[h] \in [slot : Slots, at : Nat, row : OrNull(Row)]
    BY <1>2, Held DEF FindForUpsert, At, HoldsRequest
  <2>2. l \in [slot : Slots, at : Nat, row : OrNull(Row), read : OrNull(Row)]
    BY <2>1, RowAt
  <2>3. LocalOK(h, "write", l, fired)
    BY <2>2, HandlersAreNoJobs DEF LocalOK, HoldsRequest
  <2>4. Goto(h, "write", l) /\ UNCHANGED <<now, people, fired, ended, rows>>
    BY <1>2 DEF FindForUpsert, At
  <2>5. LocalsOK'
    BY <2>3, <2>4, GotoKeeps, HandlersAreNoJobs DEF AInv
  <2> QED BY <2>4, <2>5, RowsKept, Reassemble
<1>3. ASSUME Upsert(h) PROVE AInv'
  <2> DEFINE s == loc[h].slot
             t == loc[h].at
  <2>1. /\ UNCHANGED <<now, people, fired, ended>>
        /\ loc[h] \in [slot : Slots, at : Nat, row : OrNull(Row),
                       read : OrNull(Row)]
    BY <1>3, Held DEF Upsert, At, HoldsRequest
  <2>2. s \in Slots /\ s[1] \in Employees /\ t \in Nat
    BY <2>1, SlotType
  <2>3. CASE /\ Insert(s, CheckedIn(Unmarked(NewId(s), "present"), s[1], t))
             /\ Finish(h)
    <3>1. Unmarked(NewId(s), "present") \in Row
      BY NewIdType, UnmarkedType DEF Statuses
    <3>2. /\ CheckedIn(Unmarked(NewId(s), "present"), s[1], t) \in Row
          /\ LateOK(s[1], CheckedIn(Unmarked(NewId(s), "present"), s[1], t))
      BY <2>2, <3>1, CheckedInType
    <3> QED BY <2>1, <2>2, <2>3, <3>2, WriteKeeps DEF OrNull
  <2>4. CASE /\ rows[s] # NULL /\ Insert(s, CheckedIn(rows[s], s[1], t))
             /\ Finish(h)
    <3>1. rows[s] \in Row
      BY <2>2, <2>4, RowAt
    <3>2. /\ CheckedIn(rows[s], s[1], t) \in Row
          /\ LateOK(s[1], CheckedIn(rows[s], s[1], t))
      BY <2>2, <3>1, CheckedInType
    <3> QED BY <2>1, <2>2, <2>4, <3>2, WriteKeeps DEF OrNull
  <2>5. CASE Refuse(h)
    BY <2>1, <2>5, RefuseKeeps
  <2> QED BY <1>3, <2>3, <2>4, <2>5 DEF Upsert
<1> QED BY <1>1, <1>2, <1>3

LEMMA CheckOutKeeps ==
    ASSUME AInv, NEW h \in Handlers
    PROVE  /\ \A e \in Employees, t \in Stamps \cup {now} :
                ReadForCheckOut(h, e, t) => AInv'
           /\ CheckOut(h) => AInv'
<1>1. ASSUME NEW e \in Employees, NEW t \in Stamps \cup {now},
             ReadForCheckOut(h, e, t)
      PROVE  AInv'
  <2> DEFINE s == <<e, DateOf(t)>>
             l == [slot |-> s, at |-> t, row |-> rows[s]]
  <2>1. Times(rows[s])[1] # NULL /\ Begin(h, "checkOut", l)
    BY <1>1 DEF ReadForCheckOut
  <2>2. l \in [slot : Slots, at : Nat, row : Row] /\ l.row.checkIn # NULL
    BY <2>1, SlotOf, RowAt
  <2>3. HoldsRequest(h, "checkOut", l)
    BY <2>2 DEF HoldsRequest
  <2> QED BY <2>1, <2>3, BeginKeeps
<1>2. ASSUME CheckOut(h) PROVE AInv'
  <2> DEFINE s == loc[h].slot
             in == loc[h].row.checkIn
             t == loc[h].at
  <2>1. /\ UNCHANGED <<now, people, fired, ended>>
        /\ loc[h] \in [slot : Slots, at : Nat, row : Row]
        /\ in # NULL
    BY <1>2, Held DEF CheckOut, At, HoldsRequest
  <2>2. s \in Slots /\ t \in Nat /\ in \in Nat
    BY <2>1 DEF Row, OrNull
  <2>3. CASE rows[s] = NULL
    BY <1>2, <2>1, <2>3, RefuseKeeps DEF CheckOut
  <2>4. CASE rows[s] # NULL
    <3>1. /\ Insert(s, CheckedOut(rows[s], s[1], in, t)) /\ Finish(h)
      BY <1>2, <2>4 DEF CheckOut, Overwrite, Insert
    <3>2. /\ CheckedOut(rows[s], s[1], in, t) \in Row
          /\ LateOK(s[1], CheckedOut(rows[s], s[1], in, t))
      BY <2>2, <2>4, RowAt, CheckedOutType
    <3> QED BY <2>1, <2>2, <3>1, <3>2, WriteKeeps DEF OrNull
  <2> QED BY <2>3, <2>4
<1> QED BY <1>1, <1>2

LEMMA EntryType ==
    ASSUME NEW entry \in ManualEntries
    PROVE  /\ entry.checkIn \in OrNull(0..DayMinutes - 1)
           /\ entry.checkOut \in OrNull(0..DayMinutes - 1)
           /\ entry.status \in OrNull(Statuses)
BY AttendanceAssumption

LEMMA EntriesKeep ==
    ASSUME AInv, NEW h \in Handlers
    PROVE  /\ \A s \in Slots, entry \in ManualEntries :
                ReadForEntry(h, s, entry) \/ ReadForSave(h, s, entry) => AInv'
           /\ \A s \in Slots : ReadForRemove(h, s) => AInv'
           /\ CreateEntry(h) \/ SaveEntry(h) \/ Remove(h) => AInv'
<1>1. ASSUME NEW s \in Slots, NEW entry \in ManualEntries,
             ReadForEntry(h, s, entry)
      PROVE  AInv'
  <2> DEFINE l == [slot |-> s, entry |-> entry]
  <2>1. HoldsRequest(h, "entry", l)
    BY DEF HoldsRequest
  <2> QED BY <1>1, <2>1, BeginKeeps DEF ReadForEntry
<1>2. ASSUME NEW s \in Slots, NEW entry \in ManualEntries,
             ReadForSave(h, s, entry)
      PROVE  AInv'
  <2> DEFINE l == [slot |-> s, row |-> rows[s], entry |-> entry]
  <2>1. HoldsRequest(h, "save", l)
    BY <1>2, RowAt DEF HoldsRequest, ReadForSave
  <2> QED BY <1>2, <2>1, BeginKeeps DEF ReadForSave
<1>3. ASSUME NEW s \in Slots, ReadForRemove(h, s) PROVE AInv'
  <2> DEFINE l == [slot |-> s, row |-> rows[s]]
  <2>1. HoldsRequest(h, "delete", l)
    BY <1>3, RowAt DEF HoldsRequest, ReadForRemove
  <2> QED BY <1>3, <2>1, BeginKeeps DEF ReadForRemove
<1>4. ASSUME CreateEntry(h) PROVE AInv'
  <2> DEFINE s == loc[h].slot
             entry == loc[h].entry
             fresh == Unmarked(NewId(s), "absent")
             in == Given(entry.checkIn, s[2], NULL)
             out == Given(entry.checkOut, s[2], NULL)
             row == Entered(fresh, s[1], in, out, entry.status)
  <2>1. /\ UNCHANGED <<now, people, fired, ended>>
        /\ loc[h] \in [slot : Slots, entry : ManualEntries]
    BY <1>4, Held DEF CreateEntry, At, HoldsRequest
  <2>2. s \in Slots /\ s[1] \in Employees /\ s[2] \in Nat
    BY <2>1, SlotType
  <2>3. CASE rows[s] # NULL
    BY <1>4, <2>1, <2>3, RefuseKeeps DEF CreateEntry
  <2>4. CASE rows[s] = NULL
    <3>1. /\ in \in OrNull(Nat) /\ out \in OrNull(Nat)
          /\ entry.status \in OrNull(Statuses)
      <4>1. entry \in ManualEntries /\ NULL \in OrNull(Nat)
        BY <2>1 DEF OrNull
      <4> HIDE DEF entry, s
      <4> QED BY <2>2, <4>1, EntryType, GivenType
    <3>2. fresh \in Row /\ LateOK(s[1], fresh) /\ fresh.checkIn = NULL
      <4>1. NewId(s) \in RowIds /\ "absent" \in Statuses
        BY NewIdType DEF Statuses
      <4> QED BY <4>1, UnmarkedType
    <3>3. row \in Row /\ LateOK(s[1], row)
      <4> HIDE DEF fresh, in, out, entry, s
      <4> QED BY <2>2, <3>1, <3>2, EnteredType DEF row
    <3>4. Insert(s, row) /\ Finish(h)
      BY <1>4, <2>4 DEF CreateEntry
    <3> HIDE DEF row, s
    <3> QED BY <2>1, <2>2, <3>3, <3>4, WriteKeeps DEF OrNull
  <2> QED BY <2>3, <2>4
<1>5. ASSUME SaveEntry(h) PROVE AInv'
  <2> DEFINE s == loc[h].slot
             entry == loc[h].entry
             old == loc[h].row
             in == Given(entry.checkIn, s[2], old.checkIn)
             out == Given(entry.checkOut, s[2], old.checkOut)
             row == Entered(old, s[1], in, out, entry.status)
  <2>1. /\ UNCHANGED <<now, people, fired, ended>>
        /\ loc[h] \in [slot : Slots, row : Row, entry : ManualEntries]
        /\ LateOK(s[1], old)
    BY <1>5, Held DEF SaveEntry, At, HoldsRequest
  <2>2. s \in Slots /\ s[1] \in Employees /\ s[2] \in Nat
    BY <2>1, SlotType
  <2>3. CASE ~IsStill(h)
    BY <1>5, <2>1, <2>3, RefuseKeeps DEF SaveEntry
  <2>4. CASE IsStill(h)
    <3>1. /\ in \in OrNull(Nat) /\ out \in OrNull(Nat)
          /\ entry.status \in OrNull(Statuses)
          /\ in = NULL => old.checkIn = NULL
      <4>1. /\ entry \in ManualEntries
            /\ old.checkIn \in OrNull(Nat) /\ old.checkOut \in OrNull(Nat)
        BY <2>1 DEF Row
      <4> HIDE DEF entry, s, old
      <4> QED BY <2>2, <4>1, EntryType, GivenType
    <3>2. old \in Row
      BY <2>1
    <3>3. row \in Row /\ LateOK(s[1], row)
      <4> HIDE DEF old, in, out, entry, s
      <4> QED BY <2>1, <2>2, <3>1, <3>2, EnteredType DEF row
    <3>4. Insert(s, row) /\ Finish(h)
      BY <1>5, <2>4 DEF SaveEntry, Overwrite, Insert
    <3> HIDE DEF row, s
    <3> QED BY <2>1, <2>2, <3>3, <3>4, WriteKeeps DEF OrNull
  <2> QED BY <2>3, <2>4
<1>6. ASSUME Remove(h) PROVE AInv'
  <2>1. /\ UNCHANGED <<now, people, fired, ended>>
        /\ loc[h].slot \in Slots
    BY <1>6, Held DEF Remove, At, HoldsRequest
  <2>2. CASE Refuse(h)
    BY <2>1, <2>2, RefuseKeeps
  <2>3. CASE Insert(loc[h].slot, NULL) /\ Finish(h)
    BY <2>1, <2>3, WriteKeeps DEF OrNull
  <2> QED BY <1>6, <2>2, <2>3 DEF Remove
<1> QED BY <1>1, <1>2, <1>3, <1>4, <1>5, <1>6

-----------------------------------------------------------------------------
(* Marking who did not come *)

\* What a process that marks holds.
LEMMA HeldMarking ==
    ASSUME AInv, NEW p \in Processes,
           pc[p] \in {"marked", "absentees", "leaves", "absent", "onLeave"}
    PROVE  /\ HoldsMarking(p, pc[p], loc[p])
           /\ p \in {Cron, Scheduler} => <<p, loc[p].day>> \in fired
<1>1. LocalOK(p, pc[p], loc[p], fired)
  BY DEF AInv, LocalsOK
<1> QED BY <1>1 DEF LocalOK, HoldsRequest

LEMMA StartedMarking ==
    ASSUME AInv, NEW p \in Processes
    PROVE  HoldsMarking(p, "marked", [day |-> DateOf(now), active |-> active])
<1>1. now \in Instants /\ active \subseteq Employees
  BY DEF AInv, TypeOK
<1>2. DateOf(now) \in Days
  BY <1>1 DEF Days
<1> QED BY <1>1, <1>2 DEF HoldsMarking

LEMMA TodayStatsKeeps ==
    ASSUME AInv, NEW h \in Handlers, TodayStats(h)
    PROVE  AInv'
<1> DEFINE l == [day |-> DateOf(now), active |-> active]
<1>1. LocalOK(h, "marked", l, fired')
  BY StartedMarking, HandlersAreNoJobs DEF LocalOK
<1>2. Goto(h, "marked", l) /\ UNCHANGED <<now, people, rows, fired, ended>>
  BY DEF TodayStats, StartMarking, history
<1>3. LocalsOK'
  BY <1>1, <1>2, GotoKeeps, HandlersAreNoJobs DEF AInv
<1> QED BY <1>2, <1>3, RowsKept, Reassemble

LEMMA FireKeeps ==
    ASSUME AInv, NEW job \in {Cron, Scheduler}, Fire(job)
    PROVE  AInv'
<1> DEFINE l == [day |-> DateOf(now), active |-> active]
<1>1. /\ fired' = fired \cup {<<job, DateOf(now)>>}
      /\ Goto(job, "marked", l) /\ UNCHANGED <<now, people, rows, ended>>
  BY DEF Fire, StartMarking, history
<1>2. job \in Processes
  BY HandlersAreNoJobs
<1>3. LocalOK(job, "marked", l, fired')
  BY <1>1, <1>2, StartedMarking DEF LocalOK
<1>4. LocalsOK'
  BY <1>1, <1>2, <1>3, GotoKeeps DEF AInv
<1>5. DateOf(now) \in Days
  BY DEF AInv, TypeOK, Days
<1>6. TypeOK'
  BY <1>1, <1>5 DEF AInv, TypeOK, people
<1> QED BY <1>1, <1>4, <1>6, RowsKept DEF AInv, RowsOK

\* A process that marks goes on to the next statement.
LEMMA ReadKeeps ==
    ASSUME AInv, NEW p \in Processes, NEW label, NEW l, Goto(p, label, l),
           UNCHANGED <<now, people, fired, ended, rows>>,
           HoldsMarking(p, label, l),
           p \in {Cron, Scheduler} => <<p, l.day>> \in fired
    PROVE  AInv'
<1>1. LocalOK(p, label, l, fired')
  BY DEF LocalOK
<1>2. LocalsOK'
  BY <1>1, GotoKeeps DEF AInv
<1> QED BY <1>2, RowsKept, Reassemble

\* It marks, and goes on or ends.
LEMMA MarkKeeps ==
    ASSUME AInv, NEW p \in Processes, UNCHANGED <<now, people, fired>>,
           RowsOK', LocalsOK',
           \/ UNCHANGED ended
           \/ End(p, loc[p].day) /\ (p \in {Cron, Scheduler}
                                     => <<p, loc[p].day>> \in fired)
    PROVE  AInv'
<1>1. p \in Handlers \/ p \in {Cron, Scheduler}
  BY DEF Processes
<1>2. ended' \subseteq fired'
  BY <1>1 DEF AInv, TypeOK, End
<1> QED BY <1>2 DEF AInv, TypeOK, RowsOK, people

LEMMA AbsenteesKeep ==
    ASSUME AInv, NEW p \in Processes
    PROVE  ReadMarked(p) \/ MarkAbsentees(p) => AInv'
<1>1. ASSUME ReadMarked(p) PROVE AInv'
  <2> DEFINE l == [day |-> loc[p].day,
                   absent |-> loc[p].active \ Marked(loc[p].day)]
  <2>1. /\ p # Scheduler /\ Goto(p, "absentees", l)
        /\ UNCHANGED <<now, people, fired, ended, rows>>
    BY <1>1 DEF ReadMarked, At
  <2>2. /\ loc[p] \in [day : Days, active : SUBSET Employees]
        /\ p \in {Cron, Scheduler} => <<p, loc[p].day>> \in fired
    BY <1>1, HeldMarking DEF ReadMarked, At, HoldsMarking
  <2>3. HoldsMarking(p, "absentees", l)
    BY <2>1, <2>2 DEF HoldsMarking
  <2> QED BY <2>1, <2>2, <2>3, ReadKeeps
<1>2. ASSUME MarkAbsentees(p) PROVE AInv'
  <2>1. /\ CreateMany(loc[p].absent, loc[p].day, "absent")
        /\ Finish(p) /\ End(p, loc[p].day)
        /\ UNCHANGED <<now, people, fired>>
    BY <1>2 DEF MarkAbsentees
  <2>2. p \in {Cron, Scheduler} => <<p, loc[p].day>> \in fired
    BY <1>2, HeldMarking DEF MarkAbsentees
  <2>3. RowsOK'
    BY <2>1, CreateManyKeeps DEF AInv, TypeOK, RowsOK, Statuses
  <2>4. LocalsOK'
    BY <2>1, FinishKeeps DEF AInv
  <2> QED BY <2>1, <2>2, <2>3, <2>4, MarkKeeps
<1> QED BY <1>1, <1>2

LEMMA SchedulerKeeps ==
    ASSUME AInv
    PROVE  ReadMarkedByScheduler \/ ReadLeaves \/ MarkAbsent \/ MarkOnLeave
           => AInv'
<1> DEFINE held == loc[Scheduler]
<1>0. Scheduler \in Processes /\ RowsOK
  BY HandlersAreNoJobs DEF AInv, TypeOK, RowsOK
<1>1. ASSUME ReadMarkedByScheduler PROVE AInv'
  <2> DEFINE l == [day |-> held.day,
                   unmarked |-> held.active \ Marked(held.day)]
  <2>1. /\ Goto(Scheduler, "leaves", l)
        /\ UNCHANGED <<now, people, fired, ended, rows>>
    BY <1>1 DEF ReadMarkedByScheduler, At
  <2>2. /\ held \in [day : Days, active : SUBSET Employees]
        /\ <<Scheduler, held.day>> \in fired
    BY <1>0, <1>1, HeldMarking DEF ReadMarkedByScheduler, At, HoldsMarking
  <2>3. HoldsMarking(Scheduler, "leaves", l)
    BY <2>2 DEF HoldsMarking
  <2> QED BY <1>0, <2>1, <2>2, <2>3, ReadKeeps
<1>2. ASSUME ReadLeaves PROVE AInv'
  <2> DEFINE away == {e \in held.unmarked : <<e, held.day>> \in onLeave}
             l == [day |-> held.day, away |-> away,
                   absent |-> held.unmarked \ away]
  <2>1. /\ Goto(Scheduler, "absent", l)
        /\ UNCHANGED <<now, people, fired, ended, rows>>
    BY <1>2 DEF ReadLeaves, At
  <2>2. /\ held \in [day : Days, unmarked : SUBSET Employees]
        /\ <<Scheduler, held.day>> \in fired
    BY <1>0, <1>2, HeldMarking DEF ReadLeaves, At, HoldsMarking
  <2>3. HoldsMarking(Scheduler, "absent", l)
    BY <2>2 DEF HoldsMarking
  <2> QED BY <1>0, <2>1, <2>2, <2>3, ReadKeeps
<1>3. ASSUME MarkAbsent PROVE AInv'
  <2> DEFINE l == [day |-> held.day, away |-> held.away]
  <2>1. /\ held \in [day : Days, away : SUBSET Employees,
                     absent : SUBSET Employees]
        /\ <<Scheduler, held.day>> \in fired
        /\ UNCHANGED <<now, people, fired>>
    BY <1>0, <1>3, HeldMarking DEF MarkAbsent, HoldsMarking
  <2>2. CASE /\ CreateMany(held.absent, held.day, "absent")
             /\ Goto(Scheduler, "onLeave", l) /\ UNCHANGED ended
    <3>1. RowsOK'
      BY <1>0, <2>2, CreateManyKeeps DEF Statuses
    <3>2. LocalOK(Scheduler, "onLeave", l, fired')
      BY <2>1 DEF LocalOK, HoldsMarking
    <3>3. LocalsOK'
      BY <1>0, <2>1, <2>2, <3>2, GotoKeeps DEF AInv
    <3> QED BY <1>0, <2>1, <2>2, <3>1, <3>3, MarkKeeps
  <2>3. CASE Finish(Scheduler) /\ End(Scheduler, held.day) /\ UNCHANGED rows
    <3>1. LocalsOK'
      BY <1>0, <2>1, <2>3, FinishKeeps DEF AInv
    <3> QED BY <1>0, <2>1, <2>3, <3>1, RowsKept, MarkKeeps
  <2> QED BY <1>3, <2>2, <2>3 DEF MarkAbsent
<1>4. ASSUME MarkOnLeave PROVE AInv'
  <2>1. /\ Finish(Scheduler) /\ End(Scheduler, held.day)
        /\ UNCHANGED <<now, people, fired>>
        /\ UNCHANGED rows \/ CreateMany(held.away, held.day, "on-leave")
        /\ <<Scheduler, held.day>> \in fired
    BY <1>0, <1>4, HeldMarking DEF MarkOnLeave
  <2>2. RowsOK'
    BY <1>0, <2>1, RowsKept, CreateManyKeeps DEF Statuses
  <2>3. LocalsOK'
    BY <1>0, <2>1, FinishKeeps DEF AInv
  <2> QED BY <1>0, <2>1, <2>2, <2>3, MarkKeeps
<1> QED BY <1>1, <1>2, <1>3, <1>4

-----------------------------------------------------------------------------
(* What happens around them *)

LEMMA SurroundingsKeep ==
    ASSUME AInv,
           \/ \E e \in Changing : Terminate(e) \/ Activate(e)
           \/ \E s \in Slots : DecideLeave(s)
           \/ Crash \/ Tick
    PROVE  AInv'
<1>1. UNCHANGED <<rows, fired, ended>>
  BY DEF Terminate, Activate, DecideLeave, Crash, Tick, history
<1>2. TypeOK'
  <2>1. now' \in Instants
    BY DEF AInv, TypeOK, Terminate, Activate, DecideLeave, Crash, Tick, people
  <2>2. active' \subseteq Employees /\ onLeave' \subseteq Slots /\ joined' \subseteq Slots
    BY AttendanceAssumption DEF AInv, TypeOK, Terminate, Activate, DecideLeave, Crash, Tick, people
  <2> QED BY <1>1, <2>1, <2>2 DEF AInv, TypeOK
<1>3. CASE Crash
  <2>1. /\ pc' = [p \in Processes |-> "idle"]
        /\ loc' = [p \in Processes |-> NULL]
    BY <1>3 DEF Crash
  <2>2. \A p \in Processes : LocalOK(p, pc'[p], loc'[p], fired')
    BY <2>1 DEF LocalOK
  <2>3. LocalsOK'
    BY <2>1, <2>2 DEF LocalsOK
  <2> QED BY <1>1, <1>2, <2>3, RowsKept DEF AInv, RowsOK
<1>4. CASE ~Crash
  <2>1. UNCHANGED <<pc, loc, fired>>
    BY <1>1, <1>4 DEF Terminate, Activate, DecideLeave, Tick
  <2>2. LocalsOK'
    BY <2>1 DEF AInv, LocalsOK, LocalOK
  <2> QED BY <1>1, <1>2, <2>2, RowsKept DEF AInv, RowsOK
<1> QED BY <1>3, <1>4

LEMMA InitAInv == Init => AInv
<1> SUFFICES ASSUME Init PROVE AInv
  OBVIOUS
<1>1. TypeOK
  BY AttendanceAssumption DEF Init, TypeOK, OrNull
<1>2. LateMatchesCheckIn
  BY DEF Init, LateMatchesCheckIn
<1>3. \A p \in Processes : LocalOK(p, pc[p], loc[p], fired)
  BY DEF Init, LocalOK
<1>4. LocalsOK
  BY <1>3 DEF Init, LocalsOK
<1> QED BY <1>1, <1>2, <1>4 DEF AInv

LEMMA NextAInv == AInv /\ [Next]_vars => AInv'
<1> SUFFICES ASSUME AInv, [Next]_vars PROVE AInv'
  OBVIOUS
<1>1. ASSUME NEW h \in Handlers, Begins(h) \/ Continues(h) PROVE AInv'
  <2>1. CASE \E e \in Employees, t \in Stamps \cup {now} :
                ReadForCheckIn(h, e, t) \/ ReadForCheckOut(h, e, t)
    BY <2>1, CheckInKeeps, CheckOutKeeps
  <2>2. CASE \E s \in Slots, entry \in ManualEntries :
                ReadForEntry(h, s, entry) \/ ReadForSave(h, s, entry)
    BY <2>2, EntriesKeep
  <2>3. CASE (\E s \in Slots : ReadForRemove(h, s)) \/ TodayStats(h)
    BY <2>3, EntriesKeep, TodayStatsKeeps
  <2>4. CASE Continues(h)
    BY <2>4, CheckInKeeps, CheckOutKeeps, EntriesKeep DEF Continues
  <2> QED BY <1>1, <2>1, <2>2, <2>3, <2>4 DEF Begins
<1>2. ASSUME NEW p \in Processes, ReadMarked(p) \/ MarkAbsentees(p)
      PROVE  AInv'
  BY <1>2, AbsenteesKeep
<1>3. ASSUME JobStep PROVE AInv'
  BY <1>3, FireKeeps, SchedulerKeeps DEF JobStep, CronFires, SchedulerFires
<1>4. ASSUME UNCHANGED vars PROVE AInv'
  <2>1. UNCHANGED <<now, people, fired, ended, rows, pc, loc>>
    BY <1>4 DEF vars, people
  <2>2. LocalsOK'
    BY <2>1 DEF AInv, LocalsOK, LocalOK
  <2> QED BY <2>1, <2>2, RowsKept, Reassemble
<1> QED BY <1>1, <1>2, <1>3, <1>4, SurroundingsKeep DEF Next

\* The invariant holds: rows and the locals of every handler and job stay of
\* their type, a job holds a day it was started for, and what a manual edit
\* will write back has the late minutes of its check-in.
THEOREM AInvHolds == Spec => []AInv
BY InitAInv, NextAInv, PTL DEF Spec

\* The attendance table keeps its types, a negative workMinutes included, and
\* a job is never recorded as ended on a day it was not started.
THEOREM AttendanceTypes == Spec => []TypeOK
<1>1. AInv => TypeOK
  BY DEF AInv
<1> QED BY <1>1, AInvHolds, PTL

\* lateMinutes always belongs to the checkIn beside it, whichever requests and
\* jobs write the row and however they overlap.
THEOREM LateMinutesBelong == Spec => []LateMatchesCheckIn
<1>1. AInv => LateMatchesCheckIn
  BY DEF AInv
<1> QED BY <1>1, AInvHolds, PTL

-----------------------------------------------------------------------------
(* What the columns of a row have to do with each other *)

\* The minutes worked and the overtime are those of the times.
WorkFits(row) ==
    /\ row.work # NULL => /\ row.checkIn # NULL /\ row.checkOut # NULL
                          /\ row.work = row.checkOut - row.checkIn
    /\ row.overtime = IF row.work = NULL THEN 0 ELSE Overtime(row.work)

\* A row nobody entered by hand has no check-out alone, and the status of its
\* times.
StatusFits(e, row) ==
    ~row.manual =>
        /\ row.checkIn = NULL => row.checkOut = NULL
        /\ \/ row.status = StatusOf(e, row.checkIn, row.checkOut, row.work)
           \/ row.checkIn = NULL /\ row.status = "on-leave"

Fits(s, row) == WorkFits(row) /\ StatusFits(s[1], row)

\* What a handler knows of the row it has read: a check-in found none, a
\* check-out no earlier one, and the columns an edit writes back fit each other
\* as long as the row it has read is there.
ReadFits(h) ==
    LET l == loc[h]
    IN  /\ pc[h] = "upsert" => Times(l.row)[1] = NULL
        /\ pc[h] = "write" => Times(l.read)[1] = NULL
        /\ pc[h] = "checkOut" => Times(l.row)[2] = NULL
        /\ pc[h] = "save" /\ l.slot \notin stale /\ rows[l.slot] # NULL
              /\ rows[l.slot].id = l.row.id => WorkFits(l.row)

\* The inductive invariant of the two properties about times.
FitInv ==
    /\ \A s \in Slots \ stale : rows[s] # NULL => Fits(s, rows[s])
    /\ \A h \in Handlers : ReadFits(h)

\* The recorded times of the row before stand in the row after.
TimesStand(before, after) ==
    \A i \in 1..2 : Times(before)[i] # NULL =>
        Times(after)[i] = Times(before)[i] \/ after.manual

\* What every step does to a row: it stays, is removed, comes with a new id or
\* keeps its id; that it was written from old times is forgotten only with the row;
\* and what is written from the times that are there fits them.
RowsMove ==
    \A s \in Slots :
        /\ \/ rows'[s] = rows[s]
           \/ rows'[s] = NULL /\ s \in removed'
           \/ rows'[s] # NULL /\ rows[s] = NULL /\ rows'[s].id = NewId(s)
           \/ rows'[s] # NULL /\ rows[s] # NULL /\ rows'[s].id = rows[s].id
        /\ s \in stale /\ s \notin stale' => rows'[s] = NULL
        /\ s \notin stale' /\ rows'[s] # NULL =>
              \/ rows'[s] = rows[s]
              \/ Fits(s, rows'[s]) /\ TimesStand(rows[s], rows'[s])

Reading == {"upsert", "write", "checkOut", "save"}

\* Such a step leaves the handlers that do not move what they know: a row that
\* came meanwhile has another id.
LEMMA MoveKeepsReads ==
    ASSUME AInv, RowsMove, NEW g \in Handlers, ReadFits(g),
           pc'[g] = pc[g], loc'[g] = loc[g]
    PROVE  ReadFits(g)'
<1>1. CASE pc[g] # "save"
  BY <1>1 DEF ReadFits
<1>2. CASE pc[g] = "save"
  <2> DEFINE s == loc[g].slot
  <2>1. loc[g] \in [slot : Slots, row : Row, entry : ManualEntries]
    BY <1>2, Held DEF HoldsRequest
  <2>2. s \in Slots /\ loc[g].row # NULL
    BY <2>1, NullAssumption
  <2>3. loc[g].row.id # NewId(s)
    BY <1>2, <2>2, NewIdType
  <2>4. ASSUME s \notin stale', rows'[s] # NULL, rows'[s].id = loc[g].row.id
        PROVE  WorkFits(loc[g].row)
    <3>1. s \notin stale /\ rows[s] # NULL /\ rows[s].id = loc[g].row.id
      BY <2>2, <2>3, <2>4 DEF RowsMove
    <3> QED BY <1>2, <3>1 DEF ReadFits
  <2> QED BY <1>2, <2>4 DEF ReadFits
<1> QED BY <1>1, <1>2

LEMMA MoveKeepsFit ==
    ASSUME AInv, FitInv, RowsMove,
           \A g \in Handlers : \/ pc'[g] = pc[g] /\ loc'[g] = loc[g]
                               \/ pc'[g] \notin Reading
                               \/ ReadFits(g)'
    PROVE  FitInv'
<1>1. ASSUME NEW g \in Handlers PROVE ReadFits(g)'
  <2>1. CASE pc'[g] = pc[g] /\ loc'[g] = loc[g]
    BY <2>1, MoveKeepsReads DEF FitInv
  <2>2. CASE pc'[g] \notin Reading
    BY <2>2 DEF ReadFits, Reading
  <2> QED BY <1>1, <2>1, <2>2
<1>2. ASSUME NEW s \in Slots \ stale', rows'[s] # NULL
      PROVE  Fits(s, rows'[s])
  <2>1. CASE rows'[s] = rows[s]
    <3>1. s \notin stale
      BY <1>2 DEF RowsMove
    <3> QED BY <1>2, <2>1, <3>1 DEF FitInv
  <2>2. CASE rows'[s] # rows[s]
    BY <1>2, <2>2 DEF RowsMove
  <2> QED BY <2>1, <2>2
<1>3. (\A s \in Slots \ stale : rows[s] # NULL => Fits(s, rows[s]))'
  BY <1>2 DEF Fits, WorkFits, StatusFits
<1> QED BY <1>1, <1>3 DEF FitInv

\* The process that takes the step finds what it should have read.
LEMMA StepKeepsFit ==
    ASSUME AInv, FitInv, RowsMove, NEW p \in Processes, NEW label, NEW l,
           Goto(p, label, l),
           p \in Handlers /\ label \in Reading => ReadFits(p)'
    PROVE  FitInv'
<1>1. /\ pc'[p] = label
      /\ \A g \in Handlers : g # p => pc'[g] = pc[g] /\ loc'[g] = loc[g]
  BY HandlersAreNoJobs DEF AInv, LocalsOK, Goto
<1> QED BY <1>1, MoveKeepsFit

LEMMA NoMove ==
    ASSUME UNCHANGED <<rows, stale>>
    PROVE  RowsMove
BY DEF RowsMove

\* One row is written.
LEMMA WriteMoves ==
    ASSUME AInv, NEW s \in Slots, NEW row \in Row, Insert(s, row),
           \/ rows[s] = NULL /\ row.id = NewId(s)
           \/ rows[s] # NULL /\ row.id = rows[s].id,
           stale \subseteq stale',
           s \notin stale' => Fits(s, row) /\ TimesStand(rows[s], row)
    PROVE  RowsMove
<1>1. rows' = [rows EXCEPT ![s] = row] /\ rows \in [Slots -> OrNull(Row)]
  BY DEF Insert, AInv, TypeOK
<1>2. /\ rows'[s] = row /\ row # NULL
      /\ \A r \in Slots : r # s => rows'[r] = rows[r]
  BY <1>1, NullAssumption
<1> QED BY <1>2 DEF RowsMove

\* A job, or the statistics, mark employees without a row.
LEMMA CreateManyMoves ==
    ASSUME NEW E, NEW d, NEW status \in {"absent", "on-leave"},
           CreateMany(E, d, status), UNCHANGED stale
    PROVE  RowsMove
<1>1. ASSUME NEW s \in Slots
      PROVE  /\ Fits(s, Unmarked(NewId(s), status))
             /\ TimesStand(NULL, Unmarked(NewId(s), status))
  BY DEF Fits, WorkFits, StatusFits, Unmarked, StatusOf, TimesStand, Times
<1>2. \A s \in Slots : /\ Unmarked(NewId(s), status).id = NewId(s)
                      /\ Unmarked(NewId(s), status) # NULL
  <2>1. ASSUME NEW s \in Slots PROVE Unmarked(NewId(s), status) \in Row
    BY NewIdType, UnmarkedType DEF Statuses
  <2> QED BY <2>1, NullAssumption DEF Unmarked
<1>3. \A s \in Slots : \/ rows'[s] = rows[s]
                       \/ rows[s] = NULL /\ rows'[s] = Unmarked(NewId(s), status)
  BY DEF CreateMany
<1> QED BY <1>1, <1>2, <1>3 DEF RowsMove

\* What the requests write fits when the times are those they had read.
LEMMA CheckedInFits ==
    ASSUME NEW row \in Row, NEW s \in Slots, NEW t \in Nat,
           WorkFits(row), StatusFits(s[1], row), row.checkIn = NULL
    PROVE  /\ Fits(s, CheckedIn(row, s[1], t))
           /\ CheckedIn(row, s[1], t).id = row.id
           /\ TimesStand(row, CheckedIn(row, s[1], t))
<1> DEFINE new == CheckedIn(row, s[1], t)
<1>1. /\ new.id = row.id /\ new.checkIn = t /\ new.checkOut = row.checkOut
      /\ new.work = row.work /\ new.overtime = row.overtime
      /\ new.manual = row.manual /\ new.status = StatusOf(s[1], t, NULL, 0)
  BY DEF CheckedIn, Row
<1>2. row.work = NULL /\ row.overtime = 0
  BY DEF WorkFits
<1>3. WorkFits(new)
  BY <1>1, <1>2 DEF WorkFits
<1>4. t # NULL
  BY NullApart
<1>5. StatusFits(s[1], new)
  BY <1>1, <1>4 DEF StatusFits, StatusOf
<1>6. /\ Times(row)[1] = row.checkIn /\ Times(row)[2] = row.checkOut
      /\ Times(new)[1] = t /\ Times(new)[2] = row.checkOut
  <2>1. new \in Row
    BY SlotType, CheckedInType
  <2> HIDE DEF new
  <2> QED BY <1>1, <2>1, NullAssumption DEF Times
<1>7. TimesStand(row, new)
  BY <1>1, <1>6 DEF TimesStand
<1> QED BY <1>1, <1>3, <1>5, <1>7 DEF Fits

LEMMA CheckedOutFits ==
    ASSUME NEW row \in Row, NEW s \in Slots, NEW t \in Nat, LateOK(s[1], row),
           row.checkIn # NULL, row.checkOut = NULL
    PROVE  /\ Fits(s, CheckedOut(row, s[1], row.checkIn, t))
           /\ TimesStand(row, CheckedOut(row, s[1], row.checkIn, t))
<1> DEFINE in == row.checkIn
           new == CheckedOut(row, s[1], in, t)
<1>1. /\ new.checkIn = in /\ new.checkOut = t /\ new.work = t - in
      /\ new.overtime = Overtime(t - in) /\ new.manual = row.manual
      /\ new.status = StatusOf(s[1], in, t, t - in)
  BY DEF CheckedOut, Row
<1>2. in \in Nat /\ t - in \in Int /\ t # NULL /\ t - in # NULL
  BY NullApart DEF Row, OrNull
<1>3. WorkFits(new)
  BY <1>1, <1>2 DEF WorkFits
<1>4. StatusFits(s[1], new)
  BY <1>1, <1>2 DEF StatusFits
<1>5. /\ Times(row)[1] = in /\ Times(row)[2] = NULL
      /\ Times(new)[1] = in
  <2>1. new \in Row
    BY <1>2, CheckedOutType
  <2> HIDE DEF new
  <2> QED BY <1>1, <2>1, NullAssumption DEF Times
<1>6. TimesStand(row, new)
  BY <1>5 DEF TimesStand
<1> QED BY <1>3, <1>4, <1>6 DEF Fits

\* A manual entry fits if the minutes it keeps do, and any time may change.
LEMMA EnteredFits ==
    ASSUME NEW row \in Row, NEW s \in Slots, WorkFits(row),
           NEW in \in OrNull(Nat), NEW out \in OrNull(Nat), NEW status,
           in = NULL => row.checkIn = NULL, out = NULL => row.checkOut = NULL,
           NEW before
    PROVE  /\ Fits(s, Entered(row, s[1], in, out, status))
           /\ TimesStand(before, Entered(row, s[1], in, out, status))
<1> DEFINE new == Entered(row, s[1], in, out, status)
           both == in # NULL /\ out # NULL
<1>1. /\ new.checkIn = in /\ new.checkOut = out /\ new.manual = TRUE
      /\ new.work = IF both THEN out - in ELSE row.work
      /\ new.overtime = IF both THEN Overtime(new.work) ELSE row.overtime
  BY DEF Entered
<1>2. both => out - in \in Int /\ out - in # NULL
  BY NullApart DEF OrNull
<1>3. ~both => row.work = NULL /\ row.overtime = 0
  BY DEF WorkFits
<1>4. WorkFits(new)
  <2> HIDE DEF new
  <2> QED BY <1>1, <1>2, <1>3 DEF WorkFits
<1>5. StatusFits(s[1], new) /\ TimesStand(before, new)
  <2> HIDE DEF new
  <2> QED BY <1>1 DEF StatusFits, TimesStand
<1> QED BY <1>4, <1>5 DEF Fits

LEMMA UnmarkedFits ==
    ASSUME NEW id, NEW status, NEW s
    PROVE  /\ WorkFits(Unmarked(id, status))
           /\ status = "absent" => StatusFits(s[1], Unmarked(id, status))
           /\ Unmarked(id, status).id = id
BY DEF WorkFits, StatusFits, StatusOf, Unmarked

\* A new check-in: no row was there.
LEMMA FirstCheckInFits ==
    ASSUME NEW s \in Slots, NEW t \in Nat, NEW id \in RowIds
    PROVE  LET row == CheckedIn(Unmarked(id, "present"), s[1], t)
           IN  /\ row \in Row /\ row.id = id /\ Fits(s, row)
               /\ TimesStand(NULL, row)
<1> DEFINE row == CheckedIn(Unmarked(id, "present"), s[1], t)
<1>1. Unmarked(id, "present") \in Row
  BY UnmarkedType DEF Statuses
<1>2. row \in Row
  BY <1>1, SlotType, CheckedInType
<1>3. /\ row.id = id /\ row.checkIn = t /\ row.checkOut = NULL
      /\ row.work = NULL /\ row.overtime = 0
      /\ row.manual = FALSE /\ row.status = StatusOf(s[1], t, NULL, 0)
  BY DEF CheckedIn, Unmarked
<1>4. t # NULL
  BY NullApart
<1>5. Fits(s, row)
  <2> HIDE DEF row
  <2> QED BY <1>3, <1>4 DEF Fits, WorkFits, StatusFits, StatusOf
<1>6. TimesStand(NULL, row)
  BY DEF TimesStand, Times
<1> QED BY <1>2, <1>3, <1>5, <1>6

-----------------------------------------------------------------------------
(* Every step moves the rows this way and keeps the invariant *)

\* Where a process is after its step.
LEMMA Gone ==
    ASSUME AInv, NEW p \in Processes, NEW label, NEW l, Goto(p, label, l)
    PROVE  pc'[p] = label /\ loc'[p] = l
BY DEF AInv, LocalsOK, Goto

\* A request begins with a look at the row.
LEMMA BeginFits ==
    ASSUME AInv, FitInv, NEW h \in Handlers, NEW label, NEW l,
           Begin(h, label, l), label \in Reading => ReadFits(h)'
    PROVE  RowsMove /\ FitInv'
<1>1. Goto(h, label, l) /\ UNCHANGED <<rows, stale>>
  BY DEF Begin, history
<1>2. RowsMove
  BY <1>1, NoMove
<1> QED BY <1>1, <1>2, StepKeepsFit, HandlersAreNoJobs

LEMMA BeginsFit ==
    ASSUME AInv, FitInv, NEW h \in Handlers, Begins(h)
    PROVE  RowsMove /\ FitInv'
<1>0. h \in Processes
  BY HandlersAreNoJobs
<1>1. ASSUME NEW e \in Employees, NEW t \in Stamps \cup {now},
             ReadForCheckIn(h, e, t)
      PROVE  RowsMove /\ FitInv'
  <2> DEFINE s == <<e, DateOf(t)>>
             l == [slot |-> s, at |-> t, row |-> rows[s]]
  <2>1. Begin(h, "upsert", l) /\ Times(l.row)[1] = NULL
    BY <1>1 DEF ReadForCheckIn
  <2> HIDE DEF l
  <2>2. pc'[h] = "upsert" /\ loc'[h] = l
    BY <1>0, <2>1, Gone DEF Begin
  <2>3. ReadFits(h)'
    BY <2>1, <2>2 DEF ReadFits, Times
  <2> QED BY <2>1, <2>3, BeginFits
<1>2. ASSUME NEW e \in Employees, NEW t \in Stamps \cup {now},
             ReadForCheckOut(h, e, t)
      PROVE  RowsMove /\ FitInv'
  <2> DEFINE s == <<e, DateOf(t)>>
             l == [slot |-> s, at |-> t, row |-> rows[s]]
  <2>1. Begin(h, "checkOut", l) /\ Times(l.row)[2] = NULL
    BY <1>2 DEF ReadForCheckOut
  <2> HIDE DEF l
  <2>2. pc'[h] = "checkOut" /\ loc'[h] = l
    BY <1>0, <2>1, Gone DEF Begin
  <2>3. ReadFits(h)'
    BY <2>1, <2>2 DEF ReadFits, Times
  <2> QED BY <2>1, <2>3, BeginFits
<1>3. ASSUME NEW s \in Slots, NEW entry \in ManualEntries,
             ReadForEntry(h, s, entry)
      PROVE  RowsMove /\ FitInv'
  <2>1. "entry" \notin Reading
    BY DEF Reading
  <2> QED BY <1>3, <2>1, BeginFits DEF ReadForEntry
<1>4. ASSUME NEW s \in Slots, NEW entry \in ManualEntries,
             ReadForSave(h, s, entry)
      PROVE  RowsMove /\ FitInv'
  <2> DEFINE l == [slot |-> s, row |-> rows[s], entry |-> entry]
  <2>1. Begin(h, "save", l) /\ l.slot = s /\ l.row = rows[s] /\ rows[s] # NULL
    BY <1>4 DEF ReadForSave
  <2> HIDE DEF l
  <2>2. pc'[h] = "save" /\ loc'[h] = l /\ UNCHANGED <<rows, stale>>
    BY <1>0, <2>1, Gone DEF Begin, history
  <2>3. s \notin stale => WorkFits(l.row)
    BY <2>1 DEF FitInv, Fits
  <2>4. ReadFits(h)'
    BY <2>1, <2>2, <2>3 DEF ReadFits, WorkFits
  <2> QED BY <2>1, <2>4, BeginFits
<1>5. ASSUME NEW s \in Slots, ReadForRemove(h, s)
      PROVE  RowsMove /\ FitInv'
  <2>1. "delete" \notin Reading
    BY DEF Reading
  <2> QED BY <1>5, <2>1, BeginFits DEF ReadForRemove
<1>6. ASSUME TodayStats(h) PROVE RowsMove /\ FitInv'
  <2>1. /\ Goto(h, "marked", [day |-> DateOf(now), active |-> active])
        /\ UNCHANGED <<rows, stale>> /\ "marked" \notin Reading
    BY <1>6 DEF TodayStats, StartMarking, history, Reading
  <2>2. RowsMove
    BY <2>1, NoMove
  <2> QED BY <1>0, <2>1, <2>2, StepKeepsFit
<1>7. CASE \E e \in Employees, t \in Stamps \cup {now} :
              ReadForCheckIn(h, e, t) \/ ReadForCheckOut(h, e, t)
  BY <1>1, <1>2, <1>7
<1>8. CASE \E s \in Slots, entry \in ManualEntries :
              ReadForEntry(h, s, entry) \/ ReadForSave(h, s, entry)
  BY <1>3, <1>4, <1>8
<1>9. CASE (\E s \in Slots : ReadForRemove(h, s)) \/ TodayStats(h)
  BY <1>5, <1>6, <1>9
<1> QED BY <1>7, <1>8, <1>9 DEF Begins

\* A process that marks, or a request that is through, reads nothing more.
LEMMA PassesFit ==
    ASSUME AInv, FitInv, NEW p \in Processes, NEW label, NEW l,
           Goto(p, label, l), label \notin Reading, RowsMove
    PROVE  RowsMove /\ FitInv'
BY StepKeepsFit

LEMMA FinishFits ==
    ASSUME AInv, FitInv, NEW p \in Processes, Finish(p), RowsMove
    PROVE  RowsMove /\ FitInv'
<1>1. "idle" \notin Reading
  BY DEF Reading
<1> QED BY <1>1, PassesFit DEF Finish

LEMMA RefuseFits ==
    ASSUME AInv, FitInv, NEW h \in Handlers, Refuse(h)
    PROVE  RowsMove /\ FitInv'
BY NoMove, FinishFits, HandlersAreNoJobs DEF Refuse

LEMMA UpsertFits ==
    ASSUME AInv, FitInv, NEW h \in Handlers, FindForUpsert(h) \/ Upsert(h)
    PROVE  RowsMove /\ FitInv'
<1>0. h \in Processes /\ ReadFits(h)
  BY HandlersAreNoJobs DEF FitInv
<1>1. CASE FindForUpsert(h)
  <2> DEFINE l == [slot |-> loc[h].slot, at |-> loc[h].at,
                   row |-> rows[loc[h].slot], read |-> loc[h].row]
  <2>1. /\ Goto(h, "write", l) /\ UNCHANGED <<rows, stale>>
        /\ Times(l.read)[1] = NULL
    BY <1>0, <1>1 DEF FindForUpsert, At, ReadFits
  <2> HIDE DEF l
  <2>2. pc'[h] = "write" /\ loc'[h] = l
    BY <1>0, <2>1, Gone
  <2>3. ReadFits(h)'
    BY <2>1, <2>2 DEF ReadFits, Times
  <2>4. RowsMove
    BY <2>1, NoMove
  <2> QED BY <1>0, <2>1, <2>3, <2>4, StepKeepsFit
<1>2. CASE Upsert(h)
  <2> DEFINE s == loc[h].slot
             t == loc[h].at
  <2>1. /\ loc[h] \in [slot : Slots, at : Nat, row : OrNull(Row),
                       read : OrNull(Row)]
        /\ Times(loc[h].read)[1] = NULL
    BY <1>0, <1>2, Held DEF Upsert, At, HoldsRequest, ReadFits
  <2>2. s \in Slots /\ t \in Nat
    BY <2>1
  <2>3. CASE /\ rows[s] = NULL
             /\ Insert(s, CheckedIn(Unmarked(NewId(s), "present"), s[1], t))
             /\ Finish(h) /\ UNCHANGED stale
    <3> DEFINE row == CheckedIn(Unmarked(NewId(s), "present"), s[1], t)
    <3>1. NewId(s) \in RowIds
      BY NewIdType
    <3>2. /\ row \in Row /\ row.id = NewId(s) /\ Fits(s, row)
          /\ TimesStand(NULL, row)
      BY <2>2, <3>1, FirstCheckInFits
    <3>3. RowsMove
      <4> HIDE DEF row, s
      <4> QED BY <2>2, <2>3, <3>2, WriteMoves DEF row
    <3> QED BY <1>0, <2>3, <3>3, FinishFits
  <2>4. CASE /\ rows[s] # NULL /\ Insert(s, CheckedIn(rows[s], s[1], t))
             /\ stale' = IF Times(rows[s]) = Times(loc[h].read) THEN stale
                         ELSE stale \cup {s}
             /\ Finish(h)
    <3> DEFINE row == CheckedIn(rows[s], s[1], t)
    <3>1. rows[s] \in Row /\ s[1] \in Employees
      BY <2>2, <2>4, RowAt, SlotType
    <3>2. row \in Row /\ row.id = rows[s].id
      BY <2>2, <3>1, CheckedInType DEF CheckedIn, Row
    <3>3. ASSUME s \notin stale'
          PROVE  Fits(s, row) /\ TimesStand(rows[s], row)
      <4>1. /\ s \notin stale
            /\ Times(rows[s]) = Times(loc[h].read)
        BY <2>4, <3>3
      <4>2. rows[s].checkIn = NULL
        BY <2>1, <2>4, <4>1 DEF Times
      <4>3. WorkFits(rows[s]) /\ StatusFits(s[1], rows[s])
        BY <2>2, <2>4, <4>1 DEF FitInv, Fits
      <4> QED BY <2>2, <3>1, <4>2, <4>3, CheckedInFits
    <3>4. RowsMove
      <4>1. stale \subseteq stale'
        BY <2>4
      <4> HIDE DEF row, s
      <4> QED BY <2>2, <2>4, <3>2, <3>3, <4>1, WriteMoves DEF row
    <3> QED BY <1>0, <2>4, <3>4, FinishFits
  <2>5. CASE Refuse(h)
    BY <2>5, RefuseFits
  <2> QED BY <1>2, <2>3, <2>4, <2>5 DEF Upsert
<1> QED BY <1>1, <1>2

LEMMA CheckOutFits ==
    ASSUME AInv, FitInv, NEW h \in Handlers, CheckOut(h)
    PROVE  RowsMove /\ FitInv'
<1> DEFINE s == loc[h].slot
           t == loc[h].at
           in == loc[h].row.checkIn
           row == CheckedOut(rows[s], s[1], in, t)
<1>0. h \in Processes /\ ReadFits(h)
  BY HandlersAreNoJobs DEF FitInv
<1>1. /\ loc[h] \in [slot : Slots, at : Nat, row : Row] /\ in # NULL
      /\ Times(loc[h].row)[2] = NULL
  BY <1>0, Held DEF CheckOut, At, HoldsRequest, ReadFits
<1>2. s \in Slots /\ t \in Nat /\ in \in Nat
  BY <1>1 DEF Row, OrNull
<1>3. CASE rows[s] = NULL
  BY <1>3, RefuseFits DEF CheckOut
<1>4. CASE rows[s] # NULL
  <2>1. /\ Insert(s, row) /\ Finish(h)
        /\ stale' = IF Times(rows[s]) = Times(loc[h].row) THEN stale
                    ELSE stale \cup {s}
    BY <1>4 DEF CheckOut, Overwrite, Insert
  <2>2. rows[s] \in Row /\ LateOK(s[1], rows[s])
    BY <1>2, <1>4, RowAt
  <2>3. row \in Row /\ row.id = rows[s].id
    BY <1>2, <2>2, CheckedOutType DEF CheckedOut, Row
  <2>4. ASSUME s \notin stale'
        PROVE  Fits(s, row) /\ TimesStand(rows[s], row)
    <3>1. Times(rows[s]) = Times(loc[h].row) /\ loc[h].row # NULL
      BY <1>1, <2>1, <2>4, NullAssumption
    <3>2. rows[s].checkIn = in /\ rows[s].checkOut = NULL
      BY <1>1, <1>4, <3>1 DEF Times
    <3> QED BY <1>1, <1>2, <2>2, <3>2, CheckedOutFits
  <2>5. RowsMove
    <3>1. stale \subseteq stale'
      BY <2>1
    <3> HIDE DEF row, s
    <3> QED BY <1>2, <1>4, <2>1, <2>3, <2>4, <3>1, WriteMoves
  <2> QED BY <1>0, <2>1, <2>5, FinishFits
<1> QED BY <1>3, <1>4

LEMMA EntriesFit ==
    ASSUME AInv, FitInv, NEW h \in Handlers,
           CreateEntry(h) \/ SaveEntry(h) \/ Remove(h)
    PROVE  RowsMove /\ FitInv'
<1> DEFINE s == loc[h].slot
           entry == loc[h].entry
<1>0. h \in Processes /\ ReadFits(h)
  BY HandlersAreNoJobs DEF FitInv
<1>1. CASE CreateEntry(h)
  <2> DEFINE fresh == Unmarked(NewId(s), "absent")
             in == Given(entry.checkIn, s[2], NULL)
             out == Given(entry.checkOut, s[2], NULL)
             row == Entered(fresh, s[1], in, out, entry.status)
  <2>1. loc[h] \in [slot : Slots, entry : ManualEntries]
    BY <1>1, Held DEF CreateEntry, At, HoldsRequest
  <2>2. s \in Slots /\ s[1] \in Employees /\ s[2] \in Nat
    BY <2>1, SlotType
  <2>3. CASE rows[s] # NULL
    BY <1>1, <2>3, RefuseFits DEF CreateEntry
  <2>4. CASE rows[s] = NULL
    <3>1. /\ in \in OrNull(Nat) /\ out \in OrNull(Nat)
          /\ entry.status \in OrNull(Statuses)
      <4>1. entry \in ManualEntries /\ NULL \in OrNull(Nat)
        BY <2>1 DEF OrNull
      <4> HIDE DEF entry, s
      <4> QED BY <2>2, <4>1, EntryType, GivenType
    <3>2. /\ fresh \in Row /\ LateOK(s[1], fresh) /\ WorkFits(fresh)
          /\ fresh.checkIn = NULL /\ fresh.checkOut = NULL
          /\ fresh.id = NewId(s)
      <4>1. NewId(s) \in RowIds /\ "absent" \in Statuses
        BY NewIdType DEF Statuses
      <4>2. fresh \in Row /\ LateOK(s[1], fresh) /\ fresh.checkIn = NULL
        BY <4>1, UnmarkedType
      <4>3. WorkFits(fresh)
        BY UnmarkedFits
      <4>4. fresh.checkOut = NULL /\ fresh.id = NewId(s)
        BY DEF Unmarked
      <4> QED BY <4>2, <4>3, <4>4
    <3>3. row \in Row
      <4> HIDE DEF fresh, in, out, entry, s
      <4> QED BY <2>2, <3>1, <3>2, EnteredType DEF row
    <3>4. Fits(s, row) /\ TimesStand(rows[s], row)
      <4> HIDE DEF fresh, in, out, entry, s
      <4> QED BY <2>2, <3>1, <3>2, EnteredFits DEF row
    <3>5. row.id = NewId(s)
      <4> HIDE DEF fresh, in, out, entry, s
      <4> QED BY <3>2 DEF row, Entered
    <3>6. Insert(s, row) /\ Finish(h) /\ UNCHANGED stale
      BY <1>1, <2>4 DEF CreateEntry
    <3>7. RowsMove
      <4> HIDE DEF row, s
      <4> QED BY <2>2, <2>4, <3>3, <3>4, <3>5, <3>6, WriteMoves
    <3> QED BY <1>0, <3>6, <3>7, FinishFits
  <2> QED BY <2>3, <2>4
<1>2. CASE SaveEntry(h)
  <2> DEFINE old == loc[h].row
             in == Given(entry.checkIn, s[2], old.checkIn)
             out == Given(entry.checkOut, s[2], old.checkOut)
             row == Entered(old, s[1], in, out, entry.status)
  <2>1. /\ loc[h] \in [slot : Slots, row : Row, entry : ManualEntries]
        /\ LateOK(s[1], old) /\ pc[h] = "save"
    BY <1>2, Held DEF SaveEntry, At, HoldsRequest
  <2>2. s \in Slots /\ s[1] \in Employees /\ s[2] \in Nat
    BY <2>1, SlotType
  <2>3. CASE ~IsStill(h)
    BY <1>2, <2>3, RefuseFits DEF SaveEntry
  <2>4. CASE IsStill(h)
    <3>1. /\ in \in OrNull(Nat) /\ out \in OrNull(Nat)
          /\ entry.status \in OrNull(Statuses)
          /\ in = NULL => old.checkIn = NULL
          /\ out = NULL => old.checkOut = NULL
      <4>1. /\ entry \in ManualEntries
            /\ old.checkIn \in OrNull(Nat) /\ old.checkOut \in OrNull(Nat)
        BY <2>1 DEF Row
      <4> HIDE DEF entry, s, old
      <4> QED BY <2>2, <4>1, EntryType, GivenType
    <3>2. old \in Row /\ rows[s] # NULL /\ rows[s].id = old.id
      BY <2>1, <2>4 DEF IsStill
    <3>3. row \in Row
      <4> HIDE DEF old, in, out, entry, s
      <4> QED BY <2>1, <2>2, <3>1, <3>2, EnteredType DEF row
    <3>4. /\ Insert(s, row) /\ Finish(h) /\ stale \subseteq stale'
      BY <1>2, <2>4 DEF SaveEntry, Overwrite, Insert
    <3>5. ASSUME s \notin stale'
          PROVE  Fits(s, row) /\ TimesStand(rows[s], row)
      <4>1. WorkFits(old)
        BY <1>0, <2>1, <3>2, <3>4, <3>5 DEF ReadFits
      <4> HIDE DEF old, in, out, entry, s
      <4> QED BY <2>2, <3>1, <3>2, <4>1, EnteredFits DEF row
    <3>6. row.id = rows[s].id
      <4> HIDE DEF old, in, out, entry, s
      <4> QED BY <3>2 DEF row, Entered
    <3>7. RowsMove
      <4> HIDE DEF row, s
      <4> QED BY <2>2, <3>2, <3>3, <3>4, <3>5, <3>6, WriteMoves
    <3> QED BY <1>0, <3>4, <3>7, FinishFits
  <2> QED BY <2>3, <2>4
<1>3. CASE Remove(h)
  <2>1. s \in Slots
    BY <1>3, Held DEF Remove, At, HoldsRequest
  <2>2. CASE Refuse(h)
    BY <2>2, RefuseFits
  <2>3. CASE /\ Insert(s, NULL) /\ Finish(h) /\ stale' = stale \ {s}
             /\ removed' = removed \cup {s}
    <3>1. rows'[s] = NULL /\ \A r \in Slots : r # s => rows'[r] = rows[r]
      BY <2>1, <2>3 DEF Insert, AInv, TypeOK
    <3>2. RowsMove
      BY <2>3, <3>1 DEF RowsMove
    <3> QED BY <1>0, <2>3, <3>2, FinishFits
  <2> QED BY <1>3, <2>2, <2>3 DEF Remove
<1> QED BY <1>1, <1>2, <1>3

LEMMA MarkingFits ==
    ASSUME AInv, FitInv, NEW p \in Processes,
           ReadMarked(p) \/ MarkAbsentees(p)
    PROVE  RowsMove /\ FitInv'
<1>1. CASE ReadMarked(p)
  <2> DEFINE l == [day |-> loc[p].day,
                   absent |-> loc[p].active \ Marked(loc[p].day)]
  <2>1. Goto(p, "absentees", l) /\ UNCHANGED <<rows, stale>>
    BY <1>1 DEF ReadMarked
  <2>2. "absentees" \notin Reading
    BY DEF Reading
  <2> QED BY <2>1, <2>2, NoMove, PassesFit
<1>2. CASE MarkAbsentees(p)
  <2>1. /\ CreateMany(loc[p].absent, loc[p].day, "absent")
        /\ Finish(p) /\ UNCHANGED stale
    BY <1>2 DEF MarkAbsentees
  <2> QED BY <2>1, CreateManyMoves, FinishFits
<1> QED BY <1>1, <1>2

LEMMA JobsFit ==
    ASSUME AInv, FitInv, JobStep
    PROVE  RowsMove /\ FitInv'
<1> DEFINE held == loc[Scheduler]
<1>0. Scheduler \in Processes /\ Cron \in Processes
  BY HandlersAreNoJobs
<1>1. "marked" \notin Reading /\ "leaves" \notin Reading
      /\ "absent" \notin Reading /\ "onLeave" \notin Reading
  BY DEF Reading
<1>2. CASE CronFires \/ SchedulerFires
  <2>1. PICK job \in {Cron, Scheduler} : Fire(job)
    BY <1>2 DEF CronFires, SchedulerFires
  <2>2. /\ Goto(job, "marked", [day |-> DateOf(now), active |-> active])
        /\ UNCHANGED <<rows, stale>>
    BY <2>1 DEF Fire, StartMarking, history
  <2> QED BY <1>0, <1>1, <2>2, NoMove, PassesFit
<1>3. CASE ReadMarkedByScheduler
  <2>1. /\ Goto(Scheduler, "leaves",
                [day |-> held.day,
                 unmarked |-> held.active \ Marked(held.day)])
        /\ UNCHANGED <<rows, stale>>
    BY <1>3 DEF ReadMarkedByScheduler
  <2> QED BY <1>0, <1>1, <2>1, NoMove, PassesFit
<1>4. CASE ReadLeaves
  <2> DEFINE away == {e \in held.unmarked : <<e, held.day>> \in onLeave}
             l == [day |-> held.day, away |-> away,
                   absent |-> held.unmarked \ away]
  <2>1. Goto(Scheduler, "absent", l) /\ UNCHANGED <<rows, stale>>
    BY <1>4 DEF ReadLeaves
  <2> QED BY <1>0, <1>1, <2>1, NoMove, PassesFit
<1>5. CASE MarkAbsent
  <2>1. CASE /\ CreateMany(held.absent, held.day, "absent")
             /\ Goto(Scheduler, "onLeave",
                     [day |-> held.day, away |-> held.away])
             /\ UNCHANGED stale
    BY <1>0, <1>1, <2>1, CreateManyMoves, PassesFit
  <2>2. CASE Finish(Scheduler) /\ UNCHANGED <<rows, stale>>
    BY <1>0, <2>2, NoMove, FinishFits
  <2> QED BY <1>5, <2>1, <2>2 DEF MarkAbsent
<1>6. CASE MarkOnLeave
  <2>1. /\ Finish(Scheduler) /\ UNCHANGED stale
        /\ UNCHANGED rows \/ CreateMany(held.away, held.day, "on-leave")
    BY <1>6 DEF MarkOnLeave
  <2> QED BY <1>0, <2>1, NoMove, CreateManyMoves, FinishFits
<1> QED BY <1>2, <1>3, <1>4, <1>5, <1>6 DEF JobStep

LEMMA SurroundingsFit ==
    ASSUME AInv, FitInv,
           \/ \E e \in Changing : Terminate(e) \/ Activate(e)
           \/ \E s \in Slots : DecideLeave(s)
           \/ Crash \/ Tick \/ UNCHANGED vars
    PROVE  RowsMove /\ FitInv'
<1>1. UNCHANGED <<rows, stale>>
  BY DEF Terminate, Activate, DecideLeave, Crash, Tick, vars, history
<1>2. RowsMove
  BY <1>1, NoMove
<1>3. \A g \in Handlers : \/ pc'[g] = pc[g] /\ loc'[g] = loc[g]
                          \/ pc'[g] \notin Reading
  BY HandlersAreNoJobs
     DEF Terminate, Activate, DecideLeave, Crash, Tick, vars, Reading
<1> QED BY <1>2, <1>3, MoveKeepsFit

LEMMA NextFits ==
    ASSUME AInv, FitInv, [Next]_vars
    PROVE  RowsMove /\ FitInv'
<1>1. ASSUME NEW h \in Handlers, Continues(h) PROVE RowsMove /\ FitInv'
  BY <1>1, UpsertFits, CheckOutFits, EntriesFit DEF Continues
<1> QED BY <1>1, BeginsFit, MarkingFits, JobsFit, SurroundingsFit DEF Next

LEMMA InitFits == Init => FitInv
BY HandlersAreNoJobs DEF Init, FitInv, ReadFits

\* The columns of the rows belong together, what every handler has read is
\* what its write relies on, and every step moves the rows as it should.
THEOREM RowsFitTogether == Spec => []FitInv /\ [][RowsMove]_vars
<1>1. AInv /\ FitInv /\ [Next]_vars => FitInv'
  BY NextFits
<1>2. AInv /\ FitInv /\ [Next]_vars => [RowsMove]_vars
  BY NextFits
<1> QED BY <1>1, <1>2, InitFits, AInvHolds, PTL DEF Spec

\* workMinutes and overtime are those of the two times in the row, whichever
\* requests and jobs wrote it, unless two requests wrote from different times.
THEOREM WorkBelongs == Spec => []WorkMatchesTimes
<1>1. FitInv => WorkMatchesTimes
  BY DEF FitInv, Fits, WorkFits, WorkMatchesTimes
<1> QED BY <1>1, RowsFitTogether, PTL

\* The status of a row nobody edited is the one determineStatus gives for its
\* times, or the mark of a job when there is no check-in.
THEOREM StatusBelongs == Spec => []StatusMatchesTimes
<1>1. FitInv => StatusMatchesTimes
  BY DEF FitInv, Fits, StatusFits, StatusMatchesTimes
<1> QED BY <1>1, RowsFitTogether, PTL

\* No job and no later request overwrites a time that was recorded; only a
\* manual entry does.
THEOREM TimesAreKept == Spec => RecordedTimesStand
<1>1. RowsMove => \A s \in Slots \ stale' : \A i \in 1..2 :
                    Times(rows[s])[i] # NULL /\ rows'[s] # NULL =>
                        \/ Times(rows'[s])[i] = Times(rows[s])[i]
                        \/ rows'[s].manual
  BY DEF RowsMove, TimesStand
<1> QED BY <1>1, RowsFitTogether, PTL DEF RecordedTimesStand

-----------------------------------------------------------------------------
(* Everyone who was active all along has a row after the 23:55 job *)

Recorded(s) == rows[s] # NULL \/ s \in removed

\* Who is active, and has been since the 23:55 job of day d began, if it did.
Staying(d) == {e \in active : <<e, d>> \notin joined}

\* Such an employee without a row is one the job is about to mark.
CronCovers ==
    /\ pc[Cron] = "marked" => Staying(loc[Cron].day) \subseteq loc[Cron].active
    /\ pc[Cron] = "absentees" =>
          \A e \in Staying(loc[Cron].day) :
             \/ e \in loc[Cron].absent
             \/ Recorded(<<e, loc[Cron].day>>)

CoverInv == EveryoneRecorded /\ CronCovers

LEMMA RecordedStays ==
    ASSUME AInv, FitInv, [Next]_vars, NEW s \in Slots, Recorded(s)
    PROVE  Recorded(s)'
<1>1. RowsMove
  BY NextFits
<1>2. removed \subseteq removed'
  <2>1. ASSUME NEW h \in Handlers, Begins(h) \/ Continues(h)
        PROVE  removed \subseteq removed'
    BY <2>1 DEF Begins, Continues, ReadForCheckIn, ReadForCheckOut,
       ReadForEntry, ReadForSave, ReadForRemove, TodayStats, FindForUpsert,
       Upsert, CheckOut, CreateEntry, SaveEntry, Remove, Begin, history
  <2>2. ASSUME NEW p \in Processes, ReadMarked(p) \/ MarkAbsentees(p)
        PROVE  removed \subseteq removed'
    BY <2>2 DEF ReadMarked, MarkAbsentees
  <2>3. CASE JobStep
    BY <2>3 DEF JobStep, CronFires, SchedulerFires, Fire, history,
       ReadMarkedByScheduler, ReadLeaves, MarkAbsent, MarkOnLeave
  <2>4. CASE \/ \E e \in Changing : Terminate(e) \/ Activate(e)
             \/ \E r \in Slots : DecideLeave(r)
             \/ Crash \/ Tick \/ UNCHANGED vars
    BY <2>4 DEF Terminate, Activate, DecideLeave, Crash, Tick, vars, history
  <2> QED BY <2>1, <2>2, <2>3, <2>4 DEF Next
<1> QED BY <1>1, <1>2 DEF Recorded, RowsMove

\* The job is where it was, or does not mark, and it did not end.
CronStays ==
    /\ \/ pc'[Cron] = pc[Cron] /\ loc'[Cron] = loc[Cron]
       \/ pc'[Cron] \notin {"marked", "absentees"}
    /\ \A d \in Days : <<Cron, d>> \in ended' => <<Cron, d>> \in ended
    /\ \A d \in Days : <<Cron, d>> \in fired => Staying(d)' \subseteq Staying(d)

\* The day the job works on is one it was started for.
LEMMA CronDay ==
    ASSUME AInv, pc[Cron] \in {"marked", "absentees"}
    PROVE  loc[Cron].day \in Days /\ <<Cron, loc[Cron].day>> \in fired
<1>1. loc[Cron].day \in Days
  BY HeldMarking, HandlersAreNoJobs DEF HoldsMarking
<1>2. <<Cron, loc[Cron].day>> \in fired
  BY HandlersAreNoJobs DEF AInv, LocalsOK, LocalOK
<1> QED BY <1>1, <1>2

LEMMA StaysCovered ==
    ASSUME AInv, AInv', CoverInv, CronStays,
           \A s \in Slots : Recorded(s) => Recorded(s)'
    PROVE  CoverInv'
<1>1. EveryoneRecorded'
  <2>1. ASSUME NEW s \in Slots, s[1] \in active', <<Cron, s[2]>> \in ended', s \notin joined'
        PROVE  Recorded(s)'
    <3>1. s[2] \in Days /\ s = <<s[1], s[2]>>
      BY SlotType DEF Slots
    <3>2. <<Cron, s[2]>> \in ended /\ <<Cron, s[2]>> \in fired
      BY <2>1, <3>1 DEF CronStays, AInv, TypeOK
    <3>3. s[1] \in Staying(s[2])'
      BY <2>1, <3>1 DEF Staying
    <3>4. s[1] \in Staying(s[2])
      BY <3>1, <3>2, <3>3 DEF CronStays
    <3>5. s[1] \in active /\ s \notin joined
      BY <3>1, <3>4 DEF Staying
    <3>6. Recorded(s)
      BY <3>2, <3>5 DEF CoverInv, EveryoneRecorded, Recorded
    <3> QED BY <3>6
  <2> QED BY <2>1 DEF EveryoneRecorded, Recorded
<1>2. CronCovers'
  <2>1. CASE pc'[Cron] \notin {"marked", "absentees"}
    BY <2>1 DEF CronCovers
  <2>2. CASE /\ pc'[Cron] = pc[Cron] /\ loc'[Cron] = loc[Cron]
             /\ pc[Cron] \in {"marked", "absentees"}
    <3>1. PICK d \in Days : d = loc[Cron].day
      BY <2>2, CronDay
    <3>2. Staying(d)' \subseteq Staying(d) /\ loc'[Cron].day = d
      BY <2>2, <3>1, CronDay DEF CronStays
    <3>3. CASE pc[Cron] = "marked"
      <4>1. Staying(d) \subseteq loc[Cron].active
        BY <3>1, <3>3 DEF CronCovers, CoverInv
      <4> QED BY <2>2, <3>2, <3>3, <4>1 DEF CronCovers
    <3>4. CASE pc[Cron] = "absentees"
      <4>1. ASSUME NEW e \in Staying(d)'
            PROVE  e \in loc[Cron].absent \/ Recorded(<<e, d>>)'
        <5>1. e \in Staying(d) /\ <<e, d>> \in Slots
          BY <3>2 DEF AInv, TypeOK, Slots, Staying
        <5>2. e \in loc[Cron].absent \/ Recorded(<<e, d>>)
          BY <3>1, <3>4, <5>1 DEF CronCovers, CoverInv
        <5> QED BY <5>1, <5>2
      <4> QED BY <2>2, <3>2, <3>4, <4>1 DEF CronCovers, Recorded
    <3> QED BY <2>2, <3>3, <3>4
  <2> QED BY <2>1, <2>2 DEF CronStays
<1> QED BY <1>1, <1>2 DEF CoverInv

\* A step of another process.
LEMMA OthersStay ==
    ASSUME AInv, NEW p \in Processes \ {Cron}, NEW label, NEW l,
           Goto(p, label, l), UNCHANGED <<active, joined>>,
           \/ ended' = ended
           \/ \E d : End(p, d)
    PROVE  CronStays
<1>1. pc'[Cron] = pc[Cron] /\ loc'[Cron] = loc[Cron]
  BY HandlersAreNoJobs DEF AInv, LocalsOK, Goto
<1>2. \A d \in Days : <<Cron, d>> \in ended' => <<Cron, d>> \in ended
  BY DEF End
<1>3. \A d \in Days : Staying(d)' = Staying(d)
  BY DEF Staying
<1> QED BY <1>1, <1>2, <1>3 DEF CronStays

LEMMA RequestsLeaveCron ==
    ASSUME AInv, NEW h \in Handlers, Begins(h) \/ Continues(h)
    PROVE  CronStays
<1>0. h \in Processes \ {Cron}
  BY HandlersAreNoJobs
<1>1. ASSUME NEW label, NEW l, Begin(h, label, l) PROVE CronStays
  BY <1>0, <1>1, OthersStay DEF Begin, people, history
<1>2. CASE Begins(h)
  <2>1. CASE TodayStats(h)
    BY <1>0, <2>1, OthersStay DEF TodayStats, StartMarking, people, history
  <2>2. CASE \E e \in Employees, t \in Stamps \cup {now} :
                ReadForCheckIn(h, e, t) \/ ReadForCheckOut(h, e, t)
    BY <1>1, <2>2 DEF ReadForCheckIn, ReadForCheckOut
  <2>3. CASE \E s \in Slots, entry \in ManualEntries :
                ReadForEntry(h, s, entry) \/ ReadForSave(h, s, entry)
    BY <1>1, <2>3 DEF ReadForEntry, ReadForSave
  <2>4. CASE \E s \in Slots : ReadForRemove(h, s)
    BY <1>1, <2>4 DEF ReadForRemove
  <2> QED BY <1>2, <2>1, <2>2, <2>3, <2>4 DEF Begins
<1>3. CASE Continues(h)
  <2>1. UNCHANGED <<active, joined, ended>>
    BY <1>3 DEF Continues, FindForUpsert, Upsert, CheckOut, CreateEntry,
       SaveEntry, Remove, At, people
  <2>2. CASE Finish(h)
    BY <1>0, <2>1, <2>2, OthersStay DEF Finish
  <2>3. CASE FindForUpsert(h)
    BY <1>0, <2>1, <2>3, OthersStay DEF FindForUpsert
  <2> QED BY <1>3, <2>2, <2>3 DEF Continues, Upsert, CheckOut, CreateEntry,
     SaveEntry, Remove, Refuse
<1> QED BY <1>2, <1>3

LEMMA SchedulerLeavesCron ==
    ASSUME AInv,
           \/ SchedulerFires \/ ReadMarkedByScheduler \/ ReadLeaves
           \/ MarkAbsent \/ MarkOnLeave
    PROVE  CronStays
<1>0. Scheduler \in Processes \ {Cron}
  BY HandlersAreNoJobs
<1>1. CASE SchedulerFires
  BY <1>0, <1>1, OthersStay
     DEF SchedulerFires, Fire, StartMarking, people, history
<1>2. CASE ReadMarkedByScheduler
  BY <1>0, <1>2, OthersStay DEF ReadMarkedByScheduler, At, people
<1>3. CASE ReadLeaves
  BY <1>0, <1>3, OthersStay DEF ReadLeaves, At, people
<1>4. CASE MarkAbsent
  <2>1. UNCHANGED <<active, joined>>
    BY <1>4 DEF MarkAbsent, people
  <2>2. CASE /\ Goto(Scheduler, "onLeave", [day |-> loc[Scheduler].day,
                                            away |-> loc[Scheduler].away])
             /\ UNCHANGED ended
    BY <1>0, <2>1, <2>2, OthersStay
  <2>3. CASE Finish(Scheduler) /\ End(Scheduler, loc[Scheduler].day)
    BY <1>0, <2>1, <2>3, OthersStay DEF Finish
  <2> QED BY <1>4, <2>2, <2>3 DEF MarkAbsent
<1>5. CASE MarkOnLeave
  BY <1>0, <1>5, OthersStay DEF MarkOnLeave, Finish, people
<1> QED BY <1>1, <1>2, <1>3, <1>4, <1>5

\* The job starts with everyone who is active.
LEMMA CronFiresCovers ==
    ASSUME AInv, AInv', CoverInv, CronFires,
           \A s \in Slots : Recorded(s) => Recorded(s)'
    PROVE  CoverInv'
<1> DEFINE l == [day |-> DateOf(now), active |-> active]
<1>1. /\ Goto(Cron, "marked", l) /\ UNCHANGED <<active, joined, ended, rows, removed>>
  BY DEF CronFires, Fire, StartMarking, people, history
<1>2. pc'[Cron] = "marked" /\ loc'[Cron] = l
  BY <1>1, Gone, HandlersAreNoJobs
<1>3. CronCovers'
  BY <1>1, <1>2 DEF CronCovers, Staying
<1>4. EveryoneRecorded'
  BY <1>1 DEF CoverInv, EveryoneRecorded
<1> QED BY <1>3, <1>4 DEF CoverInv

\* Whoever is active then has a row, or is among those it will mark.
LEMMA CronReadCovers ==
    ASSUME AInv, AInv', CoverInv, ReadMarked(Cron),
           \A s \in Slots : Recorded(s) => Recorded(s)'
    PROVE  CoverInv'
<1>0. PICK d \in Days : d = loc[Cron].day
  BY CronDay DEF ReadMarked, At
<1> DEFINE l == [day |-> d, absent |-> loc[Cron].active \ Marked(d)]
<1>1. /\ Goto(Cron, "absentees", l) /\ pc[Cron] = "marked"
      /\ UNCHANGED <<active, joined, ended, rows, removed>>
  BY <1>0 DEF ReadMarked, At, people
<1>2. pc'[Cron] = "absentees" /\ loc'[Cron] = l
  BY <1>1, Gone, HandlersAreNoJobs
<1>3. \A e \in Staying(d) : e \in Employees /\ e \in loc[Cron].active
  BY <1>0, <1>1 DEF AInv, TypeOK, CoverInv, CronCovers, Staying
<1>4. \A e \in Staying(d) : e \in l.absent \/ Recorded(<<e, d>>)
  BY <1>3 DEF Marked, Recorded
<1>5. l.day = d /\ Staying(d)' = Staying(d)
  BY <1>1 DEF Staying
<1>6. \A e : Recorded(<<e, d>>)' <=> Recorded(<<e, d>>)
  BY <1>1 DEF Recorded
<1> HIDE DEF l
<1>7. CronCovers'
  BY <1>2, <1>4, <1>5, <1>6 DEF CronCovers
<1>8. EveryoneRecorded'
  BY <1>1 DEF CoverInv, EveryoneRecorded
<1> QED BY <1>7, <1>8 DEF CoverInv

\* It marks those, and skips whoever got a row meanwhile.
LEMMA CronMarksCovers ==
    ASSUME AInv, AInv', CoverInv, MarkAbsentees(Cron),
           \A s \in Slots : Recorded(s) => Recorded(s)'
    PROVE  CoverInv'
<1> DEFINE d == loc[Cron].day
           E == loc[Cron].absent
<1>1. /\ CreateMany(E, d, "absent") /\ Finish(Cron) /\ UNCHANGED <<active, joined>>
      /\ ended' = ended \cup {<<Cron, d>>} /\ pc[Cron] = "absentees"
  BY HandlersAreNoJobs DEF MarkAbsentees, End, people
<1>2. pc'[Cron] = "idle"
  BY <1>1, Gone, HandlersAreNoJobs DEF Finish
<1>3. CronCovers'
  BY <1>2 DEF CronCovers
<1>4. ASSUME NEW s \in Slots, s[1] \in E, s[2] = d
      PROVE  rows'[s] # NULL
  <2>1. Unmarked(NewId(s), "absent") \in Row
    BY NewIdType, UnmarkedType DEF Statuses
  <2>2. rows'[s] = IF s[1] \in E /\ s[2] = d /\ rows[s] = NULL
                   THEN Unmarked(NewId(s), "absent") ELSE rows[s]
    BY <1>1 DEF CreateMany
  <2> QED BY <1>4, <2>1, <2>2, NullAssumption
<1>5. EveryoneRecorded'
  <2>1. ASSUME NEW s \in Slots, s[1] \in active, <<Cron, s[2]>> \in ended', s \notin joined
        PROVE  Recorded(s)'
    <3>1. CASE <<Cron, s[2]>> \in ended
      <4>1. Recorded(s)
        BY <2>1, <3>1 DEF CoverInv, EveryoneRecorded, Recorded
      <4> QED BY <4>1
    <3>2. CASE s[2] = d
      <4>1. s = <<s[1], s[2]>>
        BY DEF Slots
      <4>2. s[1] \in E \/ Recorded(s)
        BY <1>1, <2>1, <3>2, <4>1 DEF CoverInv, CronCovers, Staying
      <4> QED BY <1>4, <3>2, <4>2 DEF Recorded
    <3> QED BY <1>1, <2>1, <3>1, <3>2
  <2> QED BY <1>1, <2>1 DEF EveryoneRecorded, Recorded
<1> QED BY <1>3, <1>5 DEF CoverInv

LEMMA NextCovers ==
    ASSUME AInv, AInv', FitInv, CoverInv, [Next]_vars
    PROVE  CoverInv'
<1>0. \A s \in Slots : Recorded(s) => Recorded(s)'
  BY RecordedStays
<1>1. ASSUME NEW h \in Handlers, Begins(h) \/ Continues(h) PROVE CoverInv'
  BY <1>0, <1>1, RequestsLeaveCron, StaysCovered
<1>2. ASSUME NEW p \in Processes, ReadMarked(p) \/ MarkAbsentees(p)
      PROVE  CoverInv'
  <2>1. CASE p = Cron
    BY <1>0, <1>2, <2>1, CronReadCovers, CronMarksCovers
  <2>2. CASE p # Cron
    <3>1. UNCHANGED <<active, joined>>
      BY <1>2 DEF ReadMarked, MarkAbsentees, At, people
    <3>2. CronStays
      <4>1. CASE ReadMarked(p)
        BY <2>2, <3>1, <4>1, OthersStay DEF ReadMarked, At
      <4>2. CASE MarkAbsentees(p)
        BY <2>2, <3>1, <4>2, OthersStay DEF MarkAbsentees, Finish
      <4> QED BY <1>2, <4>1, <4>2
    <3> QED BY <1>0, <3>2, StaysCovered
  <2> QED BY <2>1, <2>2
<1>3. CASE JobStep
  BY <1>0, <1>3, CronFiresCovers, SchedulerLeavesCron, StaysCovered DEF JobStep
<1>4. CASE \/ \E e \in Changing : Terminate(e) \/ Activate(e)
           \/ \E s \in Slots : DecideLeave(s)
           \/ Crash \/ Tick \/ UNCHANGED vars
  <2>1. ended' = ended
    BY <1>4 DEF Terminate, Activate, DecideLeave, Crash, Tick, vars, history
  <2>2. \/ pc'[Cron] = pc[Cron] /\ loc'[Cron] = loc[Cron]
        \/ pc'[Cron] = "idle"
    BY <1>4, HandlersAreNoJobs
       DEF Terminate, Activate, DecideLeave, Crash, Tick, vars
  <2>3. ASSUME NEW d \in Days, <<Cron, d>> \in fired, NEW e \in Staying(d)'
        PROVE  e \in Staying(d)
    <3>1. CASE Terminate(e) \/ Activate(e)
      <4>1. e \in active' /\ <<e, d>> \notin joined' /\ <<e, d>> \in Slots
        BY <2>3 DEF Staying, AInv, TypeOK, Slots
      <4> QED BY <2>3, <3>1, <4>1 DEF Terminate, Activate
    <3>2. CASE ~Terminate(e) /\ ~Activate(e)
      BY <1>4, <2>3, <3>2
      DEF Staying, Terminate, Activate, DecideLeave, Crash, Tick, vars, people
    <3> QED BY <3>1, <3>2
  <2>4. CronStays
    BY <2>1, <2>2, <2>3 DEF CronStays
  <2> QED BY <1>0, <2>4, StaysCovered
<1> QED BY <1>1, <1>2, <1>3, <1>4 DEF Next

LEMMA InitCovers == Init => CoverInv
BY HandlersAreNoJobs DEF Init, CoverInv, EveryoneRecorded, CronCovers

\* What holds between the runs of the 23:55 job and while it is under way.
THEOREM CronCoversAll == Spec => []CoverInv
<1>1. AInv /\ AInv' /\ FitInv /\ CoverInv /\ [Next]_vars => CoverInv'
  BY NextCovers
<1> QED BY <1>1, InitCovers, AInvHolds, RowsFitTogether, PTL DEF Spec

\* Once markAbsentees of 23:55 ended, with whatever check-ins and jobs beside
\* it, nobody who has been active since it began is without a row, unless
\* somebody deleted it.
THEOREM NobodyMissed == Spec => []EveryoneRecorded
<1>1. CoverInv => EveryoneRecorded
  BY DEF CoverInv
<1> QED BY <1>1, CronCoversAll, PTL
=============================================================================
