---------------------------- MODULE MCAttendance ----------------------------
(* Small instances of Attendance for TLC. *)
EXTENDS Attendance, TLC

CONSTANTS ann, bob

\* bob's shift starts at ten; ann has none.
MCShiftStart == [e \in Employees |-> IF e = bob THEN 600 ELSE NULL]

\* The requests come while the 23:55 job runs; some carry a time of their own.
MCRequestInstants == {1435}
MCStamps == {545}

\* A late check-in, its status left to the service.
MCEntries == {[checkIn |-> 600, checkOut |-> NULL, status |-> NULL]}

\* The two jobs.
MCJobInstants == {1435, 1439}

MCRequested == {<<ann, 0>>}

MCSymmetry == Permutations(Handlers)
=============================================================================
