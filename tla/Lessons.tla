------------------------------ MODULE Lessons ------------------------------
(***************************************************************************)
(* The occurrences of a recurring barn lesson: generated slot by slot,     *)
(* prepared with a roster, run, completed or cancelled, rescheduled, moved *)
(* between by riders, given a room, and billed.                            *)
(*                                                                         *)
(* An operation that acts on an occurrence it loaded earlier takes what it *)
(* loaded as the argument `seen'; here that is always the present state,   *)
(* one request after the other.  LessonsRace lets other requests come in   *)
(* between.                                                                *)
(***************************************************************************)
EXTENDS Naturals, Sequences, FiniteSets

CONSTANTS
    Lessons,          \* the slots of the series; scheduled_for is unique
    Times,            \* intervals <<starts_at, ends_at>>
    Regular,          \* slot -> its regular time
    Riders,
    Capacity,         \* places in a lesson
    Marks,            \* the attendance statuses that staff enter
    Accounts,         \* receivable accounts, each with one SERVICE rule
    NoAccount,
    AccountOf,        \* rider -> the one active account resolved for him
    Spaces,           \* reservable facility spaces
    NoLesson,         \* the source of a reservation made by hand
    MaxReservations   \* bound: rows in the reservation table

\* "present" stands for PRESENT, NO_SHOW and MAKEUP, which count alike for
\* capacity, moves and billing.
Statuses == {"expected", "present", "absent", "excused"}

ASSUME LessonsAssumption ==
    /\ \A t \in Times : t \in Nat \X Nat /\ t[1] < t[2]
    /\ Regular \in [Lessons -> Times]
    /\ IsFiniteSet(Riders)
    /\ Capacity \in Nat
    /\ Marks \subseteq Statuses
    /\ AccountOf \in [Riders -> Accounts \union {NoAccount}]
    /\ NoLesson \notin Lessons
    /\ MaxReservations \in Nat

VARIABLES
    occurrence,     \* slot -> [status, time]; "none" until it is generated
    attendance,     \* slot -> rider -> status of the attendance record, or "none"
    assigned,       \* pairs <<slot, rider>> with a PARTICIPANT assignment
    moves,          \* participant moves [from, to, rider]
    charges,        \* slot -> rider -> number of charges billed for them
    reservations    \* sequence of [space, lesson, time, status]

vars == <<occurrence, attendance, assigned, moves, charges, reservations>>

Occurrence  == [status : {"none", "scheduled", "rescheduled", "completed", "cancelled"},
                time : Times]
Move        == [from : Lessons, to : Lessons, rider : Riders]
Reservation == [space : Spaces, lesson : Lessons \union {NoLesson}, time : Times,
                status : {"live", "cancelled"}]

Closed(seen) == seen.status \in {"completed", "cancelled"}
Live(r)      == r.status = "live"
Open(seen)   == seen.status \in {"scheduled", "rescheduled"}
Roster(l)    == {p \in Riders : attendance[l][p] # "none"}
Assigned(l)  == {p \in Riders : <<l, p>> \in assigned}

Init ==
    /\ occurrence = [l \in Lessons |-> [status |-> "none", time |-> Regular[l]]]
    /\ attendance = [l \in Lessons |-> [p \in Riders |-> "none"]]
    /\ assigned = {}
    /\ moves = {}
    /\ charges = [l \in Lessons |-> [p \in Riders |-> 0]]
    /\ reservations = <<>>

-----------------------------------------------------------------------------
(* Rosters                                                                 *)

\* prepare_lesson_occurrence on each of some lessons: get_or_create an EXPECTED
\* attendance record and a participant assignment for who is enrolled.
AddToRosters(enrolled) ==
    /\ attendance' = [l \in Lessons |-> [p \in Riders |->
          IF l \in DOMAIN enrolled /\ p \in enrolled[l] /\ attendance[l][p] = "none"
          THEN "expected" ELSE attendance[l][p]]]
    /\ assigned' = assigned \union
          {lp \in Lessons \X Riders : lp[1] \in DOMAIN enrolled /\ lp[2] \in enrolled[lp[1]]}

\* materialize_lesson_series: the missing slots of the window are generated, and
\* those of its occurrences that are SCHEDULED are prepared.  Enrollments come,
\* go and have dates, so any riders may be found enrolled for a lesson.
Materialize(window) ==
    /\ occurrence' = [l \in Lessons |->
          IF l \in window /\ occurrence[l].status = "none"
          THEN [status |-> "scheduled", time |-> Regular[l]] ELSE occurrence[l]]
    /\ \E enrolled \in [{l \in window : occurrence'[l].status = "scheduled"} -> SUBSET Riders] :
          AddToRosters(enrolled)
    /\ UNCHANGED <<moves, charges, reservations>>

\* Mutation: only cancelled lessons are refused.
Prepare_Completed(l, enrolled, seen) ==
    /\ seen.status \notin {"none", "cancelled"}
    /\ AddToRosters([x \in {l} |-> enrolled])
    /\ UNCHANGED <<occurrence, moves, charges, reservations>>

Prepare(l, enrolled, seen) ==
    /\ Open(seen)
    /\ AddToRosters([x \in {l} |-> enrolled])
    /\ UNCHANGED <<occurrence, moves, charges, reservations>>

\* update_lesson_day: one row per rider, under a lock on the occurrence.
UpdateLessonDay(l, rows) ==
    /\ Open(occurrence[l])
    /\ DOMAIN rows = Roster(l)
    /\ DOMAIN rows = Assigned(l)
    /\ attendance' = [attendance EXCEPT ![l] =
          [p \in Riders |-> IF p \in DOMAIN rows THEN rows[p] ELSE @[p]]]
    /\ UNCHANGED <<occurrence, assigned, moves, charges, reservations>>

\* lesson_attendance_edit: one record, whatever the status of the lesson.
EditAttendance(l, p, mark) ==
    /\ attendance[l][p] # "none"
    /\ attendance' = [attendance EXCEPT ![l][p] = mark]
    /\ UNCHANGED <<occurrence, assigned, moves, charges, reservations>>

-----------------------------------------------------------------------------
(* move_lesson_participant                                                 *)

\* Mutation: a place counts only once attendance is recorded.
Others_Recorded(l, p) == {q \in Riders \ {p} : attendance[l][q] \in {"present", "absent"}}

\* The riders who take a place of a lesson, without p.
Others(l, p) == {q \in Riders \ {p} : attendance[l][q] \notin {"none", "excused"}}

Accepts(l, p) == attendance[l][p] \in {"none", "expected", "excused"}

MovedFrom(l, p) == \E m \in moves : m.from = l /\ m.rider = p

\* What is checked before the transaction.
MayMove(from, to, p, seenFrom, seenTo) ==
    /\ Open(seenFrom)
    /\ Open(seenTo)
    /\ seenFrom.time[1] < seenTo.time[1]
    /\ ~ MovedFrom(from, p)
    /\ Accepts(to, p)
    /\ Cardinality(Others(to, p)) < Capacity

\* Mutation: no assignment for the destination.
MoveRider_Unassigned(from, to, p, mark, kind) ==
    /\ attendance[from][p] # "none"
    /\ <<from, p>> \in assigned
    /\ ~ MovedFrom(from, p)
    /\ Accepts(to, p)
    /\ from # to
    /\ attendance' = [attendance EXCEPT
          ![from][p] = mark,
          ![to][p] = IF kind = "makeup" THEN "present" ELSE "expected"]
    /\ moves' = moves \union {[from |-> from, to |-> to, rider |-> p]}
    /\ UNCHANGED <<occurrence, assigned, charges, reservations>>

\* The transaction: the source record is marked, the rider gets an attendance
\* record (MAKEUP, or EXPECTED for a plain move) and an assignment.
MoveRider(from, to, p, mark, kind) ==
    /\ attendance[from][p] # "none"
    /\ <<from, p>> \in assigned
    /\ ~ MovedFrom(from, p)
    /\ Accepts(to, p)
    /\ from # to
    /\ attendance' = [attendance EXCEPT
          ![from][p] = mark,
          ![to][p] = IF kind = "makeup" THEN "present" ELSE "expected"]
    /\ assigned' = assigned \union {<<to, p>>}
    /\ moves' = moves \union {[from |-> from, to |-> to, rider |-> p]}
    /\ UNCHANGED <<occurrence, charges, reservations>>

-----------------------------------------------------------------------------
(* Rooms                                                                   *)

Overlap(t, u) == t[1] < u[2] /\ u[1] < t[2]

\* ResourceReservation.clean: no other live reservation of the space overlaps.
Free(space, time, except) ==
    \A i \in DOMAIN reservations \ except :
        Live(reservations[i]) /\ reservations[i].space = space
            => ~ Overlap(reservations[i].time, time)

\* The live reservations of a lesson.
Held(l) == {i \in DOMAIN reservations : reservations[i].lesson = l /\ Live(reservations[i])}

\* current_lesson_resource_reservation: the latest of them
Current(l) == {i \in Held(l) : \A j \in Held(l) : j <= i}

EndReservations(ended) ==
    [i \in DOMAIN reservations |->
        IF i \in ended THEN [reservations[i] EXCEPT !.status = "cancelled"] ELSE reservations[i]]

\* Mutation: the reservation that is replaced stays live.
AssignRoom_Kept(l, space, seen) ==
    /\ Open(seen)
    /\ \A i \in Current(l) : reservations[i].space # space
    /\ Free(space, seen.time, {})
    /\ Len(reservations) < MaxReservations
    /\ reservations' = Append(reservations,
          [space |-> space, lesson |-> l, time |-> seen.time, status |-> "live"])
    /\ UNCHANGED <<occurrence, attendance, assigned, moves, charges>>

\* assign_lesson_resource
AssignRoom(l, space, seen) ==
    /\ Open(seen)
    /\ \A i \in Current(l) : reservations[i].space # space
    /\ Free(space, seen.time, {})
    /\ Len(reservations) < MaxReservations
    /\ reservations' = Append(EndReservations(Current(l)),
          [space |-> space, lesson |-> l, time |-> seen.time, status |-> "live"])
    /\ UNCHANGED <<occurrence, attendance, assigned, moves, charges>>

\* release_lesson_resource, whatever the status of the lesson
ReleaseRoom(l) ==
    /\ reservations' = EndReservations(Current(l))
    /\ UNCHANGED <<occurrence, attendance, assigned, moves, charges>>

\* resource_reservation_create, for something that is not a lesson
Reserve(space, time) ==
    /\ Free(space, time, {})
    /\ Len(reservations) < MaxReservations
    /\ reservations' = Append(reservations,
          [space |-> space, lesson |-> NoLesson, time |-> time, status |-> "live"])
    /\ UNCHANGED <<occurrence, attendance, assigned, moves, charges>>

\* resource_reservation_edit, of any reservation, a lesson's or a cancelled one too
EditReservation(i, time) ==
    /\ Free(reservations[i].space, time, {i})
    /\ reservations' = [reservations EXCEPT ![i].time = time]
    /\ UNCHANGED <<occurrence, attendance, assigned, moves, charges>>

\* resource_reservation_delete
CancelReservation(i) ==
    /\ reservations' = EndReservations({i})
    /\ UNCHANGED <<occurrence, attendance, assigned, moves, charges>>

-----------------------------------------------------------------------------
(* The life of an occurrence                                               *)

\* complete_lesson_occurrence, under a lock on the occurrence
Complete(l) ==
    /\ Open(occurrence[l])
    /\ \A p \in Riders : attendance[l][p] # "expected"
    /\ occurrence' = [occurrence EXCEPT ![l].status = "completed"]
    /\ UNCHANGED <<attendance, assigned, moves, charges, reservations>>

\* Mutation: completed lessons can be cancelled.
Cancel_Completed(l, seen) ==
    /\ seen.status # "none"
    /\ occurrence' = [occurrence EXCEPT ![l] = [seen EXCEPT !.status = "cancelled"]]
    /\ reservations' = EndReservations(Current(l))
    /\ UNCHANGED <<attendance, assigned, moves, charges>>

\* cancel_lesson_occurrence saves every field it loaded and releases the room.
Cancel(l, seen) ==
    /\ seen.status \notin {"none", "completed"}
    /\ occurrence' = [occurrence EXCEPT ![l] = [seen EXCEPT !.status = "cancelled"]]
    /\ reservations' = EndReservations(Current(l))
    /\ UNCHANGED <<attendance, assigned, moves, charges>>

\* Mutation: without full_clean of the reservation.
Reschedule_Unchecked(l, time, seen) ==
    /\ seen.status \notin {"none", "completed"}
    /\ reservations' = [i \in DOMAIN reservations |->
          IF i \in Current(l) THEN [reservations[i] EXCEPT !.time = time] ELSE reservations[i]]
    /\ occurrence' = [occurrence EXCEPT ![l] = [status |-> "rescheduled", time |-> time]]
    /\ UNCHANGED <<attendance, assigned, moves, charges>>

\* Mutation: without sync_lesson_resource_times.
Reschedule_Unsynced(l, time, seen) ==
    /\ seen.status \notin {"none", "completed"}
    /\ occurrence' = [occurrence EXCEPT ![l] = [status |-> "rescheduled", time |-> time]]
    /\ UNCHANGED <<attendance, assigned, moves, charges, reservations>>

\* Mutation: the lesson keeps its old end.
Reschedule_OldEnd(l, time, seen) ==
    /\ seen.status \notin {"none", "completed"}
    /\ \A i \in Current(l) : Free(reservations[i].space, time, {i})
    /\ reservations' = [i \in DOMAIN reservations |->
          IF i \in Current(l) THEN [reservations[i] EXCEPT !.time = time] ELSE reservations[i]]
    /\ occurrence' = [occurrence EXCEPT ![l] =
          [status |-> "rescheduled", time |-> <<time[1], seen.time[2]>>]]
    /\ UNCHANGED <<attendance, assigned, moves, charges>>

\* reschedule_lesson_occurrence, of a cancelled lesson too: a reservation moves
\* along, if the room is free at the new time.
Reschedule(l, time, seen) ==
    /\ seen.status \notin {"none", "completed"}
    /\ \A i \in Current(l) : Free(reservations[i].space, time, {i})
    /\ reservations' = [i \in DOMAIN reservations |->
          IF i \in Current(l) THEN [reservations[i] EXCEPT !.time = time] ELSE reservations[i]]
    /\ occurrence' = [occurrence EXCEPT ![l] = [status |-> "rescheduled", time |-> time]]
    /\ UNCHANGED <<attendance, assigned, moves, charges>>

\* bill_lesson_occurrence with the rule of an account: all or nothing, once per
\* rider (generation_key).
Bill(l, account, seen) ==
    LET billable == {p \in Riders : attendance[l][p] = "present" /\ AccountOf[p] # NoAccount}
    IN  /\ seen.status = "completed"
        /\ \A p \in billable : AccountOf[p] = account
        /\ charges' = [charges EXCEPT ![l] =
              [p \in Riders |-> IF p \in billable /\ @[p] = 0 THEN 1 ELSE @[p]]]
        /\ UNCHANGED <<occurrence, attendance, assigned, moves, reservations>>

-----------------------------------------------------------------------------
Next ==
    \/ \E window \in SUBSET Lessons : Materialize(window)
    \/ \E l \in Lessons :
          LET seen == occurrence[l]
          IN  \/ \E enrolled \in SUBSET Riders : Prepare(l, enrolled, seen)
              \/ \E rows \in [Roster(l) -> Marks] : UpdateLessonDay(l, rows)
              \/ \E p \in Riders, mark \in Marks : EditAttendance(l, p, mark)
              \/ \E to \in Lessons, p \in Riders, mark \in Marks, kind \in {"move", "makeup"} :
                    /\ MayMove(l, to, p, seen, occurrence[to])
                    /\ MoveRider(l, to, p, mark, kind)
              \/ \E space \in Spaces : AssignRoom(l, space, seen)
              \/ ReleaseRoom(l)
              \/ Complete(l)
              \/ Cancel(l, seen)
              \/ \E time \in Times : Reschedule(l, time, seen)
              \/ \E account \in Accounts : Bill(l, account, seen)
    \/ \E space \in Spaces, time \in Times : Reserve(space, time)
    \/ \E i \in DOMAIN reservations :
          \/ \E time \in Times : EditReservation(i, time)
          \/ CancelReservation(i)

Spec == Init /\ [][Next]_vars

-----------------------------------------------------------------------------
(* Properties                                                              *)

TypeOK ==
    /\ occurrence \in [Lessons -> Occurrence]
    /\ attendance \in [Lessons -> [Riders -> Statuses \union {"none"}]]
    /\ assigned \subseteq Lessons \X Riders
    /\ moves \subseteq Move
    /\ charges \in [Lessons -> [Riders -> Nat]]
    /\ reservations \in Seq(Reservation)

\* A rider has an attendance record exactly if he has an assignment, whether he
\* came by enrollment or by a move; otherwise update_lesson_day would answer
\* "Lesson-day roster changed" for ever.  Who was moved is on both rosters.
RosterIsPaired ==
    /\ \A l \in Lessons : Roster(l) = Assigned(l)
    /\ \A m \in moves : m.rider \in Roster(m.from) /\ m.rider \in Roster(m.to)

\* "Capacity" is validated for moves: a move leaves no more riders in the lesson
\* than it has places, whatever enrollments, marks and other moves put there
\* before.
MovesFitCapacity ==
    [][\A m \in moves' \ moves :
          Cardinality({p \in Riders : attendance'[m.to][p] \notin {"none", "excused"}})
             <= Capacity]_vars

\* Nobody joins a lesson that is completed or cancelled, by preparation,
\* regeneration of the series, or a move.
ClosedRosterStays ==
    [][\A l \in Lessons :
          Closed(occurrence[l]) /\ Closed(occurrence'[l]) => Roster(l)' = Roster(l)]_vars

\* "Only completed lesson occurrences can be billed", and what was billed is
\* never cancelled or rescheduled afterwards, nor billed twice.
BilledAreCompleted ==
    \A l \in Lessons, p \in Riders :
        /\ charges[l][p] <= 1
        /\ charges[l][p] > 0 => occurrence[l].status = "completed"

\* A lesson has at most one room at a time, and none when it is cancelled.
OneRoomPerLesson ==
    \A l \in Lessons :
        /\ \A i, j \in Held(l) : i = j
        /\ occurrence[l].status \in {"none", "cancelled"} => Held(l) = {}

\* No two live reservations of a space overlap, whether they were made for
\* lessons or by hand, moved with a lesson or edited.
NoDoubleBooking ==
    \A i, j \in DOMAIN reservations :
        /\ i # j
        /\ Live(reservations[i]) /\ Live(reservations[j])
        /\ reservations[i].space = reservations[j].space
        => ~ Overlap(reservations[i].time, reservations[j].time)

\* When a lesson gets another time, its room is reserved for that time.
RoomFollowsLesson ==
    [][\A l \in Lessons : occurrence'[l].time # occurrence[l].time =>
          \A i \in DOMAIN reservations' :
              Live(reservations'[i]) /\ reservations'[i].lesson = l
                  => reservations'[i].time = occurrence'[l].time]_vars
=============================================================================
