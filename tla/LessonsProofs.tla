--------------------------- MODULE LessonsProofs ---------------------------
(***************************************************************************)
(* Proofs about Lessons, for any slots, times, riders, accounts, spaces    *)
(* and capacity.  The tables fall into three groups that hardly touch:     *)
(* who is on which roster, what was billed, and which room is reserved.    *)
(* Each group has an invariant and a lemma that every step keeps it.       *)
(***************************************************************************)
EXTENDS Lessons, FiniteSetTheorems, SequenceTheorems, TLAPS

Rosters ==
    /\ attendance \in [Lessons -> [Riders -> Statuses \union {"none"}]]
    /\ assigned \subseteq Lessons \X Riders
    /\ moves \subseteq Move
    /\ RosterIsPaired

Billing ==
    /\ occurrence \in [Lessons -> Occurrence]
    /\ charges \in [Lessons -> [Riders -> Nat]]
    /\ BilledAreCompleted

Rooms ==
    /\ reservations \in Seq(Reservation)
    /\ OneRoomPerLesson
    /\ NoDoubleBooking

\* The inductive invariant
IInv == Rosters /\ Billing /\ Rooms

-----------------------------------------------------------------------------
\* Nothing is generated, attended, billed or reserved.
LEMMA InitIInv == Init => IInv
<1> SUFFICES ASSUME Init PROVE IInv
  OBVIOUS
<1>1. Rosters
  BY DEF Init, Rosters, RosterIsPaired, Roster, Assigned
<1>2. Billing
  BY LessonsAssumption DEF Init, Billing, Occurrence, BilledAreCompleted
<1>3. Rooms
  BY DEF Init, Rooms, OneRoomPerLesson, NoDoubleBooking, Held
<1> QED BY <1>1, <1>2, <1>3 DEF IInv

-----------------------------------------------------------------------------
(* Rosters                                                                 *)

\* Attendance and assignments are added together, so they stay paired.
LEMMA AddKeepsRosters ==
  ASSUME Rosters, NEW D \in SUBSET Lessons, NEW enrolled \in [D -> SUBSET Riders],
         AddToRosters(enrolled), UNCHANGED moves
  PROVE  /\ Rosters'
         /\ \A l \in Lessons : l \notin D => Roster(l)' = Roster(l)
<1>1. attendance' \in [Lessons -> [Riders -> Statuses \union {"none"}]]
  BY DEF Rosters, AddToRosters, Statuses
<1>2. assigned' \subseteq Lessons \X Riders
  BY DEF Rosters, AddToRosters
<1>3. ASSUME NEW l \in Lessons
      PROVE  /\ Roster(l)' = Roster(l) \union (IF l \in D THEN enrolled[l] ELSE {})
             /\ Assigned(l)' = Assigned(l) \union (IF l \in D THEN enrolled[l] ELSE {})
  <2>1. \A p \in Riders : attendance'[l][p] =
          IF l \in D /\ p \in enrolled[l] /\ attendance[l][p] = "none"
          THEN "expected" ELSE attendance[l][p]
    BY DEF AddToRosters
  <2>2. l \in D => enrolled[l] \subseteq Riders
    OBVIOUS
  <2>3. Roster(l)' = Roster(l) \union (IF l \in D THEN enrolled[l] ELSE {})
    BY <2>1, <2>2 DEF Roster
  <2>4. Assigned(l)' = Assigned(l) \union (IF l \in D THEN enrolled[l] ELSE {})
    BY <2>2 DEF Assigned, AddToRosters
  <2> QED BY <2>3, <2>4
<1>4. RosterIsPaired'
  <2>1. \A l \in Lessons : Roster(l)' = Assigned(l)'
    BY <1>3 DEF Rosters, RosterIsPaired
  <2>2. \A m \in moves : m.from \in Lessons /\ m.to \in Lessons
    BY DEF Rosters, Move
  <2>3. \A m \in moves' : m.rider \in Roster(m.from)' /\ m.rider \in Roster(m.to)'
    BY <1>3, <2>2 DEF Rosters, RosterIsPaired
  <2> QED BY <2>1, <2>3 DEF RosterIsPaired
<1> QED BY <1>1, <1>2, <1>3, <1>4 DEF Rosters

\* New marks for riders who are on the roster leave the roster as it is.
LEMMA MarksKeepRosters ==
  ASSUME Rosters, UNCHANGED <<assigned, moves>>,
         attendance' \in [Lessons -> [Riders -> Statuses \union {"none"}]],
         \A l \in Lessons, p \in Riders :
            attendance'[l][p] = "none" <=> attendance[l][p] = "none"
  PROVE  Rosters' /\ \A l \in Lessons : Roster(l)' = Roster(l)
<1>1. \A l \in Lessons : Roster(l)' = Roster(l) /\ Assigned(l)' = Assigned(l)
  BY DEF Roster, Assigned
<1>2. \A m \in moves : m.from \in Lessons /\ m.to \in Lessons
  BY DEF Rosters, Move
<1>3. RosterIsPaired'
  BY <1>1, <1>2 DEF Rosters, RosterIsPaired
<1> QED BY <1>1, <1>3 DEF Rosters

\* A move adds the rider to the roster and the assignments of the destination.
LEMMA MoveKeepsRosters ==
  ASSUME Rosters, NEW from \in Lessons, NEW to \in Lessons, NEW p \in Riders,
         NEW mark \in Marks, NEW kind \in {"move", "makeup"},
         MoveRider(from, to, p, mark, kind)
  PROVE  /\ Rosters'
         /\ \A l \in Lessons : Roster(l)' = IF l = to THEN Roster(l) \union {p} ELSE Roster(l)
         /\ \A q \in Riders : q # p => attendance'[to][q] = attendance[to][q]
<1> DEFINE there == IF kind = "makeup" THEN "present" ELSE "expected"
<1>1. /\ mark \in Statuses /\ mark # "none"
      /\ there \in Statuses /\ there # "none"
  BY LessonsAssumption DEF Statuses
<1>2. attendance' = [attendance EXCEPT ![from][p] = mark, ![to][p] = there]
  BY DEF MoveRider
<1>3. from # to /\ attendance[from][p] # "none"
  BY DEF MoveRider
<1> HIDE DEF there
<1>4. attendance' \in [Lessons -> [Riders -> Statuses \union {"none"}]]
  BY <1>1, <1>2, <1>3 DEF Rosters
<1>5. \A l \in Lessons, q \in Riders : attendance'[l][q] =
        IF q = p /\ l = from THEN mark ELSE IF q = p /\ l = to THEN there ELSE attendance[l][q]
  BY <1>2, <1>3 DEF Rosters
<1>6. \A l \in Lessons : Roster(l)' = IF l = to THEN Roster(l) \union {p} ELSE Roster(l)
  BY <1>1, <1>3, <1>5 DEF Roster
<1>7. assigned' = assigned \union {<<to, p>>}
  BY DEF MoveRider
<1>8. \A l \in Lessons : Assigned(l)' = IF l = to THEN Assigned(l) \union {p} ELSE Assigned(l)
  BY <1>7 DEF Assigned
<1>9. moves' = moves \union {[from |-> from, to |-> to, rider |-> p]}
  BY DEF MoveRider
<1>10. p \in Roster(from)' /\ p \in Roster(to)'
  BY <1>3, <1>6 DEF Roster
<1>11. \A m \in moves : m.from \in Lessons /\ m.to \in Lessons
  BY DEF Rosters, Move
<1>12. \A m \in moves' : m.rider \in Roster(m.from)' /\ m.rider \in Roster(m.to)'
  <2> TAKE m \in moves'
  <2>1. CASE m \in moves
    <3>1. m.rider \in Roster(m.from) /\ m.rider \in Roster(m.to)
      BY <2>1 DEF Rosters, RosterIsPaired
    <3> QED BY <1>6, <1>11, <2>1, <3>1
  <2>2. CASE m = [from |-> from, to |-> to, rider |-> p]
    BY <1>10, <2>2
  <2> QED BY <1>9, <2>1, <2>2
<1>13. RosterIsPaired'
  BY <1>6, <1>8, <1>12 DEF Rosters, RosterIsPaired
<1>14. assigned' \subseteq Lessons \X Riders /\ moves' \subseteq Move
  BY <1>7, <1>9 DEF Rosters, Move
<1> QED BY <1>4, <1>5, <1>6, <1>13, <1>14 DEF Rosters

\* Every step keeps the rosters.
LEMMA StepKeepsRosters ==
  ASSUME Rosters, Next
  PROVE  Rosters'
<1>1. ASSUME NEW window \in SUBSET Lessons, Materialize(window) PROVE Rosters'
  <2> DEFINE D == {l \in window : occurrence'[l].status = "scheduled"}
  <2>1. PICK enrolled \in [D -> SUBSET Riders] : AddToRosters(enrolled)
    BY <1>1 DEF Materialize
  <2>2. D \in SUBSET Lessons
    OBVIOUS
  <2> HIDE DEF D
  <2>3. UNCHANGED moves
    BY <1>1 DEF Materialize
  <2> QED BY <2>1, <2>2, <2>3, AddKeepsRosters
<1>2. ASSUME NEW l \in Lessons, NEW enrolled \in SUBSET Riders,
             Prepare(l, enrolled, occurrence[l])
      PROVE  Rosters'
  <2>1. [x \in {l} |-> enrolled] \in [{l} -> SUBSET Riders] /\ {l} \in SUBSET Lessons
    OBVIOUS
  <2>2. AddToRosters([x \in {l} |-> enrolled]) /\ UNCHANGED moves
    BY <1>2 DEF Prepare
  <2> QED BY <2>1, <2>2, AddKeepsRosters
<1>3. ASSUME NEW l \in Lessons, NEW rows \in [Roster(l) -> Marks], UpdateLessonDay(l, rows)
      PROVE  Rosters'
  <2>1. attendance' = [attendance EXCEPT ![l] =
           [p \in Riders |-> IF p \in DOMAIN rows THEN rows[p] ELSE @[p]]]
    BY <1>3 DEF UpdateLessonDay
  <2>2. \A p \in Roster(l) : rows[p] \in Statuses /\ rows[p] # "none"
    BY LessonsAssumption DEF Statuses
  <2>3. attendance' \in [Lessons -> [Riders -> Statuses \union {"none"}]]
    BY <2>1, <2>2 DEF Rosters
  <2>4. \A x \in Lessons, p \in Riders : attendance'[x][p] =
           IF x = l /\ p \in Roster(l) THEN rows[p] ELSE attendance[x][p]
    BY <2>1 DEF Rosters
  <2>5. \A x \in Lessons, p \in Riders :
           attendance'[x][p] = "none" <=> attendance[x][p] = "none"
    BY <2>2, <2>4 DEF Roster
  <2>6. UNCHANGED <<assigned, moves>>
    BY <1>3 DEF UpdateLessonDay
  <2> QED BY <2>3, <2>5, <2>6, MarksKeepRosters
<1>4. ASSUME NEW l \in Lessons, NEW p \in Riders, NEW mark \in Marks, EditAttendance(l, p, mark)
      PROVE  Rosters'
  <2>1. mark \in Statuses /\ mark # "none"
    BY LessonsAssumption DEF Statuses
  <2>2. attendance' = [attendance EXCEPT ![l][p] = mark] /\ attendance[l][p] # "none"
    BY <1>4 DEF EditAttendance
  <2>3. attendance' \in [Lessons -> [Riders -> Statuses \union {"none"}]]
    BY <2>1, <2>2 DEF Rosters
  <2>4. \A x \in Lessons, q \in Riders :
           attendance'[x][q] = "none" <=> attendance[x][q] = "none"
    BY <2>1, <2>2 DEF Rosters
  <2>5. UNCHANGED <<assigned, moves>>
    BY <1>4 DEF EditAttendance
  <2> QED BY <2>3, <2>4, <2>5, MarksKeepRosters
<1>5. ASSUME NEW l \in Lessons, NEW to \in Lessons, NEW p \in Riders, NEW mark \in Marks,
             NEW kind \in {"move", "makeup"}, MoveRider(l, to, p, mark, kind)
      PROVE  Rosters'
  BY <1>5, MoveKeepsRosters
<1>6. ASSUME UNCHANGED <<attendance, assigned, moves>>
      PROVE  Rosters'
  BY <1>6 DEF Rosters, RosterIsPaired, Roster, Assigned
<1> QED
  BY <1>1, <1>2, <1>3, <1>4, <1>5, <1>6
  DEF Next, AssignRoom, ReleaseRoom, Complete, Cancel, Reschedule, Bill, Reserve,
      EditReservation, CancelReservation

-----------------------------------------------------------------------------
(* Billing                                                                 *)

\* Every step keeps completed lessons completed, and bills only those.
LEMMA StepKeepsBilling ==
  ASSUME Billing, Next
  PROVE  /\ Billing'
         /\ \A l \in Lessons : occurrence[l].status = "completed"
                                  => occurrence'[l] = occurrence[l]
<1> DEFINE Kept == \A l \in Lessons : occurrence[l].status = "completed"
                                        => occurrence'[l] = occurrence[l]
<1>1. ASSUME occurrence' \in [Lessons -> Occurrence], Kept, UNCHANGED charges
      PROVE  Billing'
  BY <1>1 DEF Billing, BilledAreCompleted
<1>2. ASSUME NEW window \in SUBSET Lessons, Materialize(window) PROVE Billing' /\ Kept
  <2>1. occurrence' = [l \in Lessons |->
          IF l \in window /\ occurrence[l].status = "none"
          THEN [status |-> "scheduled", time |-> Regular[l]] ELSE occurrence[l]]
    BY <1>2 DEF Materialize
  <2>2. occurrence' \in [Lessons -> Occurrence]
    BY <2>1, LessonsAssumption DEF Billing, Occurrence
  <2>3. Kept
    BY <2>1
  <2>4. UNCHANGED charges
    BY <1>2 DEF Materialize
  <2> QED BY <1>1, <2>2, <2>3, <2>4
<1>3. ASSUME NEW l \in Lessons, Complete(l) PROVE Billing' /\ Kept
  <2>1. occurrence' = [occurrence EXCEPT ![l].status = "completed"] /\ UNCHANGED charges
    BY <1>3 DEF Complete
  <2>2. occurrence' \in [Lessons -> Occurrence]
    BY <2>1 DEF Billing, Occurrence
  <2>3. occurrence[l].status # "completed"
    BY <1>3 DEF Complete, Open
  <2>4. Kept
    BY <2>1, <2>3 DEF Billing
  <2> QED BY <1>1, <2>1, <2>2, <2>4
<1>4. ASSUME NEW l \in Lessons, Cancel(l, occurrence[l]) PROVE Billing' /\ Kept
  <2>1. /\ occurrence' = [occurrence EXCEPT ![l] = [occurrence[l] EXCEPT !.status = "cancelled"]]
        /\ occurrence[l].status # "completed"
        /\ UNCHANGED charges
    BY <1>4 DEF Cancel
  <2>2. occurrence' \in [Lessons -> Occurrence]
    BY <2>1 DEF Billing, Occurrence
  <2>3. Kept
    BY <2>1 DEF Billing
  <2> QED BY <1>1, <2>1, <2>2, <2>3
<1>5. ASSUME NEW l \in Lessons, NEW time \in Times, Reschedule(l, time, occurrence[l])
      PROVE  Billing' /\ Kept
  <2>1. /\ occurrence' = [occurrence EXCEPT ![l] = [status |-> "rescheduled", time |-> time]]
        /\ occurrence[l].status # "completed"
        /\ UNCHANGED charges
    BY <1>5 DEF Reschedule
  <2>2. occurrence' \in [Lessons -> Occurrence]
    BY <2>1 DEF Billing, Occurrence
  <2>3. Kept
    BY <2>1 DEF Billing
  <2> QED BY <1>1, <2>1, <2>2, <2>3
<1>6. ASSUME NEW l \in Lessons, NEW account \in Accounts, Bill(l, account, occurrence[l])
      PROVE  Billing' /\ Kept
  <2> DEFINE billable == {p \in Riders : attendance[l][p] = "present" /\ AccountOf[p] # NoAccount}
  <2>1. /\ occurrence[l].status = "completed"
        /\ UNCHANGED occurrence
        /\ charges' = [charges EXCEPT ![l] =
              [p \in Riders |-> IF p \in billable /\ @[p] = 0 THEN 1 ELSE @[p]]]
    BY <1>6 DEF Bill
  <2> HIDE DEF billable
  <2>2. charges' \in [Lessons -> [Riders -> Nat]]
    BY <2>1 DEF Billing
  <2>3. \A x \in Lessons, p \in Riders : charges'[x][p] =
           IF x = l /\ p \in billable /\ charges[x][p] = 0 THEN 1 ELSE charges[x][p]
    BY <2>1 DEF Billing
  <2>4. BilledAreCompleted'
    BY <2>1, <2>3 DEF Billing, BilledAreCompleted
  <2> QED BY <2>1, <2>2, <2>4 DEF Billing
<1>7. ASSUME UNCHANGED <<occurrence, charges>> PROVE Billing' /\ Kept
  BY <1>7 DEF Billing, BilledAreCompleted
<1>8. ASSUME NEW l \in Lessons, NEW enrolled \in SUBSET Riders,
             Prepare(l, enrolled, occurrence[l])
      PROVE  Billing' /\ Kept
  BY <1>7, <1>8 DEF Prepare
<1>9. ASSUME NEW l \in Lessons, NEW rows \in [Roster(l) -> Marks], UpdateLessonDay(l, rows)
      PROVE  Billing' /\ Kept
  BY <1>7, <1>9 DEF UpdateLessonDay
<1>10. ASSUME NEW l \in Lessons, NEW p \in Riders, NEW mark \in Marks,
              EditAttendance(l, p, mark)
       PROVE  Billing' /\ Kept
  BY <1>7, <1>10 DEF EditAttendance
<1>11. ASSUME NEW l \in Lessons, NEW to \in Lessons, NEW p \in Riders, NEW mark \in Marks,
              NEW kind \in {"move", "makeup"}, MoveRider(l, to, p, mark, kind)
       PROVE  Billing' /\ Kept
  BY <1>7, <1>11 DEF MoveRider
<1>12. ASSUME NEW l \in Lessons,
              ReleaseRoom(l) \/ \E space \in Spaces : AssignRoom(l, space, occurrence[l])
       PROVE  Billing' /\ Kept
  BY <1>7, <1>12 DEF AssignRoom, ReleaseRoom
<1>13. ASSUME NEW space \in Spaces, NEW time \in Times, Reserve(space, time)
       PROVE  Billing' /\ Kept
  BY <1>7, <1>13 DEF Reserve
<1>14. ASSUME NEW i \in DOMAIN reservations,
              CancelReservation(i) \/ \E time \in Times : EditReservation(i, time)
       PROVE  Billing' /\ Kept
  BY <1>7, <1>14 DEF EditReservation, CancelReservation
<1> HIDE DEF Kept
<1>15. Billing' /\ Kept
  BY <1>2, <1>3, <1>4, <1>5, <1>6, <1>8, <1>9, <1>10, <1>11, <1>12, <1>13, <1>14 DEF Next
<1> QED BY <1>15 DEF Kept

-----------------------------------------------------------------------------
(* Rooms                                                                   *)

\* With one room at most, the latest reservation of a lesson is the only one.
LEMMA CurrentIsHeld ==
  ASSUME Rooms, NEW l \in Lessons
  PROVE  Current(l) = Held(l)
<1>1. Held(l) \subseteq DOMAIN reservations /\ DOMAIN reservations \subseteq Nat
  BY DEF Held, Rooms
<1>2. \A i, j \in Held(l) : i = j
  BY DEF Rooms, OneRoomPerLesson
<1>3. \A i, j \in Held(l) : j <= i
  BY <1>1, <1>2
<1> QED BY <1>3 DEF Current

\* Row by row, after is reservations with some of the rows ended.
Fewer(after) ==
    /\ after \in Seq(Reservation)
    /\ Len(after) = Len(reservations)
    /\ \A i \in DOMAIN reservations :
          /\ after[i].space = reservations[i].space
          /\ after[i].lesson = reservations[i].lesson
          /\ after[i].time = reservations[i].time
    /\ \A i \in DOMAIN reservations : Live(after[i]) => Live(reservations[i])

\* Ending some rows yields such a table, in which none of them is live.
LEMMA EndedRows ==
  ASSUME Rooms, NEW ended
  PROVE  /\ Fewer(EndReservations(ended))
         /\ \A i \in DOMAIN reservations :
               Live(EndReservations(ended)[i]) => i \notin ended
<1> DEFINE after == EndReservations(ended)
           n == Len(reservations)
<1>1. n \in Nat /\ DOMAIN reservations = 1..n /\ \A i \in 1..n : reservations[i] \in Reservation
  BY DEF Rooms
<1>2. \A i \in 1..n : after[i] = IF i \in ended THEN [reservations[i] EXCEPT !.status = "cancelled"]
                                   ELSE reservations[i]
  BY <1>1 DEF EndReservations
<1>3. ASSUME NEW i \in 1..n
      PROVE  /\ after[i] \in Reservation
             /\ after[i].space = reservations[i].space
             /\ after[i].lesson = reservations[i].lesson
             /\ after[i].time = reservations[i].time
  <2>1. CASE i \in ended
    BY <1>1, <1>2, <2>1 DEF Reservation
  <2>2. CASE i \notin ended
    BY <1>1, <1>2, <2>2
  <2> QED BY <2>1, <2>2
<1>4. \A i \in 1..n : Live(after[i]) => Live(reservations[i])
  BY <1>1, <1>2 DEF Reservation, Live
<1>5. \A i \in 1..n : Live(after[i]) => i \notin ended
  BY <1>1, <1>2 DEF Reservation, Live
<1>6. DOMAIN after = 1..n /\ after = [i \in 1..n |-> after[i]]
  BY <1>1 DEF EndReservations
<1> HIDE DEF after, n
<1>7. after \in [1..n -> Reservation]
  BY <1>3, <1>6
<1>8. after \in Seq(Reservation)
  BY <1>1, <1>7, SeqDef
<1>9. Len(after) = n
  BY <1>1, <1>6, <1>8, LenProperties
<1>10. Fewer(after)
  BY <1>1, <1>3, <1>4, <1>8, <1>9 DEF Fewer, n
<1> QED BY <1>1, <1>5, <1>10 DEF after

\* Ending reservations breaks nothing, provided that a lesson that is cancelled
\* loses its own.
LEMMA FewerKeepsRooms ==
  ASSUME Rooms, Fewer(reservations'),
         \A l \in Lessons : occurrence'[l].status \in {"none", "cancelled"} =>
            occurrence[l].status \in {"none", "cancelled"} \/ Held(l)' = {}
  PROVE  Rooms'
<1>1. DOMAIN reservations' = DOMAIN reservations /\ reservations' \in Seq(Reservation)
  BY DEF Fewer, Rooms
<1>2. \A l \in Lessons : Held(l)' \subseteq Held(l)
  BY <1>1 DEF Fewer, Held
<1>3. OneRoomPerLesson'
  BY <1>2 DEF Rooms, OneRoomPerLesson
<1>4. NoDoubleBooking'
  BY <1>1 DEF Rooms, NoDoubleBooking, Fewer
<1> QED BY <1>1, <1>3, <1>4 DEF Rooms

\* A new reservation of a free space, for no lesson or for one that can have it.
LEMMA NewKeepsRooms ==
  ASSUME Rooms, NEW base, Fewer(base), NEW r \in Reservation, Live(r),
         Free(r.space, r.time, {}),
         reservations' = Append(base, r), UNCHANGED occurrence,
         \A i \in DOMAIN reservations :
            Live(base[i]) => base[i].lesson # r.lesson \/ r.lesson = NoLesson,
         r.lesson # NoLesson => occurrence[r.lesson].status \notin {"none", "cancelled"}
  PROVE  Rooms'
<1> DEFINE n == Len(reservations)
<1>1. /\ n \in Nat /\ DOMAIN reservations = 1..n
      /\ base \in Seq(Reservation) /\ Len(base) = n
  BY DEF Rooms, Fewer
<1>2. /\ reservations' \in Seq(Reservation)
      /\ DOMAIN reservations' = 1..(n + 1)
      /\ reservations'[n + 1] = r
      /\ \A i \in 1..n : reservations'[i] = base[i]
  BY <1>1
<1>3. \A i \in 1..n : /\ base[i].space = reservations[i].space
                       /\ base[i].lesson = reservations[i].lesson
                       /\ base[i].time = reservations[i].time
  BY <1>1 DEF Fewer
<1>4. \A i \in 1..n : Live(base[i]) => Live(reservations[i])
  BY <1>1 DEF Fewer
<1>5. \A i \in 1..n : Live(reservations[i]) /\ reservations[i].space = r.space
                          => ~ Overlap(reservations[i].time, r.time)
  BY <1>1 DEF Free
<1>6. \A i, j \in 1..n : /\ i # j
                           /\ Live(reservations[i]) /\ Live(reservations[j])
                           /\ reservations[i].space = reservations[j].space
                          => ~ Overlap(reservations[i].time, reservations[j].time)
  BY <1>1 DEF Rooms, NoDoubleBooking
<1> HIDE DEF n
<1>7. \A l \in Lessons :
         Held(l)' \subseteq IF l = r.lesson THEN {n + 1} ELSE Held(l)
  <2> TAKE l \in Lessons
  <2>1. l # NoLesson
    BY LessonsAssumption
  <2> SUFFICES ASSUME NEW i \in 1..(n + 1), Live(reservations'[i]), reservations'[i].lesson = l
               PROVE  i \in IF l = r.lesson THEN {n + 1} ELSE Held(l)
    BY <1>2 DEF Held
  <2>2. CASE i = n + 1
    BY <1>2, <2>2
  <2>3. CASE i \in 1..n
    <3>1. Live(base[i]) /\ base[i].lesson = l
      BY <1>2, <2>3
    <3>2. i \in Held(l)
      BY <1>1, <1>3, <1>4, <2>3, <3>1 DEF Held
    <3>3. l # r.lesson
      BY <1>1, <2>1, <2>3, <3>1
    <3> QED BY <3>2, <3>3
  <2> QED BY <1>1, <2>2, <2>3
<1>8. OneRoomPerLesson'
  BY <1>7, LessonsAssumption DEF Rooms, OneRoomPerLesson
<1>9. \A i \in 1..n : Live(base[i]) /\ base[i].space = r.space => ~ Overlap(base[i].time, r.time)
  BY <1>3, <1>5, <1>4
<1>10. \A i, j \in 1..n : i # j /\ Live(base[i]) /\ Live(base[j]) /\ base[i].space = base[j].space
                          => ~ Overlap(base[i].time, base[j].time)
  BY <1>3, <1>6, <1>4
<1>11. NoDoubleBooking'
  <2> SUFFICES ASSUME NEW i \in 1..(n + 1), NEW j \in 1..(n + 1), i # j,
                      Live(reservations'[i]), Live(reservations'[j]),
                      reservations'[i].space = reservations'[j].space
               PROVE  ~ Overlap(reservations'[i].time, reservations'[j].time)
    BY <1>2 DEF NoDoubleBooking
  <2>1. CASE i \in 1..n /\ j \in 1..n
    BY <1>2, <1>10, <2>1
  <2>2. CASE i = n + 1 /\ j \in 1..n
    BY <1>2, <1>9, <2>2 DEF Overlap
  <2>3. CASE i \in 1..n /\ j = n + 1
    BY <1>2, <1>9, <2>3
  <2> QED BY <1>1, <2>1, <2>2, <2>3
<1> QED BY <1>2, <1>8, <1>11 DEF Rooms

\* One reservation gets another time at which its space is free.
LEMMA RetimedKeepsRooms ==
  ASSUME Rooms, NEW retimed \in SUBSET DOMAIN reservations, NEW time \in Times,
         \A i, j \in retimed : i = j,
         \A i \in retimed : Free(reservations[i].space, time, {i}),
         reservations' = [i \in DOMAIN reservations |->
            IF i \in retimed THEN [reservations[i] EXCEPT !.time = time] ELSE reservations[i]],
         \A l \in Lessons : occurrence'[l].status \in {"none", "cancelled"} =>
            occurrence[l].status \in {"none", "cancelled"}
  PROVE  /\ Rooms'
         /\ \A l \in Lessons : Held(l)' = Held(l)
         /\ \A i \in retimed : reservations'[i].time = time
<1> DEFINE n == Len(reservations)
<1>1. n \in Nat /\ DOMAIN reservations = 1..n /\ \A i \in 1..n : reservations[i] \in Reservation
  BY DEF Rooms
<1> HIDE DEF n
<1>2. \A i \in 1..n : /\ reservations'[i] \in Reservation
                       /\ reservations'[i].space = reservations[i].space
                       /\ reservations'[i].lesson = reservations[i].lesson
                       /\ reservations'[i].time = IF i \in retimed THEN time ELSE reservations[i].time
  BY <1>1 DEF Reservation
<1>3. \A i \in 1..n : Live(reservations'[i]) <=> Live(reservations[i])
  BY <1>1 DEF Reservation, Live
<1>4. DOMAIN reservations' = 1..n /\ reservations' = [i \in 1..n |-> reservations'[i]]
  BY <1>1
<1>5. reservations' \in Seq(Reservation)
  BY <1>1, <1>2, <1>4
<1>6. \A l \in Lessons : Held(l)' = Held(l)
  BY <1>1, <1>2, <1>4, <1>3 DEF Held
<1>7. OneRoomPerLesson'
  BY <1>6 DEF Rooms, OneRoomPerLesson
<1>8. \A i \in retimed, j \in 1..n \ retimed :
         Live(reservations[j]) /\ reservations[j].space = reservations[i].space
            => ~ Overlap(reservations[j].time, time)
  <2> TAKE i \in retimed, j \in 1..n \ retimed
  <2>1. Free(reservations[i].space, time, {i}) /\ j \in DOMAIN reservations \ {i}
    BY <1>1
  <2> QED BY <2>1 DEF Free
<1>9. NoDoubleBooking'
  <2> SUFFICES ASSUME NEW i \in 1..n, NEW j \in 1..n, i # j,
                      Live(reservations'[i]), Live(reservations'[j]),
                      reservations'[i].space = reservations'[j].space
               PROVE  ~ Overlap(reservations'[i].time, reservations'[j].time)
    BY <1>4 DEF NoDoubleBooking
  <2>1. CASE i \notin retimed /\ j \notin retimed
    BY <1>1, <1>2, <1>3, <2>1 DEF Rooms, NoDoubleBooking
  <2>2. CASE i \in retimed /\ j \notin retimed
    BY <1>2, <1>8, <1>3, <2>2 DEF Overlap
  <2>3. CASE i \notin retimed /\ j \in retimed
    BY <1>2, <1>8, <1>3, <2>3
  <2> QED BY <2>1, <2>2, <2>3
<1> QED BY <1>1, <1>2, <1>5, <1>6, <1>7, <1>9 DEF Rooms


\* Every step keeps the rooms in order, and takes the room along to a new time.
LEMMA StepKeepsRooms ==
  ASSUME Rooms, Billing, Next
  PROVE  /\ Rooms'
         /\ \A l \in Lessons : occurrence'[l].time # occurrence[l].time =>
               \A i \in Held(l)' : reservations'[i].time = occurrence'[l].time
<1> DEFINE Follow == \A l \in Lessons : occurrence'[l].time # occurrence[l].time =>
                        \A i \in Held(l)' : reservations'[i].time = occurrence'[l].time
           Bare == \A l \in Lessons : occurrence'[l].status \in {"none", "cancelled"} =>
                        occurrence[l].status \in {"none", "cancelled"}
           Timed == \A l \in Lessons : occurrence'[l].time = occurrence[l].time
<1>1. ASSUME UNCHANGED reservations, Bare PROVE Rooms'
  <2>1. \A l \in Lessons : Held(l)' = Held(l)
    BY <1>1 DEF Held
  <2>2. OneRoomPerLesson'
    BY <1>1, <2>1 DEF Rooms, OneRoomPerLesson
  <2>3. NoDoubleBooking'
    BY <1>1 DEF Rooms, NoDoubleBooking
  <2> QED BY <1>1, <2>2, <2>3 DEF Rooms
<1>2. ASSUME UNCHANGED <<occurrence, reservations>> PROVE Rooms' /\ Follow
  BY <1>1, <1>2
<1>3. ASSUME NEW window \in SUBSET Lessons, Materialize(window) PROVE Rooms' /\ Follow
  <2>1. /\ occurrence' = [l \in Lessons |->
              IF l \in window /\ occurrence[l].status = "none"
              THEN [status |-> "scheduled", time |-> Regular[l]] ELSE occurrence[l]]
        /\ UNCHANGED reservations
    BY <1>3 DEF Materialize
  <2>2. Bare
    BY <2>1
  <2>3. \A l \in Lessons : occurrence'[l].time # occurrence[l].time => Held(l) = {}
    BY <2>1 DEF Rooms, OneRoomPerLesson
  <2>4. \A l \in Lessons : Held(l)' = Held(l)
    BY <2>1 DEF Held
  <2> QED BY <1>1, <2>1, <2>2, <2>3, <2>4
<1>4. ASSUME NEW l \in Lessons, Complete(l) PROVE Rooms' /\ Follow
  <2>1. /\ occurrence' = [occurrence EXCEPT ![l].status = "completed"]
        /\ UNCHANGED reservations
    BY <1>4 DEF Complete
  <2>2. Bare
    BY <2>1 DEF Billing, Occurrence
  <2>3. Timed
    BY <2>1 DEF Billing, Occurrence
  <2> QED BY <1>1, <2>1, <2>2, <2>3
<1>5. ASSUME NEW l \in Lessons, Cancel(l, occurrence[l]) PROVE Rooms' /\ Follow
  <2>1. /\ occurrence' = [occurrence EXCEPT ![l] = [occurrence[l] EXCEPT !.status = "cancelled"]]
        /\ reservations' = EndReservations(Held(l))
    BY <1>5, CurrentIsHeld DEF Cancel
  <2>2. Fewer(reservations') /\ DOMAIN reservations' = DOMAIN reservations
    BY <2>1, EndedRows DEF EndReservations
  <2>3. \A i \in DOMAIN reservations : Live(reservations'[i]) => i \notin Held(l)
    BY <2>1, EndedRows
  <2>4. Held(l)' = {}
    BY <2>2, <2>3 DEF Held, Fewer
  <2>5. \A x \in Lessons : occurrence'[x].status \in {"none", "cancelled"} =>
           occurrence[x].status \in {"none", "cancelled"} \/ Held(x)' = {}
    BY <2>1, <2>4
  <2>6. Timed
    BY <2>1 DEF Billing, Occurrence
  <2> QED BY <2>2, <2>5, <2>6, FewerKeepsRooms
<1>6. ASSUME NEW l \in Lessons, NEW time \in Times, Reschedule(l, time, occurrence[l])
      PROVE  Rooms' /\ Follow
  <2> DEFINE retimed == Held(l)
  <2>1. /\ \A i \in retimed : Free(reservations[i].space, time, {i})
        /\ reservations' = [i \in DOMAIN reservations |->
              IF i \in retimed THEN [reservations[i] EXCEPT !.time = time] ELSE reservations[i]]
        /\ occurrence' = [occurrence EXCEPT ![l] = [status |-> "rescheduled", time |-> time]]
    BY <1>6, CurrentIsHeld DEF Reschedule
  <2>2. retimed \in SUBSET DOMAIN reservations
    BY DEF Held
  <2>3. \A i, j \in retimed : i = j
    BY DEF Rooms, OneRoomPerLesson
  <2>4. Bare
    BY <2>1 DEF Billing
  <2>5. \A x \in Lessons : occurrence'[x].time = IF x = l THEN time ELSE occurrence[x].time
    BY <2>1 DEF Billing
  <2> HIDE DEF retimed
  <2>6. /\ Rooms'
        /\ \A x \in Lessons : Held(x)' = Held(x)
        /\ \A i \in retimed : reservations'[i].time = time
    BY <2>1, <2>2, <2>3, <2>4, RetimedKeepsRooms
  <2> QED BY <2>5, <2>6 DEF retimed
<1>7. ASSUME NEW l \in Lessons, NEW space \in Spaces, AssignRoom(l, space, occurrence[l])
      PROVE  Rooms' /\ Follow
  <2> DEFINE base == EndReservations(Held(l))
             r == [space |-> space, lesson |-> l, time |-> occurrence[l].time, status |-> "live"]
  <2>1. /\ reservations' = Append(base, r)
        /\ Free(r.space, r.time, {})
        /\ occurrence[l].status \notin {"none", "cancelled"}
        /\ UNCHANGED occurrence
    BY <1>7, CurrentIsHeld DEF AssignRoom, Open
  <2>2. r \in Reservation /\ Live(r) /\ r.lesson = l /\ l # NoLesson
    BY LessonsAssumption DEF Billing, Occurrence, Reservation, Live
  <2>3. Fewer(base)
    BY EndedRows
  <2>4. \A i \in DOMAIN reservations : Live(base[i]) => i \notin Held(l)
    BY EndedRows
  <2> HIDE DEF base, r
  <2>5. \A i \in DOMAIN reservations : Live(base[i]) => base[i].lesson # r.lesson
    BY <2>2, <2>3, <2>4 DEF Fewer, Held
  <2>6. Rooms'
    BY <2>1, <2>2, <2>3, <2>5, NewKeepsRooms
  <2> QED BY <2>1, <2>6
<1>8. ASSUME NEW space \in Spaces, NEW time \in Times, Reserve(space, time)
      PROVE  Rooms' /\ Follow
  <2> DEFINE r == [space |-> space, lesson |-> NoLesson, time |-> time, status |-> "live"]
  <2>1. /\ reservations' = Append(reservations, r)
        /\ Free(r.space, r.time, {})
        /\ UNCHANGED occurrence
    BY <1>8 DEF Reserve
  <2>2. r \in Reservation /\ Live(r) /\ r.lesson = NoLesson
    BY DEF Reservation, Live
  <2>3. Fewer(reservations)
    BY DEF Rooms, Fewer
  <2> HIDE DEF r
  <2>4. Rooms'
    BY <2>1, <2>2, <2>3, NewKeepsRooms
  <2> QED BY <2>1, <2>4
<1>9. ASSUME NEW ended, reservations' = EndReservations(ended), UNCHANGED occurrence
      PROVE  Rooms' /\ Follow
  <2>1. Fewer(reservations')
    BY <1>9, EndedRows
  <2> QED BY <1>9, <2>1, FewerKeepsRooms
<1>10. ASSUME NEW l \in Lessons, ReleaseRoom(l) PROVE Rooms' /\ Follow
  BY <1>9, <1>10 DEF ReleaseRoom
<1>11. ASSUME NEW i \in DOMAIN reservations, CancelReservation(i) PROVE Rooms' /\ Follow
  BY <1>9, <1>11 DEF CancelReservation
<1>12. ASSUME NEW i \in DOMAIN reservations, NEW time \in Times, EditReservation(i, time)
       PROVE  Rooms' /\ Follow
  <2>1. /\ Free(reservations[i].space, time, {i})
        /\ reservations' = [reservations EXCEPT ![i].time = time]
        /\ UNCHANGED occurrence
    BY <1>12 DEF EditReservation
  <2>2. reservations' = [j \in DOMAIN reservations |->
           IF j \in {i} THEN [reservations[j] EXCEPT !.time = time] ELSE reservations[j]]
    BY <2>1
  <2>3. Rooms'
    BY <2>1, <2>2, RetimedKeepsRooms
  <2> QED BY <2>1, <2>3
<1>13. ASSUME NEW l \in Lessons, NEW enrolled \in SUBSET Riders, Prepare(l, enrolled, occurrence[l])
       PROVE  Rooms' /\ Follow
  BY <1>2, <1>13 DEF Prepare
<1>14. ASSUME NEW l \in Lessons, NEW rows \in [Roster(l) -> Marks], UpdateLessonDay(l, rows)
       PROVE  Rooms' /\ Follow
  BY <1>2, <1>14 DEF UpdateLessonDay
<1>15. ASSUME NEW l \in Lessons, NEW p \in Riders, NEW mark \in Marks, EditAttendance(l, p, mark)
       PROVE  Rooms' /\ Follow
  BY <1>2, <1>15 DEF EditAttendance
<1>16. ASSUME NEW l \in Lessons, NEW to \in Lessons, NEW p \in Riders, NEW mark \in Marks,
              NEW kind \in {"move", "makeup"}, MoveRider(l, to, p, mark, kind)
       PROVE  Rooms' /\ Follow
  BY <1>2, <1>16 DEF MoveRider
<1>17. ASSUME NEW l \in Lessons, NEW account \in Accounts, Bill(l, account, occurrence[l])
       PROVE  Rooms' /\ Follow
  BY <1>2, <1>17 DEF Bill
<1> HIDE DEF Follow
<1>18. Rooms' /\ Follow
  BY <1>3, <1>4, <1>5, <1>6, <1>7, <1>8, <1>10, <1>11, <1>12, <1>13, <1>14, <1>15, <1>16, <1>17
  DEF Next
<1> QED BY <1>18 DEF Follow

-----------------------------------------------------------------------------
(* The invariant and what follows from it                                  *)

\* Rosters, bills and rooms stay in order together.
THEOREM InductiveInvariant == Spec => []IInv
<1>1. Init => IInv
  BY InitIInv
<1>2. IInv /\ [Next]_vars => IInv'
  <2> SUFFICES ASSUME IInv, [Next]_vars PROVE IInv'
    OBVIOUS
  <2>1. CASE Next
    BY <2>1, StepKeepsRosters, StepKeepsBilling, StepKeepsRooms DEF IInv
  <2>2. CASE UNCHANGED vars
    <3>1. Rosters'
      BY <2>2 DEF IInv, vars, Rosters, RosterIsPaired, Roster, Assigned
    <3>2. Billing'
      BY <2>2 DEF IInv, vars, Billing, BilledAreCompleted
    <3>3. UNCHANGED <<occurrence, reservations>>
      BY <2>2 DEF vars
    <3>4. \A l \in Lessons : Held(l)' = Held(l)
      BY <3>3 DEF Held
    <3>5. OneRoomPerLesson'
      BY <3>3, <3>4 DEF IInv, Rooms, OneRoomPerLesson
    <3>6. Rooms'
      BY <3>3, <3>5 DEF IInv, Rooms, NoDoubleBooking
    <3> QED BY <3>1, <3>2, <3>6 DEF IInv
  <2> QED BY <2>1, <2>2
<1> QED BY <1>1, <1>2, PTL DEF Spec

\* Every table keeps the shape its columns promise.
THEOREM TypeCorrect == Spec => []TypeOK
<1>1. IInv => TypeOK
  BY DEF IInv, Rosters, Billing, Rooms, TypeOK
<1> QED BY <1>1, InductiveInvariant, PTL

\* update_lesson_day never meets a roster that its own form cannot match: who is
\* to be marked and who is assigned to the lesson are the same riders.
THEOREM RostersArePaired == Spec => []RosterIsPaired
<1>1. IInv => RosterIsPaired
  BY DEF IInv, Rosters
<1> QED BY <1>1, InductiveInvariant, PTL

\* Nobody pays twice, or for a lesson that was not completed.
THEOREM BilledStayCompleted == Spec => []BilledAreCompleted
<1>1. IInv => BilledAreCompleted
  BY DEF IInv, Billing
<1> QED BY <1>1, InductiveInvariant, PTL

\* A lesson never holds two rooms, nor a cancelled one any.
THEOREM LessonsHaveOneRoom == Spec => []OneRoomPerLesson
<1>1. IInv => OneRoomPerLesson
  BY DEF IInv, Rooms
<1> QED BY <1>1, InductiveInvariant, PTL

\* No space is promised twice for the same time.
THEOREM NeverDoubleBooked == Spec => []NoDoubleBooking
<1>1. IInv => NoDoubleBooking
  BY DEF IInv, Rooms
<1> QED BY <1>1, InductiveInvariant, PTL

\* A lesson that gets another time takes its room along.
THEOREM RoomsFollow == Spec => RoomFollowsLesson
<1>1. IInv /\ [Next]_vars =>
        [\A l \in Lessons : occurrence'[l].time # occurrence[l].time =>
            \A i \in DOMAIN reservations' :
                Live(reservations'[i]) /\ reservations'[i].lesson = l
                    => reservations'[i].time = occurrence'[l].time]_vars
  <2> SUFFICES ASSUME IInv, Next, NEW l \in Lessons, occurrence'[l].time # occurrence[l].time,
                      NEW i \in DOMAIN reservations',
                      Live(reservations'[i]), reservations'[i].lesson = l
               PROVE  reservations'[i].time = occurrence'[l].time
    OBVIOUS
  <2>1. i \in Held(l)'
    BY DEF Held
  <2> QED BY <2>1, StepKeepsRooms DEF IInv
<1> QED BY <1>1, InductiveInvariant, PTL DEF Spec, RoomFollowsLesson

-----------------------------------------------------------------------------
(* Who joins a lesson                                                      *)

\* Only riders of a lesson that is open are added, and none but the one who is
\* moved is taken in by a move.
LEMMA ClosedStepKeepsRoster ==
  ASSUME Rosters, Next, NEW x \in Lessons, Closed(occurrence[x]), Closed(occurrence'[x])
  PROVE  Roster(x)' = Roster(x)
<1>1. ASSUME NEW window \in SUBSET Lessons, Materialize(window) PROVE Roster(x)' = Roster(x)
  <2> DEFINE D == {l \in window : occurrence'[l].status = "scheduled"}
  <2>1. PICK enrolled \in [D -> SUBSET Riders] : AddToRosters(enrolled)
    BY <1>1 DEF Materialize
  <2>2. x \notin D
    BY DEF Closed
  <2>3. D \in SUBSET Lessons /\ UNCHANGED moves
    BY <1>1 DEF Materialize
  <2> HIDE DEF D
  <2> QED BY <2>1, <2>2, <2>3, AddKeepsRosters
<1>2. ASSUME NEW l \in Lessons, NEW enrolled \in SUBSET Riders, Prepare(l, enrolled, occurrence[l])
      PROVE  Roster(x)' = Roster(x)
  <2> DEFINE D == {l}
             all == [y \in D |-> enrolled]
  <2>1. AddToRosters(all) /\ UNCHANGED moves /\ Open(occurrence[l])
    BY <1>2 DEF Prepare
  <2>2. x \notin D
    BY <2>1 DEF Open, Closed
  <2>3. D \in SUBSET Lessons /\ all \in [D -> SUBSET Riders]
    OBVIOUS
  <2> HIDE DEF D, all
  <2> QED BY <2>1, <2>2, <2>3, AddKeepsRosters
<1>3. ASSUME NEW l \in Lessons, NEW to \in Lessons, NEW p \in Riders, NEW mark \in Marks,
             NEW kind \in {"move", "makeup"}, MayMove(l, to, p, occurrence[l], occurrence[to]),
             MoveRider(l, to, p, mark, kind)
      PROVE  Roster(x)' = Roster(x)
  <2>1. x # to
    BY <1>3 DEF MayMove, Open, Closed
  <2> QED BY <1>3, <2>1, MoveKeepsRosters
<1>4. ASSUME NEW l \in Lessons, NEW rows \in [Roster(l) -> Marks], UpdateLessonDay(l, rows)
      PROVE  Roster(x)' = Roster(x)
  <2>1. l # x
    BY <1>4 DEF UpdateLessonDay, Open, Closed
  <2>2. attendance'[x] = attendance[x]
    BY <1>4, <2>1 DEF UpdateLessonDay, Rosters
  <2> QED BY <2>2 DEF Roster
<1>5. ASSUME NEW l \in Lessons, NEW p \in Riders, NEW mark \in Marks, EditAttendance(l, p, mark)
      PROVE  Roster(x)' = Roster(x)
  <2>1. attendance' = [attendance EXCEPT ![l][p] = mark] /\ attendance[l][p] # "none"
    BY <1>5 DEF EditAttendance
  <2>2. mark # "none"
    BY LessonsAssumption DEF Statuses
  <2>3. \A q \in Riders : attendance'[x][q] = "none" <=> attendance[x][q] = "none"
    BY <2>1, <2>2 DEF Rosters
  <2> QED BY <2>3 DEF Roster
<1>6. ASSUME UNCHANGED attendance PROVE Roster(x)' = Roster(x)
  BY <1>6 DEF Roster
<1>7. ASSUME NEW l \in Lessons,
             \/ \E space \in Spaces : AssignRoom(l, space, occurrence[l])
             \/ ReleaseRoom(l)
      PROVE  Roster(x)' = Roster(x)
  BY <1>6, <1>7 DEF AssignRoom, ReleaseRoom
<1>8. ASSUME NEW l \in Lessons,
             \/ Complete(l)
             \/ Cancel(l, occurrence[l])
             \/ \E time \in Times : Reschedule(l, time, occurrence[l])
      PROVE  Roster(x)' = Roster(x)
  BY <1>6, <1>8 DEF Complete, Cancel, Reschedule
<1>9. ASSUME NEW l \in Lessons, NEW account \in Accounts, Bill(l, account, occurrence[l])
      PROVE  Roster(x)' = Roster(x)
  BY <1>6, <1>9 DEF Bill
<1>10. ASSUME NEW space \in Spaces, NEW time \in Times, Reserve(space, time)
       PROVE  Roster(x)' = Roster(x)
  BY <1>6, <1>10 DEF Reserve
<1>11. ASSUME NEW i \in DOMAIN reservations,
              CancelReservation(i) \/ \E time \in Times : EditReservation(i, time)
       PROVE  Roster(x)' = Roster(x)
  BY <1>6, <1>11 DEF EditReservation, CancelReservation
<1> QED
  BY <1>1, <1>2, <1>3, <1>4, <1>5, <1>7, <1>8, <1>9, <1>10, <1>11 DEF Next

\* Nobody joins a completed or cancelled lesson.
THEOREM ClosedRostersStay == Spec => ClosedRosterStays
<1>1. IInv /\ [Next]_vars =>
        [\A l \in Lessons : Closed(occurrence[l]) /\ Closed(occurrence'[l])
                               => Roster(l)' = Roster(l)]_vars
  BY ClosedStepKeepsRoster DEF IInv
<1> QED BY <1>1, InductiveInvariant, PTL DEF Spec, ClosedRosterStays

\* The destination of a move keeps within its capacity.
LEMMA MoveFits ==
  ASSUME Rosters, NEW from \in Lessons, NEW to \in Lessons, NEW p \in Riders,
         NEW mark \in Marks, NEW kind \in {"move", "makeup"},
         MayMove(from, to, p, occurrence[from], occurrence[to]),
         MoveRider(from, to, p, mark, kind)
  PROVE  Cardinality({q \in Riders : attendance'[to][q] \notin {"none", "excused"}}) <= Capacity
<1> DEFINE after == {q \in Riders : attendance'[to][q] \notin {"none", "excused"}}
           others == Others(to, p)
<1>1. IsFiniteSet(Riders) /\ Capacity \in Nat
  BY LessonsAssumption
<1>2. others \in SUBSET Riders
  BY DEF Others
<1>3. \A q \in Riders : q # p => attendance'[to][q] = attendance[to][q]
  BY MoveKeepsRosters
<1>4. after \subseteq others \union {p}
  BY <1>3 DEF Others
<1>5. Cardinality(others) < Capacity
  BY DEF MayMove
<1> HIDE DEF after, others
<1>6. IsFiniteSet(others) /\ Cardinality(others) \in Nat
  BY <1>1, <1>2, FS_Subset, FS_CardinalityType
<1>7. /\ IsFiniteSet(others \union {p})
      /\ Cardinality(others \union {p}) \in Nat
      /\ Cardinality(others \union {p}) <= Cardinality(others) + 1
  <2>1. /\ IsFiniteSet(others \union {p})
        /\ \/ Cardinality(others \union {p}) = Cardinality(others)
           \/ Cardinality(others \union {p}) = Cardinality(others) + 1
    BY <1>6, FS_AddElement
  <2> QED BY <1>6, <2>1
<1>8. Cardinality(after) \in Nat /\ Cardinality(after) <= Cardinality(others \union {p})
  BY <1>4, <1>7, FS_Subset, FS_CardinalityType
<1> QED BY <1>1, <1>5, <1>6, <1>7, <1>8 DEF after

\* Whatever enrollments and marks did before, a move leaves no more riders in a
\* lesson than it has places.
THEOREM MovesRespectCapacity == Spec => MovesFitCapacity
<1>1. IInv /\ [Next]_vars =>
        [\A m \in moves' \ moves :
            Cardinality({p \in Riders : attendance'[m.to][p] \notin {"none", "excused"}})
               <= Capacity]_vars
  <2> SUFFICES ASSUME IInv, Next, NEW m \in moves' \ moves
               PROVE  Cardinality({p \in Riders : attendance'[m.to][p] \notin {"none", "excused"}})
                         <= Capacity
    BY DEF vars
  <2>1. moves' # moves
    OBVIOUS
  <2>2. PICK from \in Lessons, to \in Lessons, p \in Riders, mark \in Marks,
             kind \in {"move", "makeup"} :
           /\ MayMove(from, to, p, occurrence[from], occurrence[to])
           /\ MoveRider(from, to, p, mark, kind)
    BY <2>1 DEF Next, Materialize, Prepare, UpdateLessonDay, EditAttendance, AssignRoom,
                ReleaseRoom, Complete, Cancel, Reschedule, Bill, Reserve, EditReservation,
                CancelReservation
  <2>3. m.to = to
    BY <2>2 DEF MoveRider
  <2> QED BY <2>2, <2>3, MoveFits DEF IInv
<1> QED BY <1>1, InductiveInvariant, PTL DEF Spec, MovesFitCapacity
=============================================================================
