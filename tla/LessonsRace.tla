---------------------------- MODULE LessonsRace ----------------------------
(***************************************************************************)
(* The operations of Lessons as several workers run them.  A view loads    *)
(* the occurrences it is about, without a lock, and checks what it loaded; *)
(* by the time its transaction runs, other requests may have changed them. *)
(* The operations that lock the occurrence and read it again (lesson day,  *)
(* completion), or that look at no occurrence, are single steps.  So are   *)
(* the transactions: what may interleave inside them is left out.          *)
(***************************************************************************)
EXTENDS Naturals, Sequences, FiniteSets

CONSTANTS Workers, Lessons, Times, Regular, Riders, Capacity, Marks, Accounts,
          NoAccount, AccountOf, Spaces, NoLesson, MaxReservations

VARIABLES
    occurrence, attendance, assigned, moves, charges, reservations,
    job         \* worker -> the request it is serving

Serial == INSTANCE Lessons

tables == <<occurrence, attendance, assigned, moves, charges, reservations>>
vars   == <<tables, job>>

Idle == [op |-> "idle"]

Init ==
    /\ Serial!Init
    /\ job = [w \in Workers |-> Idle]

-----------------------------------------------------------------------------
\* Load an occurrence: _occurrence_for_team.
Load(w, op, l) ==
    /\ job[w] = Idle
    /\ occurrence[l].status # "none"
    /\ job' = [job EXCEPT ![w] = [op |-> op, lesson |-> l, seen |-> occurrence[l]]]
    /\ UNCHANGED tables

\* Load the two occurrences of a move and check them, the rider's attendance
\* and the capacity: everything move_lesson_participant does before atomic().
LoadMove(w, from, to, p) ==
    /\ job[w] = Idle
    /\ Serial!MayMove(from, to, p, occurrence[from], occurrence[to])
    /\ job' = [job EXCEPT ![w] = [op |-> "move", lesson |-> from, to |-> to, rider |-> p]]
    /\ UNCHANGED tables

\* The transaction, on what was loaded.  A refusal changes nothing.
Commit(w) ==
    LET l    == job[w].lesson
        seen == job[w].seen
    IN  /\ CASE job[w].op = "prepare" ->
                  \E enrolled \in SUBSET Riders : Serial!Prepare(l, enrolled, seen)
             [] job[w].op = "move" ->
                  \E mark \in Marks, kind \in {"move", "makeup"} :
                      Serial!MoveRider(l, job[w].to, job[w].rider, mark, kind)
             [] job[w].op = "assign" ->
                  \E space \in Spaces : Serial!AssignRoom(l, space, seen)
             [] job[w].op = "cancel" -> Serial!Cancel(l, seen)
             [] job[w].op = "reschedule" ->
                  \E time \in Times : Serial!Reschedule(l, time, seen)
             [] job[w].op = "bill" ->
                  \E account \in Accounts : Serial!Bill(l, account, seen)
             [] OTHER -> FALSE
        /\ job' = [job EXCEPT ![w] = Idle]

Refuse(w) ==
    /\ job[w] # Idle
    /\ job' = [job EXCEPT ![w] = Idle]
    /\ UNCHANGED tables

\* The operations that do not depend on a loaded occurrence.
Fresh ==
    /\ \/ \E window \in SUBSET Lessons : Serial!Materialize(window)
       \/ \E l \in Lessons :
             \/ \E rows \in [Serial!Roster(l) -> Marks] : Serial!UpdateLessonDay(l, rows)
             \/ \E p \in Riders, mark \in Marks : Serial!EditAttendance(l, p, mark)
             \/ Serial!ReleaseRoom(l)
             \/ Serial!Complete(l)
       \/ \E space \in Spaces, time \in Times : Serial!Reserve(space, time)
       \/ \E i \in DOMAIN reservations :
             \/ \E time \in Times : Serial!EditReservation(i, time)
             \/ Serial!CancelReservation(i)
    /\ UNCHANGED job

Next ==
    \/ Fresh
    \/ \E w \in Workers :
          \/ \E op \in {"prepare", "assign", "cancel", "reschedule", "bill"}, l \in Lessons :
                Load(w, op, l)
          \/ \E from, to \in Lessons, p \in Riders : LoadMove(w, from, to, p)
          \/ Commit(w)
          \/ Refuse(w)

Spec == Init /\ [][Next]_vars

-----------------------------------------------------------------------------
\* "A completed lesson occurrence cannot be cancelled", nor rescheduled: once
\* completed, an occurrence stays completed.  cancel_lesson_occurrence judges
\* by the occurrence it loaded and saves it whole.
CompletedIsFinal ==
    [][\A l \in Lessons :
          occurrence[l].status = "completed" => occurrence'[l].status = "completed"]_vars
=============================================================================
