----------------------------- MODULE MCLessons -----------------------------
(* Two lessons of a series, two riders with an account each, two rooms.     *)
EXTENDS Lessons, TLC

CONSTANTS l1, l2, p1, p2, a1, a2

MCTimes     == {<<0, 2>>, <<1, 3>>, <<2, 4>>}
MCRegular   == (l1 :> <<0, 2>> @@ l2 :> <<2, 4>>)
MCAccountOf == (p1 :> a1 @@ p2 :> a2)

\* Rooms and rosters meet only in the status and time of a lesson, so they are
\* not varied together.
RoomsOrRosters == reservations = <<>> \/ \A l \in Lessons : Roster(l) = {}
=============================================================================
