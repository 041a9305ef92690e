--------------------------- MODULE MCLessonsRace ---------------------------
(* One lesson and one rider are enough for a stale cancellation.            *)
EXTENDS LessonsRace, TLC

CONSTANTS l1, p1, a1

MCTimes     == {<<0, 2>>, <<1, 3>>}
MCRegular   == (l1 :> <<0, 2>>)
MCAccountOf == (p1 :> a1)
=============================================================================
