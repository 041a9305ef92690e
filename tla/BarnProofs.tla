-------------------------- MODULE BarnProofs ------------------------------
(***************************************************************************)
(* Proofs about the barn, for any horses, papers, spaces, rows, workers    *)
(* and days.  Each part has an inductive invariant: the tables of stalls   *)
(* and bookings stay disjoint because one row is replaced by a row that    *)
(* was compared with the others or is shorter; the spaces stay a tree      *)
(* because no set of them holds all its parents; the device counts its     *)
(* failures and has one open shift a person; the papers of a horse are     *)
(* finitely many, so there is a latest one; finalizing a Hoofprint never   *)
(* skips a version.  The end puts the parts together as MCBarn does.       *)
(***************************************************************************)
EXTENDS MCBarn, LedgerSumsTheorems

\* Two intervals overlap in either order or in neither.
LEMMA OverlapSymmetric ==
  ASSUME NEW a, NEW b
  PROVE  Overlap(a, b) <=> Overlap(b, a)
  BY DEF Overlap

\* A stay that ends earlier than it did, or at last, meets no other stay it did not meet before.
LEMMA ShorterMeetsLess ==
  ASSUME NEW a \in Stall, NEW b \in Stall, NEW day \in FacilityDays,
         a.end = NoEnd \/ day < a.end,
         Overlap([a EXCEPT !.end = day], b)
  PROVE  Overlap(a, b)
  <1> day \in Nat /\ day # NoEnd
    BY FacilitiesAssumption DEF NoEnd
  <1> a.end \in Nat \cup {NoEnd} /\ b.start \in Nat /\ b.end \in Nat \cup {NoEnd} /\ a.start \in Nat
    BY FacilitiesAssumption DEF Stall
  <1>1. [a EXCEPT !.end = day].end = day /\ [a EXCEPT !.end = day].start = a.start
    BY DEF Stall
  <1> QED BY <1>1 DEF Overlap, NoEnd

\* A stay of which the end is set is a stay of the same horse in the same stall.
LEMMA EndedStall ==
  ASSUME NEW a \in Stall, NEW day \in FacilityDays
  PROVE  /\ [a EXCEPT !.end = day] \in Stall
         /\ [a EXCEPT !.end = day].id = a.id /\ [a EXCEPT !.end = day].horse = a.horse
         /\ [a EXCEPT !.end = day].space = a.space /\ [a EXCEPT !.end = day].start = a.start
         /\ [a EXCEPT !.end = day].end = day
  BY DEF Stall

-----------------------------------------------------------------------------
\* Every operation writes rows of its table.
LEMMA FacilitiesTypes == FacilitiesTypeOK /\ [FacilitiesNext]_facilityVars => FacilitiesTypeOK'
<1> SUFFICES ASSUME FacilitiesTypeOK, [FacilitiesNext]_facilityVars PROVE FacilitiesTypeOK'
  OBVIOUS
<1> USE DEF FacilitiesTypeOK, ById, Others
<1>1. ASSUME NEW s \in Space, FacilitySpaceSave(s) PROVE FacilitiesTypeOK'
  BY <1>1 DEF FacilitySpaceSave
<1>2. ASSUME NEW a \in Stall, StallAssignmentSave(a) PROVE FacilitiesTypeOK'
  BY <1>2 DEF StallAssignmentSave
<1>3. ASSUME NEW a \in stalls, StallAssignmentVacate(a) PROVE FacilitiesTypeOK'
  <2>1. a \in Stall /\ [a EXCEPT !.end = facilityDay] \in Stall
    BY EndedStall
  <2> QED BY <1>3, <2>1 DEF StallAssignmentVacate
<1>4. ASSUME NEW a \in stalls, NEW new \in Stall, StallAssignmentMove(a, new) PROVE FacilitiesTypeOK'
  <2>1. new.start \in FacilityDays
    BY DEF Stall
  <2>2. [a EXCEPT !.end = new.start] \in Stall
    BY <2>1, EndedStall
  <2> QED BY <1>4, <2>2 DEF StallAssignmentMove
<1>5. ASSUME NEW a \in Turnout, PastureAssignmentSave(a) PROVE FacilitiesTypeOK'
  BY <1>5 DEF PastureAssignmentSave
<1>6. ASSUME NEW a \in turnouts, PastureAssignmentEnd(a) PROVE FacilitiesTypeOK'
  <2>1. [a EXCEPT !.end = facilityDay] \in Turnout
    BY DEF Turnout
  <2> QED BY <1>6, <2>1 DEF PastureAssignmentEnd
<1>7. ASSUME NEW a \in turnouts, NEW new \in Turnout, PastureAssignmentMove(a, new) PROVE FacilitiesTypeOK'
  <2>1. [a EXCEPT !.end = new.start] \in Turnout
    BY DEF Turnout
  <2> QED BY <1>7, <2>1 DEF PastureAssignmentMove
<1>8. ASSUME NEW r \in Reservation, ReservationSave(r) PROVE FacilitiesTypeOK'
  BY <1>8 DEF ReservationSave
<1>9. ASSUME NEW r \in reservations, ReservationCancel(r) PROVE FacilitiesTypeOK'
  <2>1. [r EXCEPT !.cancelled = TRUE] \in Reservation
    BY DEF Reservation
  <2> QED BY <1>9, <2>1 DEF ReservationCancel
<1>10. CASE FacilityNextDay
  BY <1>10 DEF FacilityNextDay
<1>11. CASE UNCHANGED facilityVars
  BY <1>11 DEF facilityVars
<1> QED BY <1>1, <1>2, <1>3, <1>4, <1>5, <1>6, <1>7, <1>8, <1>9, <1>10, <1>11
        DEF FacilitiesNext, SpaceStep, StallStep, TurnoutStep, ReservationStep

\* Every table keeps its shape, for any constants.
THEOREM TypeCorrect == FacilitiesSpec => []FacilitiesTypeOK
<1>1. FacilitiesInit => FacilitiesTypeOK
  BY FacilitiesAssumption DEF FacilitiesInit, FacilitiesTypeOK
<1>2. FacilitiesTypeOK /\ [FacilitiesNext]_facilityVars => FacilitiesTypeOK'
  BY FacilitiesTypes
<1> QED BY <1>1, <1>2, PTL DEF FacilitiesSpec

-----------------------------------------------------------------------------
\* What stays true of the stalls when one row is replaced by rows that fit.
LEMMA ReplacedStall ==
  ASSUME NEW rows \in SUBSET Stall, NEW a \in Stall,
         \A b, c \in rows : (b.id # c.id /\ (b.horse = c.horse \/ b.space = c.space)) => ~Overlap(b, c),
         \A b \in Others(rows, a) : (b.horse = a.horse \/ b.space = a.space) => ~Overlap(a, b)
  PROVE  \A b, c \in ById(rows, a) : (b.id # c.id /\ (b.horse = c.horse \/ b.space = c.space)) => ~Overlap(b, c)
  BY OverlapSymmetric DEF ById, Others

\* Saving, vacating and moving compare a stay with the others, or make one shorter.
LEMMA StallsNext == FacilitiesTypeOK /\ StallsAreDisjoint /\ [FacilitiesNext]_facilityVars => StallsAreDisjoint'
<1> SUFFICES ASSUME FacilitiesTypeOK, StallsAreDisjoint, [FacilitiesNext]_facilityVars
             PROVE  StallsAreDisjoint'
  OBVIOUS
<1>0. stalls \in SUBSET Stall /\ facilityDay \in FacilityDays
  BY DEF FacilitiesTypeOK
<1>1. ASSUME NEW a \in Stall, StallAssignmentSave(a) PROVE StallsAreDisjoint'
  BY <1>0, <1>1, ReplacedStall DEF StallAssignmentSave, StallFits, StallsAreDisjoint
<1>2. ASSUME NEW a \in stalls, StallAssignmentVacate(a) PROVE StallsAreDisjoint'
  <2> DEFINE ended == [a EXCEPT !.end = facilityDay]
  <2>1. ended \in Stall /\ ended.id = a.id /\ ended.horse = a.horse /\ ended.space = a.space
    BY <1>0, EndedStall
  <2>2. a.end = NoEnd \/ facilityDay < a.end
    BY <1>2 DEF StallAssignmentVacate, Current
  <2>3. ASSUME NEW b \in Others(stalls, ended), b.horse = ended.horse \/ b.space = ended.space
        PROVE  ~Overlap(ended, b)
    <3>1. b \in stalls /\ b \in Stall /\ b.id # a.id /\ (b.horse = a.horse \/ b.space = a.space)
      BY <1>0, <2>1, <2>3 DEF Others
    <3>2. ~Overlap(a, b)
      BY <3>1 DEF StallsAreDisjoint
    <3> QED BY <1>0, <2>2, <3>1, <3>2, ShorterMeetsLess
  <2>4. stalls' = ById(stalls, ended)
    BY <1>2, <2>1 DEF StallAssignmentVacate, ById, Others
  <2> HIDE DEF ended
  <2> QED BY <1>0, <2>1, <2>3, <2>4, ReplacedStall DEF StallsAreDisjoint
<1>3. ASSUME NEW a \in stalls, NEW new \in Stall, StallAssignmentMove(a, new) PROVE StallsAreDisjoint'
  <2> DEFINE ended == [a EXCEPT !.end = new.start]
  <2>0. new.start \in FacilityDays /\ new.start \in Nat
    BY FacilitiesAssumption DEF Stall
  <2>1. ended \in Stall /\ ended.id = a.id /\ ended.end = new.start
    BY <1>0, <2>0, EndedStall
  <2>2. ~Overlap(ended, new)
    BY <2>0, <2>1 DEF Overlap, NoEnd
  <2>3. \A b \in Others(stalls, a) : (b.horse = ended.horse \/ b.space = ended.space) => ~Overlap(ended, b)
    BY <1>3, <2>1 DEF StallAssignmentMove, StallFits, Others
  <2>4. \A b \in Others(stalls, a) : (b.horse = new.horse \/ b.space = new.space) => ~Overlap(new, b)
    BY <1>3 DEF StallAssignmentMove, StallFits, Others, NewIn
  <2>5. stalls' = Others(stalls, a) \cup {ended, new}
    BY <1>3 DEF StallAssignmentMove
  <2> HIDE DEF ended
  <2>6. \A b, c \in Others(stalls, a) : (b.id # c.id /\ (b.horse = c.horse \/ b.space = c.space)) => ~Overlap(b, c)
    BY DEF StallsAreDisjoint, Others
  <2> QED BY <2>2, <2>3, <2>4, <2>5, <2>6, OverlapSymmetric DEF StallsAreDisjoint
<1>4. CASE UNCHANGED stalls
  BY <1>4 DEF StallsAreDisjoint
<1>5. ASSUME SpaceStep \/ TurnoutStep \/ ReservationStep \/ FacilityNextDay \/ UNCHANGED facilityVars
      PROVE  UNCHANGED stalls
  BY <1>5 DEF SpaceStep, TurnoutStep, ReservationStep, FacilityNextDay, FacilitySpaceSave, PastureAssignmentSave,
     PastureAssignmentEnd, PastureAssignmentMove, ReservationSave, ReservationCancel, facilityVars
<1> QED BY <1>1, <1>2, <1>3, <1>4, <1>5 DEF FacilitiesNext, StallStep

\* Saving, vacating and moving keep stalls apart (stall_assignment_create, _edit, _vacate, _move):
\* two horses never share a stall and no horse has two, on any day.
THEOREM StallsStayDisjoint == FacilitiesSpec => []StallsAreDisjoint
<1>1. FacilitiesInit => StallsAreDisjoint
  BY DEF FacilitiesInit, StallsAreDisjoint
<1>2. FacilitiesTypeOK /\ StallsAreDisjoint /\ [FacilitiesNext]_facilityVars => StallsAreDisjoint'
  BY StallsNext
<1> QED BY <1>1, <1>2, TypeCorrect, PTL DEF FacilitiesSpec

-----------------------------------------------------------------------------
\* A booking is compared with those that stand.
LEMMA ReservationsNext == FacilitiesTypeOK /\ ReservationsAreDisjoint /\ [FacilitiesNext]_facilityVars => ReservationsAreDisjoint'
<1> SUFFICES ASSUME FacilitiesTypeOK, ReservationsAreDisjoint, [FacilitiesNext]_facilityVars
             PROVE  ReservationsAreDisjoint'
  OBVIOUS
<1>1. ASSUME NEW r \in Reservation, ReservationSave(r) PROVE ReservationsAreDisjoint'
  <2>1. \A b \in Others(reservations, r) : (b.space = r.space /\ ~b.cancelled) => ~Meet(r, b) /\ ~Meet(b, r)
    BY <1>1 DEF ReservationSave, ReservationFits, Meet
  <2>2. reservations' = Others(reservations, r) \cup {r}
    BY <1>1 DEF ReservationSave, ById
  <2> QED BY <2>1, <2>2 DEF ReservationsAreDisjoint, Others
<1>2. ASSUME NEW r \in reservations, ReservationCancel(r) PROVE ReservationsAreDisjoint'
  <2>1. r \in Reservation
    BY DEF FacilitiesTypeOK
  <2>2. [r EXCEPT !.cancelled = TRUE].cancelled
    BY <2>1 DEF Reservation
  <2>3. reservations' \subseteq reservations \cup {[r EXCEPT !.cancelled = TRUE]}
    BY <1>2 DEF ReservationCancel, ById, Others
  <2> QED BY <2>2, <2>3 DEF ReservationsAreDisjoint
<1>3. CASE UNCHANGED reservations
  BY <1>3 DEF ReservationsAreDisjoint
<1>4. ASSUME SpaceStep \/ StallStep \/ TurnoutStep \/ UNCHANGED facilityVars
      PROVE  UNCHANGED reservations
  BY <1>4 DEF SpaceStep, StallStep, TurnoutStep, FacilityNextDay, FacilitySpaceSave, StallAssignmentSave,
     StallAssignmentVacate, StallAssignmentMove, PastureAssignmentSave, PastureAssignmentEnd, PastureAssignmentMove, facilityVars
<1> QED BY <1>1, <1>2, <1>3, <1>4 DEF FacilitiesNext, ReservationStep

\* Whatever is booked, edited and cancelled, the bookings of a space that stand do not overlap.
THEOREM ReservationsStayDisjoint == FacilitiesSpec => []ReservationsAreDisjoint
<1>1. FacilitiesInit => ReservationsAreDisjoint
  BY DEF FacilitiesInit, ReservationsAreDisjoint
<1>2. FacilitiesTypeOK /\ ReservationsAreDisjoint /\ [FacilitiesNext]_facilityVars => ReservationsAreDisjoint'
  BY ReservationsNext
<1> QED BY <1>1, <1>2, TypeCorrect, PTL DEF FacilitiesSpec
-----------------------------------------------------------------------------
(*-------------------------- the tree of spaces ---------------------------*)
\* g holds the ids of s and of what lies up to 0, 1, ..., n levels above it.
IsUp(g, s, n) ==
  g = [m \in 0..n |-> IF m = 0 THEN {s.id} ELSE g[m - 1] \cup {t.parent : t \in {t \in spaces : t.id \in g[m - 1]}}]

\* The recursive function of Ancestors has a solution, up to any level.
LEMMA UpExists ==
  ASSUME NEW s
  PROVE  \A n \in Nat : \E g : IsUp(g, s, n)
<1> DEFINE S == {m \in Nat : \E g : IsUp(g, s, m)}
           Above(T) == T \cup {t.parent : t \in {t \in spaces : t.id \in T}}
<1>1. 0 \in S
  <2>1. IsUp([i \in 0..0 |-> {s.id}], s, 0)
    BY DEF IsUp
  <2> QED BY <2>1
<1>2. ASSUME NEW m \in Nat, m \in S PROVE m + 1 \in S
  <2>1. PICK g : IsUp(g, s, m)
    BY <1>2
  <2> DEFINE h == [i \in 0..(m + 1) |-> IF i = m + 1 THEN Above(g[m]) ELSE g[i]]
  <2>2. ASSUME NEW i \in 0..(m + 1) PROVE h[i] = IF i = 0 THEN {s.id} ELSE Above(h[i - 1])
    <3>1. CASE i = m + 1
      <4>1. i # 0 /\ h[i] = Above(g[m]) /\ h[i - 1] = g[m]
        BY <3>1
      <4> HIDE DEF h, Above
      <4> QED BY <4>1
    <3>2. CASE i # m + 1
      <4>1. i \in 0..m /\ h[i] = g[i] /\ (i # 0 => h[i - 1] = g[i - 1])
        BY <3>2
      <4> QED BY <2>1, <4>1 DEF IsUp
    <3> QED BY <3>1, <3>2
  <2>3. h = [i \in 0..(m + 1) |-> h[i]]
    OBVIOUS
  <2> HIDE DEF h
  <2>4. IsUp(h, s, m + 1)
    BY <2>2, <2>3 DEF IsUp
  <2> QED BY <2>4
<1> HIDE DEF S
<1>3. Nat \subseteq S
  BY <1>1, <1>2, NatSetInduction
<1> QED BY <1>3 DEF S

\* The ids of a set hold the parents of their spaces.
HoldsParents(ids) == \A t \in spaces : t.id \in ids => t.parent \in ids

\* Going up as many levels as there are ids finds every space above: the set of ids found grows at every level
\* until it holds the parents of its spaces.
LEMMA AncestorsHoldParents ==
  ASSUME FacilitiesTypeOK, NEW s \in Space
  PROVE  /\ s.id \in Ancestors(s)
         /\ \A t \in spaces : (t.id \in Ancestors(s) /\ t.parent # NoParent) => t.parent \in Ancestors(s)
<1> DEFINE K == Cardinality(SpaceIds)
           X == SpaceIds \cup {NoParent}
           g == CHOOSE g : IsUp(g, s, K)
<1>0. /\ K \in Nat /\ IsFiniteSet(X) /\ Cardinality(X) = K + 1
      /\ s.id \in SpaceIds /\ \A t \in spaces : t.id \in SpaceIds /\ t.parent \in X
  BY FacilitiesAssumption, FS_CardinalityType, FS_AddElement DEF FacilitiesTypeOK, Space
<1>1. IsUp(g, s, K)
  BY <1>0, UpExists, Zenon
<1>2. Ancestors(s) = g[K] \ {NoParent}
  BY DEF Ancestors, IsUp
<1> HIDE DEF g
<1>3. g[0] = {s.id}
  BY <1>0, <1>1 DEF IsUp
<1>4. ASSUME NEW m \in Nat, m < K
      PROVE  g[m + 1] = g[m] \cup {t.parent : t \in {t \in spaces : t.id \in g[m]}}
  <2>1. m + 1 \in 0..K /\ m + 1 # 0 /\ (m + 1) - 1 = m
    BY <1>0, <1>4
  <2> HIDE DEF K
  <2> QED BY <1>1, <2>1 DEF IsUp
<1> DEFINE S == {m \in Nat : m <= K => /\ s.id \in g[m] /\ g[m] \subseteq X
                                       /\ Cardinality(g[m]) >= m + 1 \/ HoldsParents(g[m])}
<1>5. 0 \in S
  <2>1. Cardinality(g[0]) = 1 /\ g[0] \subseteq X /\ s.id \in g[0]
    BY <1>0, <1>3, FS_Singleton
  <2> QED BY <2>1
<1>6. ASSUME NEW m \in Nat, m \in S PROVE m + 1 \in S
  <2> SUFFICES ASSUME m + 1 <= K
               PROVE  /\ s.id \in g[m + 1] /\ g[m + 1] \subseteq X
                      /\ Cardinality(g[m + 1]) >= (m + 1) + 1 \/ HoldsParents(g[m + 1])
    OBVIOUS
  <2>0. m < K /\ m <= K
    BY <1>0
  <2>1. s.id \in g[m] /\ g[m] \subseteq X /\ (Cardinality(g[m]) >= m + 1 \/ HoldsParents(g[m]))
    BY <1>6, <2>0
  <2>2. g[m + 1] = g[m] \cup {t.parent : t \in {t \in spaces : t.id \in g[m]}}
    BY <1>4, <2>0
  <2>3. g[m] \subseteq g[m + 1] /\ g[m + 1] \subseteq X
    BY <1>0, <2>1, <2>2
  <2>4. CASE HoldsParents(g[m])
    <3>1. g[m + 1] = g[m]
      BY <2>2, <2>4 DEF HoldsParents
    <3> QED BY <2>1, <2>4, <3>1
  <2>5. CASE ~HoldsParents(g[m])
    <3>1. g[m + 1] # g[m]
      BY <2>2, <2>5 DEF HoldsParents
    <3>2. IsFiniteSet(g[m + 1]) /\ IsFiniteSet(g[m]) /\ Cardinality(g[m + 1]) \in Nat /\ Cardinality(g[m]) \in Nat
      BY <1>0, <2>1, <2>3, FS_Subset, FS_CardinalityType
    <3>3. Cardinality(g[m]) <= Cardinality(g[m + 1]) /\ Cardinality(g[m]) # Cardinality(g[m + 1])
      BY <2>3, <3>1, <3>2, FS_Subset
    <3> QED BY <2>1, <2>3, <2>5, <3>2, <3>3
  <2> QED BY <2>4, <2>5
<1> HIDE DEF S
<1>7. Nat \subseteq S
  BY <1>5, <1>6, NatSetInduction
<1>8. s.id \in g[K] /\ g[K] \subseteq X /\ (Cardinality(g[K]) >= K + 1 \/ HoldsParents(g[K]))
  BY <1>0, <1>7 DEF S
<1>9. HoldsParents(g[K])
  <2>1. IsFiniteSet(g[K]) /\ Cardinality(g[K]) \in Nat /\ Cardinality(g[K]) <= Cardinality(X)
    BY <1>0, <1>8, FS_Subset, FS_CardinalityType
  <2>2. Cardinality(g[K]) >= K + 1 => g[K] = X
    BY <1>0, <1>8, <2>1, FS_Subset
  <2> QED BY <1>0, <1>8, <2>2 DEF HoldsParents
<1>10. s.id # NoParent
  BY <1>0, FacilitiesAssumption
<1> QED BY <1>2, <1>8, <1>9, <1>10 DEF HoldsParents

\* A parent is a space of the facility, and no set of spaces holds the parents of all its members.
ParentsExist == \A t \in spaces : t.parent # NoParent => \E u \in spaces : u.id = t.parent
NoCycle == \A C \in SUBSET spaces : C # {} => \E t \in C : \A u \in C : u.id # t.parent

\* Then whoever goes up arrives at the top.
LEMMA TreeFollows ==
  ASSUME FacilitiesTypeOK, ParentsExist, NoCycle
  PROVE  SpacesFormATree
<1> SUFFICES ASSUME NEW s \in spaces PROVE \E t \in spaces : t.parent = NoParent /\ t.id \in Ancestors(s)
  BY DEF SpacesFormATree
<1> DEFINE A == {t \in spaces : t.id \in Ancestors(s)}
<1>1. s \in Space
  BY DEF FacilitiesTypeOK
<1>2. s \in A
  BY <1>1, AncestorsHoldParents
<1>3. PICK t \in A : \A u \in A : u.id # t.parent
  BY <1>2 DEF NoCycle
<1>4. t.parent = NoParent
  <2> SUFFICES ASSUME t.parent # NoParent PROVE FALSE
    OBVIOUS
  <2>1. PICK u \in spaces : u.id = t.parent
    BY DEF ParentsExist
  <2>2. u \in A
    BY <1>1, <2>1, AncestorsHoldParents
  <2> QED BY <1>3, <2>1, <2>2
<1> QED BY <1>4

\* A space that hangs below nothing under it closes no cycle.
LEMMA SpaceSaved ==
  ASSUME FacilitiesTypeOK, ParentsExist, NoCycle, NEW s \in Space, FacilitySpaceSave(s)
  PROVE  ParentsExist' /\ NoCycle'
<1>1. spaces' = {t \in spaces : t.id # s.id} \cup {s}
  BY DEF FacilitySpaceSave, ById, Others
<1>2. s.parent # NoParent => /\ s.parent # s.id /\ Parent(s) # {}
                             /\ \A u \in Parent(s) : s.id \notin Ancestors(u)
  BY DEF FacilitySpaceSave, FitsTree
<1>3. ParentsExist'
  <2> SUFFICES ASSUME NEW t \in spaces', t.parent # NoParent PROVE \E u \in spaces' : u.id = t.parent
    BY DEF ParentsExist
  <2>1. CASE t = s
    <3>1. PICK u \in spaces : u.id = s.parent
      BY <1>2, <2>1 DEF Parent
    <3> QED BY <1>1, <1>2, <2>1, <3>1
  <2>2. CASE t # s
    <3>1. PICK u \in spaces : u.id = t.parent
      BY <1>1, <2>2 DEF ParentsExist
    <3> QED BY <1>1, <3>1
  <2> QED BY <2>1, <2>2
<1>4. NoCycle'
  <2> SUFFICES ASSUME NEW C \in SUBSET spaces', C # {}, \A t \in C : \E u \in C : u.id = t.parent
               PROVE  FALSE
    BY DEF NoCycle
  <2>1. CASE s \notin C
    <3>1. C \in SUBSET spaces
      BY <1>1, <2>1
    <3> QED BY <3>1 DEF NoCycle
  <2>2. CASE s \in C
    <3>1. PICK u \in C : u.id = s.parent
      BY <2>2
    <3>2. u \in Space /\ u.id # NoParent
      <4>1. u \in Space
        BY <1>1 DEF FacilitiesTypeOK
      <4> QED BY <4>1, FacilitiesAssumption DEF Space
    <3>3. u # s /\ u \in spaces /\ s.id \notin Ancestors(u)
      BY <1>1, <1>2, <3>1, <3>2 DEF Parent
    <3> DEFINE D == {t \in C : t # s /\ t.id \in Ancestors(u)}
    <3>4. u \in D
      BY <3>2, <3>3, AncestorsHoldParents
    <3>5. D \in SUBSET spaces
      BY <1>1
    <3>6. PICK t \in D : \A v \in D : v.id # t.parent
      BY <3>4, <3>5 DEF NoCycle
    <3>7. PICK v \in C : v.id = t.parent
      BY <3>6
    <3>8. v.id # NoParent
      <4>1. v \in Space
        BY <1>1 DEF FacilitiesTypeOK
      <4> QED BY <4>1, FacilitiesAssumption DEF Space
    <3>9. v.id \in Ancestors(u)
      BY <3>2, <3>5, <3>6, <3>7, <3>8, AncestorsHoldParents
    <3>10. v \in D
      BY <3>3, <3>7, <3>9
    <3> QED BY <3>6, <3>7, <3>10
  <2> QED BY <2>1, <2>2
<1> QED BY <1>3, <1>4

\* Every other operation leaves the spaces alone.
LEMMA TreeNext ==
  ASSUME FacilitiesTypeOK, ParentsExist, NoCycle, [FacilitiesNext]_facilityVars
  PROVE  ParentsExist' /\ NoCycle'
<1>1. ASSUME NEW s \in Space, FacilitySpaceSave(s) PROVE ParentsExist' /\ NoCycle'
  BY <1>1, SpaceSaved
<1>2. ASSUME StallStep \/ TurnoutStep \/ ReservationStep \/ UNCHANGED facilityVars PROVE UNCHANGED spaces
  BY <1>2 DEF StallStep, TurnoutStep, ReservationStep, FacilityNextDay, StallAssignmentSave, StallAssignmentVacate,
     StallAssignmentMove, PastureAssignmentSave, PastureAssignmentEnd, PastureAssignmentMove, ReservationSave,
     ReservationCancel, facilityVars
<1>3. UNCHANGED spaces => ParentsExist' /\ NoCycle'
  BY DEF ParentsExist, NoCycle
<1> QED BY <1>1, <1>2, <1>3 DEF FacilitiesNext, SpaceStep

\* The top has no parent.
LEMMA TreeInit == FacilitiesInit => ParentsExist /\ NoCycle
<1> SUFFICES ASSUME FacilitiesInit PROVE ParentsExist /\ NoCycle
  OBVIOUS
<1>1. \A s \in spaces : s.parent = NoParent /\ s.id # NoParent
  BY FacilitiesAssumption DEF FacilitiesInit, Space
<1> QED BY <1>1 DEF ParentsExist, NoCycle

\* facility_space_create and facility_space_edit keep the spaces a tree, for any spaces, saved in any order.
THEOREM SpacesStayATree == FacilitiesSpec => []SpacesFormATree
<1>1. FacilitiesInit => FacilitiesTypeOK /\ ParentsExist /\ NoCycle
  BY TreeInit, FacilitiesAssumption DEF FacilitiesInit, FacilitiesTypeOK
<1>2. (FacilitiesTypeOK /\ ParentsExist /\ NoCycle) /\ [FacilitiesNext]_facilityVars
        => (FacilitiesTypeOK /\ ParentsExist /\ NoCycle)'
  BY FacilitiesTypes, TreeNext
<1>3. FacilitiesTypeOK /\ ParentsExist /\ NoCycle => SpacesFormATree
  BY TreeFollows
<1> QED BY <1>1, <1>2, <1>3, PTL DEF FacilitiesSpec
-----------------------------------------------------------------------------
(*--------------------------- the shared device ---------------------------*)
\* A person has one open shift, failures are counted up to MaxTries and then lock, and an account has one credit for
\* a shift under a rule.  That the shifts are finite gives OneOpenShift its count.
OpenOnce  == \A s, t \in shifts : (s.person = t.person /\ IsOpen(s) /\ IsOpen(t)) => s = t
TriesLock == \A w \in Workers : station.tries[w].until = Never => station.tries[w].count < MaxTries
StationInv == StationTypeOK /\ IsFiniteSet(shifts) /\ OpenOnce /\ TriesLock /\ OneCreditPerRule

\* The device starts unbound, among shifts of which a person has one open.
LEMMA StationInitInv == StationInit => StationInv
<1> SUFFICES ASSUME StationInit PROVE StationInv
  OBVIOUS
<1> USE DEF StationInit
<1>1. NoTries \in Tries
  BY StationAssumption DEF NoTries, Tries
<1>2. Unbound \in Session
  BY <1>1, StationAssumption DEF Unbound, Session
<1>3. StationTypeOK
  BY <1>2, StationAssumption DEF StationTypeOK
<1>4. IsFiniteSet(shifts) /\ OpenOnce
  BY StationAssumption DEF OpenOnce, IsOpen
<1>5. TriesLock /\ OneCreditPerRule
  BY StationAssumption DEF TriesLock, OneCreditPerRule, Unbound, NoTries
<1> QED BY <1>3, <1>4, <1>5 DEF StationInv

\* What the pages write into the browser session.
LEMMA SessionLeft ==
  ASSUME NEW st \in Session
  PROVE  /\ [st EXCEPT !.person = NoOne] \in Session /\ [st EXCEPT !.person = NoOne].person = NoOne
         /\ [st EXCEPT !.person = NoOne].tries = st.tries
BY DEF Session

\* Binding a session and losing its device leave its person and failures.
LEMMA SessionBound ==
  ASSUME NEW st \in Session, NEW b \in BOOLEAN
  PROVE  /\ [st EXCEPT !.bound = b] \in Session /\ [st EXCEPT !.bound = b].person = st.person
         /\ [st EXCEPT !.bound = b].tries = st.tries
BY DEF Session

\* A failure is written for one worker and leaves the person.
LEMMA SessionTried ==
  ASSUME NEW st \in Session, NEW w \in Workers, NEW try \in Tries
  PROVE  /\ [st EXCEPT !.tries[w] = try] \in Session /\ [st EXCEPT !.tries[w] = try].person = st.person
         /\ [st EXCEPT !.tries[w] = try].tries = [st.tries EXCEPT ![w] = try]
BY DEF Session

\* A wrong PIN counts, and locks at the last try.
LEMMA WrongCounts ==
  ASSUME StationTypeOK, TriesLock, NEW w \in Workers, ~Locked(w)
  PROVE  LET count == Unlocked(w).count + 1
             try   == [count |-> count, until |-> IF count >= MaxTries THEN time + LockSeconds ELSE Never]
         IN  try \in Tries /\ (try.until = Never => try.count < MaxTries)
<1> DEFINE count == Unlocked(w).count + 1
           try   == [count |-> count, until |-> IF count >= MaxTries THEN time + LockSeconds ELSE Never]
<1>1. station.tries[w] \in Tries /\ time \in Nat
  BY StationAssumption DEF StationTypeOK, Session
<1>2. Unlocked(w).count \in Nat /\ Unlocked(w).count + 1 <= MaxTries
  BY <1>1, StationAssumption DEF Unlocked, NoTries, TriesLock, Locked, Tries
<1>3. count \in 0..MaxTries /\ time + LockSeconds \in Nat /\ time + LockSeconds # Never
  BY <1>1, <1>2, StationAssumption DEF Never
<1> HIDE DEF count
<1>4. try \in Tries /\ (try.until = Never => try.count < MaxTries)
  BY <1>3, StationAssumption DEF Tries
<1> QED BY <1>4 DEF count

\* Moving the session leaves the shifts and credits alone and the tries in order.
LEMMA DeviceSession ==
  ASSUME StationInv, OnlySession, station' \in Session, TriesLock'
  PROVE  StationInv'
BY DEF StationInv, OnlySession, StationTypeOK, OpenOnce, OneCreditPerRule, IsOpen

\* Every request at the device keeps the invariant of the station.
LEMMA DeviceStepInv ==
  ASSUME StationInv, DeviceStep
  PROVE  StationInv'
<1>0. StationTypeOK /\ TriesLock /\ station \in Session /\ time \in 0..MaxTime /\ NoTries \in Tries /\ IsFiniteSet(shifts)
  BY StationAssumption DEF StationInv, StationTypeOK, NoTries, Tries
<1>00. \A w \in Workers : station.tries[w] \in Tries
  BY <1>0 DEF Session
<1>1. CASE StationActivate
  <2>1. station' = [Cleared EXCEPT !.bound = TRUE] /\ OnlySession
    BY <1>1 DEF StationActivate
  <2>2. Cleared \in Session /\ Cleared.tries = station.tries
    BY <1>0, SessionLeft DEF Cleared
  <2> HIDE DEF Cleared
  <2>3. station' \in Session /\ station'.tries = station.tries
    BY <2>1, <2>2, SessionBound
  <2>4. TriesLock'
    BY <1>0, <2>3 DEF TriesLock
  <2> QED BY <2>1, <2>3, <2>4, DeviceSession
<1>2. CASE StationDeactivate
  <2>1. station' = Unbound /\ OnlySession
    BY <1>2 DEF StationDeactivate
  <2>2. Unbound \in Session
    BY <1>0, StationAssumption DEF Unbound, Session
  <2>3. TriesLock'
    BY <2>1, StationAssumption DEF TriesLock, Unbound, NoTries
  <2> QED BY <2>1, <2>2, <2>3, DeviceSession
<1>3. CASE StationLost
  <2>1. OnlySession /\ station' \in Session /\ station'.tries = station.tries
    BY <1>0, <1>3, SessionBound DEF StationLost, Cleared
  <2>2. TriesLock'
    BY <1>0, <2>1 DEF TriesLock
  <2> QED BY <2>1, <2>2, DeviceSession
<1>4. CASE StationHome
  <2>1. OnlySession /\ station' \in Session /\ station'.tries = station.tries
    BY <1>0, <1>4, SessionLeft DEF StationHome, Cleared
  <2>2. TriesLock'
    BY <1>0, <2>1 DEF TriesLock
  <2> QED BY <2>1, <2>2, DeviceSession
<1>5. ASSUME NEW w \in Workers, StationIdentifyRight(w) PROVE StationInv'
  <2> DEFINE st == [station EXCEPT !.person = w, !.since = time, !.tries[w] = NoTries]
  <2>0. OnlySession /\ station' = st
    BY <1>5 DEF StationIdentifyRight
  <2>00. st \in Session /\ st.tries = [station.tries EXCEPT ![w] = NoTries]
    BY <1>0 DEF Session
  <2>1. OnlySession /\ station' \in Session /\ station'.tries = [station.tries EXCEPT ![w] = NoTries]
    BY <2>0, <2>00, Zenon
  <2>2. TriesLock'
    BY <1>0, <2>1, StationAssumption DEF TriesLock, Session, NoTries
  <2> QED BY <2>1, <2>2, DeviceSession
<1>6. ASSUME NEW w \in Workers, StationIdentifyWrong(w) PROVE StationInv'
  <2> DEFINE count == Unlocked(w).count + 1
             try   == [count |-> count, until |-> IF count >= MaxTries THEN time + LockSeconds ELSE Never]
  <2>1. OnlySession /\ ~Locked(w) /\ station' = [station EXCEPT !.tries[w] = try]
    BY <1>6 DEF StationIdentifyWrong
  <2>2. try \in Tries /\ (try.until = Never => try.count < MaxTries)
    BY <1>0, <2>1, WrongCounts
  <2> HIDE DEF try
  <2>3. station' \in Session /\ station'.tries = [station.tries EXCEPT ![w] = try]
    BY <1>0, <2>1, <2>2, SessionTried
  <2>4. TriesLock'
    BY <1>0, <2>2, <2>3 DEF TriesLock, Session
  <2> QED BY <2>1, <2>3, <2>4, DeviceSession
<1>7. ASSUME NEW w \in Workers, NEW b \in BOOLEAN, StationPersonPin(w, b) PROVE StationInv'
  BY <1>7 DEF StationPersonPin, StationInv, StationTypeOK, OpenOnce, OneCreditPerRule, IsOpen, TriesLock
<1>8. ASSUME NEW id \in ShiftIds, NEW role \in WorkRoles, StationClockIn(id, role) PROVE StationInv'
  <2> DEFINE new == [id |-> id, person |-> station.person, role |-> role, in |-> time, out |-> Never, approved |-> FALSE]
  <2>1. /\ shifts' = shifts \cup {new} /\ station' = Cleared /\ OpenShifts(station.person) = {}
        /\ UNCHANGED <<time, deviceActive, pins, rules, payer, credits>> /\ station.person # NoOne
    BY <1>8 DEF StationClockIn, After, Identified
  <2>2. new \in Shift /\ new.person = station.person
    BY <1>0, <2>1 DEF Shift, Session
  <2> HIDE DEF new
  <2>3. station' \in Session /\ station'.tries = station.tries
    BY <1>0, <2>1, <2>2, SessionLeft DEF Cleared, Shift
  <2>4. IsFiniteSet(shifts')
    BY <1>0, <2>1, FS_AddElement
  <2>5. OpenOnce'
    BY <2>1, <2>2 DEF StationInv, OpenOnce, OpenShifts, IsOpen
  <2>6. StationTypeOK' /\ TriesLock' /\ OneCreditPerRule'
    BY <1>0, <2>1, <2>2, <2>3 DEF StationInv, StationTypeOK, TriesLock, OneCreditPerRule
  <2> QED BY <2>4, <2>5, <2>6 DEF StationInv
<1>9. ASSUME NEW s \in shifts, StationClockOut(s) PROVE StationInv'
  <2> DEFINE new == [s EXCEPT !.out = time]
  <2>1. /\ shifts' = (shifts \ {s}) \cup {new} /\ station' = Cleared
        /\ UNCHANGED <<time, deviceActive, pins, rules, payer, credits>>
    BY <1>9 DEF StationClockOut, After, Replace
  <2>2. s \in Shift /\ s.person \in Workers
    BY <1>0 DEF StationTypeOK, Shift
  <2>3. new \in Shift /\ new.out = time /\ time # Never
    BY <1>0, <2>2, StationAssumption DEF Shift, Never
  <2> HIDE DEF new
  <2>4. station' \in Session /\ station'.tries = station.tries
    BY <1>0, <2>1, <2>2, SessionLeft DEF Cleared
  <2>5. IsFiniteSet(shifts')
    BY <1>0, <2>1, FS_AddElement, FS_RemoveElement
  <2>6. OpenOnce'
    BY <2>1, <2>3 DEF StationInv, OpenOnce, IsOpen
  <2>7. StationTypeOK' /\ TriesLock' /\ OneCreditPerRule'
    BY <1>0, <2>1, <2>3, <2>4 DEF StationInv, StationTypeOK, TriesLock, OneCreditPerRule
  <2> QED BY <2>5, <2>6, <2>7 DEF StationInv
<1>10. ASSUME NEW b \in BOOLEAN, StationDeviceEdit(b) PROVE StationInv'
  BY <1>10 DEF StationDeviceEdit, StationInv, StationTypeOK, OpenOnce, OneCreditPerRule, IsOpen, TriesLock
<1>11. CASE Tick
  <2>1. time' \in 0..MaxTime
    BY <1>0, <1>11, StationAssumption DEF Tick
  <2> QED BY <1>11, <2>1 DEF Tick, StationInv, StationTypeOK, OpenOnce, OneCreditPerRule, IsOpen, TriesLock
<1> QED BY <1>1, <1>2, <1>3, <1>4, <1>5, <1>6, <1>7, <1>8, <1>9, <1>10, <1>11 DEF DeviceStep

\* What a correction or an approval makes of a shift is a shift of the same person.
LEMMA CorrectedShift ==
  ASSUME StationTypeOK, NEW s \in shifts
  PROVE  /\ [s EXCEPT !.approved = TRUE] \in Shift /\ [s EXCEPT !.approved = TRUE].id = s.id
         /\ [s EXCEPT !.approved = TRUE].out = s.out
         /\ Edits(s) \subseteq Shift
<1>1. s \in Shift
  BY DEF StationTypeOK
<1>2. [s EXCEPT !.approved = TRUE] \in Shift /\ [s EXCEPT !.approved = TRUE].id = s.id /\ [s EXCEPT !.approved = TRUE].out = s.out
  BY <1>1 DEF Shift
<1>3. Edits(s) \subseteq Shift
  BY DEF Edits
<1> QED BY <1>2, <1>3

\* Corrections, approvals and credits keep the invariant of the station.
LEMMA ReviewStepInv ==
  ASSUME StationInv, ReviewStep
  PROVE  StationInv'
<1>0. StationTypeOK /\ IsFiniteSet(shifts) /\ OpenOnce /\ TriesLock /\ OneCreditPerRule
  BY DEF StationInv
<1>1. ASSUME NEW s \in shifts, NEW new \in Shift, shifts' = Replace(s, new), OnlyShifts,
             IsOpen(new) => OpenShifts(new.person) \ {s} = {}
      PROVE  StationInv'
  <2>1. IsFiniteSet(shifts')
    BY <1>0, <1>1, FS_AddElement, FS_RemoveElement DEF Replace
  <2>2. OpenOnce'
    BY <1>0, <1>1 DEF OpenOnce, IsOpen, OpenShifts, Replace
  <2>3. StationTypeOK' /\ TriesLock' /\ OneCreditPerRule'
    BY <1>0, <1>1 DEF StationTypeOK, TriesLock, OneCreditPerRule, Replace, OnlyShifts
  <2> QED BY <2>1, <2>2, <2>3 DEF StationInv
<1>2. ASSUME NEW s \in shifts, StationShiftApprove(s) PROVE StationInv'
  <2>1. [s EXCEPT !.approved = TRUE] \in Shift /\ ~IsOpen([s EXCEPT !.approved = TRUE])
    BY <1>0, <1>2, CorrectedShift DEF StationShiftApprove, IsOpen
  <2> QED BY <1>1, <1>2, <2>1 DEF StationShiftApprove
<1>3. ASSUME NEW s \in shifts, NEW new \in Edits(s), StationShiftEdit(s, new) PROVE StationInv'
  BY <1>0, <1>1, <1>3, CorrectedShift DEF StationShiftEdit, ShiftClean
<1>4. ASSUME NEW s \in shifts, StationShiftPostCredit(s) PROVE StationInv'
  <2>1. PICK rule \in rules, account \in payer[s.person] :
          credits' = IF Existing(account, rule, s) # {} THEN credits
                     ELSE credits \cup {[account |-> account, rule |-> rule, shift |-> s.id, amount |-> Amount(rule, s)]}
    BY <1>4 DEF StationShiftPostCredit
  <2>2. UNCHANGED <<time, deviceActive, station, pins, shifts, rules, payer>>
    BY <1>4 DEF StationShiftPostCredit
  <2> DEFINE new == [account |-> account, rule |-> rule, shift |-> s.id, amount |-> Amount(rule, s)]
  <2>3. s \in Shift /\ s.person \in Workers /\ s.id \in ShiftIds /\ rule \in Rules
    BY <1>0 DEF StationTypeOK, Shift
  <2>4. Worked(s) \in Int
    BY <2>3, StationAssumption DEF Worked, IsOpen, Shift
  <2>5. Amount(rule, s) \in Int
    BY <2>3, <2>4, StationAssumption DEF Amount
  <2>6. account \in Accounts
    BY <1>0, <2>3 DEF StationTypeOK
  <2>7. new \in Credit /\ new.account = account /\ new.rule = rule /\ new.shift = s.id
    BY <2>3, <2>5, <2>6 DEF Credit
  <2>8. credits' = credits \/ (Existing(account, rule, s) = {} /\ credits' = credits \cup {new})
    BY <2>1
  <2> HIDE DEF new
  <2>9. OneCreditPerRule'
    BY <1>0, <2>7, <2>8 DEF OneCreditPerRule, Existing
  <2>10. StationTypeOK'
    BY <1>0, <2>2, <2>7, <2>8 DEF StationTypeOK
  <2> QED BY <1>0, <2>2, <2>9, <2>10 DEF StationInv, OpenOnce, IsOpen, TriesLock
<1>5. ASSUME NEW set \in SUBSET Rules, CreditRuleEdit(set) PROVE StationInv'
  BY <1>5 DEF CreditRuleEdit, StationInv, StationTypeOK, OpenOnce, OneCreditPerRule, IsOpen, TriesLock
<1>6. ASSUME NEW w \in Workers, NEW a \in SUBSET Accounts, ParticipantEdit(w, a) PROVE StationInv'
  BY <1>6 DEF ParticipantEdit, StationInv, StationTypeOK, OpenOnce, OneCreditPerRule, IsOpen, TriesLock
<1> QED BY <1>2, <1>3, <1>4, <1>5, <1>6 DEF ReviewStep

\* So does every step of the station.
LEMMA StationNextInv == StationInv /\ [StationNext]_stationVars => StationInv'
<1>1. StationInv /\ UNCHANGED stationVars => StationInv'
  BY DEF stationVars, StationInv, StationTypeOK, OpenOnce, OneCreditPerRule, IsOpen, TriesLock
<1> QED BY <1>1, DeviceStepInv, ReviewStepInv DEF StationNext

\* Elements that are all equal are one at most.
LEMMA AtMostOne ==
  ASSUME NEW S, IsFiniteSet(S), \A s, t \in S : s = t
  PROVE  Cardinality(S) <= 1
<1>1. CASE S = {}
  BY <1>1, FS_EmptySet
<1>2. CASE S # {}
  <2>1. PICK s \in S : TRUE
    BY <1>2
  <2>2. S = {s}
    OBVIOUS
  <2> QED BY <2>2, FS_Singleton
<1> QED BY <1>1, <1>2

\* Nobody has two open shifts.
LEMMA OpenShiftsAreOne == StationInv => OneOpenShift
<1> SUFFICES ASSUME StationInv, NEW w \in Workers PROVE Cardinality(OpenShifts(w)) <= 1
  BY DEF OneOpenShift
<1>1. IsFiniteSet(OpenShifts(w))
  BY FS_Subset DEF StationInv, OpenShifts
<1>2. \A s, t \in OpenShifts(w) : s = t
  BY DEF StationInv, OpenOnce, OpenShifts
<1> QED BY <1>1, <1>2, AtMostOne

\* Whoever opens a shift at the device is sent away by it.
LEMMA EntrySendsAway ==
  ASSUME StationInv, StationNext, \E s \in shifts' : \A t \in shifts : s.id # t.id
  PROVE  station'.person = NoOne
<1>0. StationTypeOK /\ station \in Session
  BY DEF StationInv, StationTypeOK
<1>1. Cleared.person = NoOne
  BY <1>0 DEF Cleared, Session
<1>2. ASSUME NEW id \in ShiftIds, NEW role \in WorkRoles, StationClockIn(id, role) PROVE station'.person = NoOne
  BY <1>1, <1>2 DEF StationClockIn, After
<1>3. ASSUME NEW s \in shifts, StationClockOut(s) PROVE station'.person = NoOne
  BY <1>1, <1>3 DEF StationClockOut, After
<1>4. ASSUME NEW s \in shifts, NEW new, new.id = s.id, shifts' = Replace(s, new) PROVE FALSE
  BY <1>4 DEF Replace
<1>5. ASSUME NEW s \in shifts, StationShiftApprove(s) PROVE FALSE
  BY <1>0, <1>4, <1>5, CorrectedShift DEF StationShiftApprove
<1>6. ASSUME NEW s \in shifts, NEW new, StationShiftEdit(s, new) PROVE FALSE
  BY <1>4, <1>6 DEF StationShiftEdit
<1>7. ASSUME UNCHANGED shifts PROVE FALSE
  BY <1>7
<1> QED BY <1>2, <1>3, <1>5, <1>6, <1>7 DEF StationNext, DeviceStep, ReviewStep, StationActivate, StationDeactivate,
           StationLost, StationHome, StationIdentifyRight, StationIdentifyWrong, StationPersonPin, StationDeviceEdit,
           Tick, OnlySession, StationShiftPostCredit, CreditRuleEdit, ParticipantEdit

\* Only the right PIN makes a person of the device, and a lock refuses it.
LEMMA LockKeepsOut ==
  ASSUME StationInv, StationNext, NEW w \in Workers, Locked(w), station'.person = w
  PROVE  station.person = w
<1>0. station \in Session /\ time \in 0..MaxTime /\ NoTries \in Tries /\ w # NoOne
  BY StationAssumption DEF StationInv, StationTypeOK, NoTries, Tries
<1>1. Cleared.person = NoOne /\ [Cleared EXCEPT !.bound = TRUE].person = NoOne /\ Unbound.person = NoOne
  BY <1>0 DEF Cleared, Session, Unbound
<1>2. ASSUME NEW v \in Workers, StationIdentifyRight(v) PROVE FALSE
  <2> DEFINE st == [station EXCEPT !.person = v, !.since = time, !.tries[v] = NoTries]
  <2>0. ~Locked(v) /\ station' = st
    BY <1>2 DEF StationIdentifyRight
  <2>00. st.person = v
    BY <1>0 DEF Session
  <2>1. station'.person = v /\ ~Locked(v)
    BY <2>0, <2>00, Zenon
  <2> QED BY <2>1
<1>3. ASSUME NEW v \in Workers, StationIdentifyWrong(v) PROVE station'.person = station.person
  BY <1>0, <1>3 DEF StationIdentifyWrong, Session
<1>4. CASE StationLost
  BY <1>0, <1>4 DEF StationLost, Session
<1> QED BY <1>0, <1>1, <1>2, <1>3, <1>4 DEF StationNext, DeviceStep, ReviewStep, StationActivate, StationDeactivate,
           StationHome, StationPersonPin, StationDeviceEdit, StationClockIn, StationClockOut, After, Tick, OnlyShifts,
           StationShiftApprove, StationShiftEdit, StationShiftPostCredit, CreditRuleEdit, ParticipantEdit

\* A credit is posted for a shift that was over, approved and longer than nothing.
LEMMA PostedIsEarned ==
  ASSUME StationInv, StationNext, NEW c \in credits' \ credits
  PROVE  \E s \in shifts : s.id = c.shift /\ s.approved /\ s.role = "working_student" /\ s.out > s.in
<1>1. PICK s \in shifts : StationShiftPostCredit(s)
  BY DEF StationNext, DeviceStep, ReviewStep, StationActivate, StationDeactivate, StationLost, StationHome,
     StationIdentifyRight, StationIdentifyWrong, StationPersonPin, StationDeviceEdit, StationClockIn, StationClockOut,
     Tick, OnlySession, OnlyShifts, StationShiftApprove, StationShiftEdit, CreditRuleEdit, ParticipantEdit
<1>2. PICK rule \in rules, account \in payer[s.person] :
        credits' = IF Existing(account, rule, s) # {} THEN credits
                   ELSE credits \cup {[account |-> account, rule |-> rule, shift |-> s.id, amount |-> Amount(rule, s)]}
  BY <1>1 DEF StationShiftPostCredit
<1>3. c.shift = s.id
  BY <1>2
<1>4. s.approved /\ s.role = "working_student" /\ ~IsOpen(s) /\ s.out - s.in > 0
  BY <1>1 DEF StationShiftPostCredit, Creditable, Worked
<1>5. s.out \in Int /\ s.in \in Int
  BY StationAssumption DEF StationInv, StationTypeOK, Shift, Never
<1> QED BY <1>3, <1>4, <1>5
-----------------------------------------------------------------------------
(*------------------------ the papers of a horse --------------------------*)
\* The forms add and edit single papers, so a horse has finitely many of each kind: a latest one exists.  The recipient
\* of the credits is active and is the only one.
PapersFinite == \A h \in Horses : IsFiniteSet(coggins[h]) /\ IsFiniteSet(documents[h]) /\ IsFiniteSet(relations[h])
OneRecipient ==
  \A h \in Horses : /\ \A r \in relations[h] : r.recipient => r.active
                    /\ \A q, r \in relations[h] : (q.recipient /\ r.recipient) => q = r
CareInv == HorseCareTypeOK /\ PapersFinite /\ OneRecipient

HorseCareNext == CogginsStep \/ DocumentStep \/ CareStep \/ RelationStep \/ AccessStep

\* A horse starts without papers and relationships.
LEMMA CareInitInv == HorseCareInit => CareInv
<1> SUFFICES ASSUME HorseCareInit PROVE CareInv
  OBVIOUS
<1>1. HorseCareTypeOK
  BY CareAssumption DEF HorseCareInit, HorseCareTypeOK, Capability
<1>2. PapersFinite /\ OneRecipient
  BY FS_EmptySet DEF HorseCareInit, PapersFinite, OneRecipient
<1> QED BY <1>1, <1>2 DEF CareInv

\* One record put in the place of another, or of none.
LEMMA PutOne ==
  ASSUME NEW Kind, NEW records \in [Horses -> SUBSET Kind], NEW h \in Horses, NEW old, NEW new \in Kind
  PROVE  /\ Put(records, h, old, new) \in [Horses -> SUBSET Kind]
         /\ Put(records, h, old, new)[h] = (records[h] \ old) \cup {new}
         /\ \A g \in Horses \ {h} : Put(records, h, old, new)[g] = records[g]
         /\ (\A g \in Horses : IsFiniteSet(records[g])) => \A g \in Horses : IsFiniteSet(Put(records, h, old, new)[g])
<1> DEFINE after == Put(records, h, old, new)
<1>1. /\ after \in [Horses -> SUBSET Kind] /\ after[h] = (records[h] \ old) \cup {new}
      /\ \A g \in Horses \ {h} : after[g] = records[g]
  BY DEF Put
<1> HIDE DEF after
<1>2. ASSUME \A g \in Horses : IsFiniteSet(records[g]), NEW g \in Horses PROVE IsFiniteSet(after[g])
  <2>1. CASE g = h
    <3>1. IsFiniteSet(records[h] \ old)
      BY <1>2, FS_Subset
    <3> QED BY <1>1, <2>1, <3>1, FS_AddElement
  <2>2. CASE g # h
    BY <1>1, <1>2, <2>2
  <2> QED BY <2>1, <2>2
<1> QED BY <1>1, <1>2 DEF after

\* The operations on their own.
LEMMA CogginsSaved ==
  ASSUME CareInv, NEW p, NEW h \in Horses, NEW old, NEW new \in Cogginses, CogginsSave(p, h, old, new)
  PROVE  CareInv'
<1>1. coggins \in [Horses -> SUBSET Cogginses] /\ coggins' = Put(coggins, h, old, new)
  BY DEF CareInv, HorseCareTypeOK, CogginsSave
<1>2. coggins' \in [Horses -> SUBSET Cogginses] /\ \A g \in Horses : IsFiniteSet(coggins'[g])
  BY <1>1, PutOne DEF CareInv, PapersFinite
<1> QED BY <1>2 DEF CareInv, HorseCareTypeOK, PapersFinite, OneRecipient, CogginsSave

\* A relationship is saved as the recipient only when it is active and no other one is.
LEMMA RelationSaved ==
  ASSUME CareInv, NEW p, NEW h \in Horses, NEW old, NEW new \in Relations, RelationSave(p, h, old, new)
  PROVE  CareInv'
<1>1. /\ relations \in [Horses -> SUBSET Relations] /\ relations' = Put(relations, h, old, new)
      /\ MayReceive(h, old, new) /\ UNCHANGED <<today, coggins, documents, requirements, care, capability, horseManager>>
  BY DEF CareInv, HorseCareTypeOK, RelationSave
<1>2. /\ relations' \in [Horses -> SUBSET Relations] /\ relations'[h] = (relations[h] \ old) \cup {new}
      /\ \A g \in Horses \ {h} : relations'[g] = relations[g]
  BY <1>1, PutOne
<1>3. \A g \in Horses : IsFiniteSet(relations'[g])
  BY <1>1, PutOne DEF CareInv, PapersFinite
<1>4. OneRecipient'
  BY <1>1, <1>2 DEF CareInv, OneRecipient, MayReceive, Recipients
<1> QED BY <1>1, <1>2, <1>3, <1>4 DEF CareInv, HorseCareTypeOK, PapersFinite

\* Every form on the papers of horses keeps them finite and the recipient one.
LEMMA CareNextInv == CareInv /\ [HorseCareNext]_horseCareVars => CareInv'
<1> SUFFICES ASSUME CareInv, [HorseCareNext]_horseCareVars PROVE CareInv'
  OBVIOUS
<1>1. ASSUME NEW p, NEW h \in Horses, NEW old, NEW new \in Cogginses, CogginsSave(p, h, old, new) PROVE CareInv'
  BY <1>1, CogginsSaved
<1>2. ASSUME NEW p, NEW h \in Horses, NEW old, NEW new \in Documents, DocumentSave(p, h, old, new) PROVE CareInv'
  <2>1. documents \in [Horses -> SUBSET Documents] /\ documents' = Put(documents, h, old, new)
    BY <1>2 DEF CareInv, HorseCareTypeOK, DocumentSave
  <2>2. documents' \in [Horses -> SUBSET Documents]
    BY <2>1, PutOne
  <2>3. \A g \in Horses : IsFiniteSet(documents'[g])
    BY <2>1, PutOne DEF CareInv, PapersFinite
  <2> QED BY <1>2, <2>2, <2>3 DEF CareInv, HorseCareTypeOK, PapersFinite, OneRecipient, DocumentSave
<1>3. ASSUME NEW p, NEW h \in Horses, NEW old, NEW new \in CareRecords, CareSave(p, h, old, new) PROVE CareInv'
  <2>1. care \in [Horses -> SUBSET CareRecords] /\ care' = Put(care, h, old, new)
    BY <1>3 DEF CareInv, HorseCareTypeOK, CareSave
  <2>2. care' \in [Horses -> SUBSET CareRecords]
    BY <2>1, PutOne
  <2> QED BY <1>3, <2>2 DEF CareInv, HorseCareTypeOK, PapersFinite, OneRecipient, CareSave
<1>4. ASSUME NEW p, NEW h \in Horses, NEW old, NEW new \in Relations, RelationSave(p, h, old, new) PROVE CareInv'
  BY <1>4, RelationSaved
<1>5. ASSUME NEW p, NEW old, NEW new \in Requirements, RequirementSave(p, old, new) PROVE CareInv'
  BY <1>5 DEF CareInv, HorseCareTypeOK, PapersFinite, OneRecipient, RequirementSave
<1>6. ASSUME NEW p, NEW q \in People, NEW new \in Capability, HorseAccessSave(p, q, new) PROVE CareInv'
  BY <1>6 DEF CareInv, HorseCareTypeOK, PapersFinite, OneRecipient, HorseAccessSave
<1>7. CASE NextDay
  BY <1>7 DEF CareInv, HorseCareTypeOK, PapersFinite, OneRecipient, NextDay
<1>8. CASE UNCHANGED horseCareVars
  BY <1>8 DEF CareInv, HorseCareTypeOK, PapersFinite, OneRecipient, horseCareVars
<1>9. CogginsStep => CareInv'
  BY <1>1, <1>5, <1>7 DEF CogginsStep
<1>10. DocumentStep => CareInv'
  BY <1>2, <1>5, <1>7 DEF DocumentStep
<1>11. CareStep => CareInv'
  BY <1>3, <1>7 DEF CareStep
<1>12. RelationStep => CareInv'
  BY <1>4, <1>7 DEF RelationStep
<1>13. AccessStep => CareInv'
  BY <1>1, <1>4, <1>6, <1>7 DEF AccessStep
<1> QED BY <1>8, <1>9, <1>10, <1>11, <1>12, <1>13 DEF HorseCareNext

-----------------------------------------------------------------------------
\* A finite set that is not empty has an element of which f is largest.
LEMMA FiniteArgMax ==
  ASSUME NEW S, IsFiniteSet(S), S # {}, NEW f \in [S -> Int]
  PROVE  \E x \in S : \A y \in S : f[y] <= f[x]
<1>1. IsFiniteSet({f[x] : x \in S})
  BY FiniteImage
<1>2. {f[x] : x \in S} \in SUBSET Int /\ {f[x] : x \in S} # {}
  OBVIOUS
<1>3. PICK m \in {f[x] : x \in S} : \A n \in {f[x] : x \in S} : n <= m
  BY <1>1, <1>2, FiniteMax
<1> QED BY <1>3

\* The dates of papers are numbers, and only an empty date is 0.
LEMMA DocumentNumbers ==
  ASSUME NEW d \in Documents
  PROVE  d.expires \in Nat /\ d.effective \in Nat /\ d.created \in Nat /\ d.pk \in Nat
<1>1. CareDates \subseteq Nat /\ 0 \in Nat /\ None = 0
  BY CareAssumption DEF None
<1>2. d.expires \in CareDates \cup {None} /\ d.effective \in CareDates \cup {None} /\ d.created \in CareDates /\ d.pk \in 1..MaxPapers
  BY DEF Documents
<1>3. d.expires \in Nat /\ d.effective \in Nat /\ d.created \in Nat
  BY <1>1, <1>2
<1>4. d.pk \in Nat
  BY <1>2
<1> QED BY <1>3, <1>4

\* The date of a Coggins is a number and never empty.
LEMMA CogginsNumbers ==
  ASSUME NEW c \in Cogginses
  PROVE  c.expires \in Nat /\ c.expires # None
<1>1. c.expires \in CareDates
  BY DEF Cogginses
<1> QED BY <1>1, CareAssumption

\* The Coggins that is looked at is one of the horse's, and none is valid longer.
LEMMA LatestIsLast ==
  ASSUME CareInv, NEW h \in Horses, coggins[h] # {}
  PROVE  Latest(h) \in coggins[h] /\ \A c \in coggins[h] : c.expires <= Latest(h).expires
<1> DEFINE f == [c \in coggins[h] |-> c.expires]
<1>1. f \in [coggins[h] -> Int]
  <2>1. coggins[h] \subseteq Cogginses
    BY DEF CareInv, HorseCareTypeOK
  <2>2. \A c \in coggins[h] : c.expires \in Int
    BY <2>1, CogginsNumbers
  <2> QED BY <2>2
<1>2. IsFiniteSet(coggins[h])
  BY DEF CareInv, PapersFinite
<1> HIDE DEF f
<1>3. PICK c \in coggins[h] : \A d \in coggins[h] : f[d] <= f[c]
  BY <1>1, <1>2, FiniteArgMax
<1>4. \E x \in coggins[h] : \A d \in coggins[h] : d.expires <= x.expires
  BY <1>3 DEF f
<1> QED BY <1>4 DEF Latest

\* The document that is looked at is one of its type, and none took effect, or was entered, later.
LEMMA LatestOfIsLast ==
  ASSUME CareInv, NEW h \in Horses, NEW type, OfType(h, type) # {}
  PROVE  LatestOf(h, type) \in OfType(h, type)
<1> DEFINE S == OfType(h, type)
           f == [d \in S |-> Effective(d)]
<1>1. IsFiniteSet(S) /\ S \subseteq Documents
  <2>1. IsFiniteSet(documents[h]) /\ documents[h] \subseteq Documents
    BY DEF CareInv, PapersFinite, HorseCareTypeOK
  <2>2. S \in SUBSET documents[h]
    BY DEF OfType
  <2> HIDE DEF S
  <2> QED BY <2>1, <2>2, FS_Subset
<1> HIDE DEF S
<1>2. \A d \in S : Effective(d) \in Int /\ d.pk \in Int
  BY <1>1, DocumentNumbers DEF Effective
<1>3. f \in [S -> Int]
  BY <1>2
<1> HIDE DEF f
<1>4. PICK c \in S : \A d \in S : f[d] <= f[c]
  BY <1>1, <1>3, FiniteArgMax DEF S
<1>5. \A d \in S : Effective(d) <= Effective(c)
  BY <1>4 DEF f
<1> DEFINE L == {d \in S : Effective(d) = Effective(c)}
           g == [d \in L |-> d.pk]
<1>6. IsFiniteSet(L) /\ L # {} /\ g \in [L -> Int]
  <2>1. L \in SUBSET S /\ L # {}
    OBVIOUS
  <2> QED BY <1>1, <1>2, <2>1, FS_Subset
<1> HIDE DEF L
<1>7. PICK d \in L : \A e \in L : g[e] <= g[d]
  <2> HIDE DEF g
  <2> QED BY <1>6, FiniteArgMax
<1>8. d \in S /\ \A e \in S : Effective(e) < Effective(d) \/ (Effective(e) = Effective(d) /\ e.pk <= d.pk)
  BY <1>2, <1>5, <1>7 DEF L
<1>9. \E x \in S : \A e \in S : Effective(e) < Effective(x) \/ (Effective(e) = Effective(x) /\ e.pk <= x.pk)
  BY <1>8
<1> QED BY <1>9, Zenon DEF LatestOf, S

\* A paper that is overdue for a date has run out by then, or today.
LEMMA AttentionMeans ==
  ASSUME NEW expires \in Nat, NEW asOf \in Nat, today \in Nat
  PROVE  (DatedStatus(expires, asOf) = "attention") = (expires # None /\ (expires < asOf \/ expires < today))
BY CareAssumption DEF DatedStatus, Later, None

\* A horse needs attention if one of its items does.
LEMMA ComplianceMeans ==
  ASSUME NEW h, NEW asOf
  PROVE  /\ Compliance(h, asOf) = "attention" <=> "attention" \in ComplianceItems(h, asOf)
         /\ ActiveRequirements # {} =>
              "attention" \in ComplianceItems(h, asOf) <=>
                 \E type \in ActiveRequirements :
                   IF type = "coggins" THEN CogginsItem(h, asOf) = "attention" ELSE DocumentItem(h, type, asOf) = "attention"
         /\ ActiveRequirements = {} =>
              "attention" \in ComplianceItems(h, asOf) <=>
                 (CogginsItem(h, asOf) = "attention" \/ \E d \in documents[h] : DatedStatus(d.expires, asOf) = "attention")
<1>1. Compliance(h, asOf) = "attention" <=> "attention" \in ComplianceItems(h, asOf)
  BY DEF Compliance, Overall
<1>2. ActiveRequirements # {} =>
        "attention" \in ComplianceItems(h, asOf) <=>
           \E type \in ActiveRequirements :
             IF type = "coggins" THEN CogginsItem(h, asOf) = "attention" ELSE DocumentItem(h, type, asOf) = "attention"
  <2> DEFINE item(type) == IF type = "coggins" THEN CogginsItem(h, asOf) ELSE DocumentItem(h, type, asOf)
  <2>1. ActiveRequirements # {} => ComplianceItems(h, asOf) = {item(type) : type \in ActiveRequirements}
    BY DEF ComplianceItems
  <2>2. "attention" \in {item(type) : type \in ActiveRequirements} <=> \E type \in ActiveRequirements : item(type) = "attention"
    <3> HIDE DEF item
    <3> QED BY Zenon
  <2> QED BY <2>1, <2>2
<1>3. ActiveRequirements = {} =>
        "attention" \in ComplianceItems(h, asOf) <=>
           (CogginsItem(h, asOf) = "attention" \/ \E d \in documents[h] : DatedStatus(d.expires, asOf) = "attention")
  BY DEF ComplianceItems
<1> QED BY <1>1, <1>2, <1>3

\* What the readiness of a horse says of its papers.
LEMMA ReadySaysPapers == CareInv => ReadyMeansPapers
<1> SUFFICES ASSUME CareInv, NEW h \in Horses, NEW asOf \in CareDates, ActiveRequirements # {}
             PROVE  (Compliance(h, asOf) # "attention") =
                      \A r \in requirements : r.active =>
                        IF r.type = "coggins" THEN \E c \in coggins[h] : c.expires >= asOf /\ c.expires >= today
                        ELSE OfType(h, r.type) # {} /\ LatestOf(h, r.type).expires \notin 1..(Later(asOf, today) - 1)
  BY DEF ReadyMeansPapers
<1>0. asOf \in Nat /\ today \in Nat /\ coggins[h] \subseteq Cogginses /\ documents[h] \subseteq Documents
  BY CareAssumption DEF CareInv, HorseCareTypeOK
<1>1. (CogginsItem(h, asOf) # "attention") = \E c \in coggins[h] : c.expires >= asOf /\ c.expires >= today
  <2>1. CASE coggins[h] = {}
    BY <2>1 DEF CogginsItem
  <2>2. CASE coggins[h] # {}
    <3>1. Latest(h) \in coggins[h] /\ \A c \in coggins[h] : c.expires <= Latest(h).expires
      BY <2>2, LatestIsLast
    <3>2. \A c \in coggins[h] : c.expires \in Nat /\ c.expires # None
      BY <1>0, CogginsNumbers
    <3>3. (CogginsItem(h, asOf) = "attention") = (Latest(h).expires < asOf \/ Latest(h).expires < today)
      BY <1>0, <2>2, <3>1, <3>2, AttentionMeans DEF CogginsItem
    <3>4. (\E c \in coggins[h] : c.expires >= asOf /\ c.expires >= today)
            <=> ~(Latest(h).expires < asOf \/ Latest(h).expires < today)
      BY <1>0, <3>1, <3>2
    <3> QED BY <3>3, <3>4
  <2> QED BY <2>1, <2>2
<1>2. ASSUME NEW type
      PROVE  (DocumentItem(h, type, asOf) # "attention") =
               (OfType(h, type) # {} /\ LatestOf(h, type).expires \notin 1..(Later(asOf, today) - 1))
  <2>1. CASE OfType(h, type) = {}
    BY <2>1 DEF DocumentItem
  <2>2. CASE OfType(h, type) # {}
    <3>1. LatestOf(h, type) \in Documents
      BY <1>0, <2>2, LatestOfIsLast DEF OfType
    <3>2. LatestOf(h, type).expires \in Nat
      BY <3>1, DocumentNumbers
    <3>3. (DocumentItem(h, type, asOf) = "attention") =
             (LatestOf(h, type).expires # None /\ (LatestOf(h, type).expires < asOf \/ LatestOf(h, type).expires < today))
      BY <1>0, <2>2, <3>2, AttentionMeans DEF DocumentItem
    <3>4. (LatestOf(h, type).expires \notin 1..(Later(asOf, today) - 1)) =
             ~(LatestOf(h, type).expires # None /\ (LatestOf(h, type).expires < asOf \/ LatestOf(h, type).expires < today))
      BY <1>0, <3>2 DEF Later, None
    <3> QED BY <2>2, <3>3, <3>4
  <2> QED BY <2>1, <2>2
<1>3. (Compliance(h, asOf) # "attention") =
        \A type \in ActiveRequirements :
          IF type = "coggins" THEN CogginsItem(h, asOf) # "attention" ELSE DocumentItem(h, type, asOf) # "attention"
  BY ComplianceMeans
<1> DEFINE Good(type) == IF type = "coggins" THEN \E c \in coggins[h] : c.expires >= asOf /\ c.expires >= today
                        ELSE OfType(h, type) # {} /\ LatestOf(h, type).expires \notin 1..(Later(asOf, today) - 1)
<1>4. ASSUME NEW type
      PROVE  (IF type = "coggins" THEN CogginsItem(h, asOf) # "attention" ELSE DocumentItem(h, type, asOf) # "attention") = Good(type)
  BY <1>1, <1>2
<1> HIDE DEF Good
<1>5. (Compliance(h, asOf) # "attention") = \A type \in ActiveRequirements : Good(type)
  BY <1>3, <1>4
<1>6. (\A type \in ActiveRequirements : Good(type)) = (\A r \in requirements : r.active => Good(r.type))
  BY DEF ActiveRequirements
<1> QED BY <1>5, <1>6 DEF Good

\* A new day moves nothing but the day.
LEMMA AgeingNeverHeals ==
  ASSUME CareInv, HorseCareNext, NEW h \in Horses, NEW asOf \in CareDates, today' > today, Compliance(h, asOf) = "attention"
  PROVE  (Compliance(h, asOf))' = "attention"
<1>0. asOf \in Nat /\ today \in Nat /\ documents[h] \subseteq Documents /\ coggins[h] \subseteq Cogginses
  BY CareAssumption DEF CareInv, HorseCareTypeOK
<1>1. NextDay
  <2>1. today' # today
    BY <1>0
  <2> QED BY <2>1 DEF HorseCareNext, CogginsStep, DocumentStep, CareStep, RelationStep, AccessStep, CogginsSave, DocumentSave,
             CareSave, RelationSave, RequirementSave, HorseAccessSave
<1>2. /\ today' = today + 1 /\ today' \in Nat
      /\ coggins' = coggins /\ documents' = documents /\ requirements' = requirements
  BY <1>0, <1>1 DEF NextDay
<1>3. ASSUME NEW expires \in Nat, DatedStatus(expires, asOf) = "attention"
      PROVE  DatedStatus(expires, asOf)' = "attention"
  BY <1>0, <1>2, <1>3, CareAssumption DEF DatedStatus, Later, None
<1>4. CogginsItem(h, asOf) = "attention" => CogginsItem(h, asOf)' = "attention"
  <2>1. CASE coggins[h] = {}
    BY <1>2, <2>1 DEF CogginsItem
  <2>2. CASE coggins[h] # {}
    <3>1. Latest(h)' = Latest(h)
      BY <1>2 DEF Latest
    <3>2. Latest(h).expires \in Nat
      BY <1>0, <2>2, LatestIsLast, CogginsNumbers
    <3>3. DatedStatus(Latest(h).expires, asOf) = "attention" => (DatedStatus(Latest(h).expires, asOf))' = "attention"
      BY <1>0, <1>2, <3>1, <3>2, CareAssumption DEF DatedStatus, Later, None
    <3> QED BY <1>2, <2>2, <3>3 DEF CogginsItem
  <2> QED BY <2>1, <2>2
<1>5. ASSUME NEW type PROVE DocumentItem(h, type, asOf) = "attention" => DocumentItem(h, type, asOf)' = "attention"
  <2>0. OfType(h, type)' = OfType(h, type)
    BY <1>2 DEF OfType
  <2>1. CASE OfType(h, type) = {}
    BY <2>0, <2>1 DEF DocumentItem
  <2>2. CASE OfType(h, type) # {}
    <3>1. LatestOf(h, type)' = LatestOf(h, type)
      BY <1>2 DEF LatestOf, OfType
    <3>2. LatestOf(h, type).expires \in Nat
      BY <1>0, <2>2, LatestOfIsLast, DocumentNumbers DEF OfType
    <3>3. DatedStatus(LatestOf(h, type).expires, asOf) = "attention" => (DatedStatus(LatestOf(h, type).expires, asOf))' = "attention"
      BY <1>0, <1>2, <3>1, <3>2, CareAssumption DEF DatedStatus, Later, None
    <3> QED BY <2>0, <2>2, <3>3 DEF DocumentItem
  <2> QED BY <2>1, <2>2
<1>6. ActiveRequirements' = ActiveRequirements
  BY <1>2 DEF ActiveRequirements
<1>7. "attention" \in ComplianceItems(h, asOf)
  BY ComplianceMeans
<1>8. ("attention" \in ComplianceItems(h, asOf))'
  <2>1. CASE ActiveRequirements # {}
    <3>1. PICK type \in ActiveRequirements :
            IF type = "coggins" THEN CogginsItem(h, asOf) = "attention" ELSE DocumentItem(h, type, asOf) = "attention"
      BY <1>7, <2>1, ComplianceMeans
    <3> QED BY <1>4, <1>5, <1>6, <2>1, <3>1 DEF ComplianceItems
  <2>2. CASE ActiveRequirements = {}
    <3>1. CogginsItem(h, asOf) = "attention" \/ \E d \in documents[h] : DatedStatus(d.expires, asOf) = "attention"
      BY <1>7, <2>2, ComplianceMeans
    <3>2. ASSUME NEW d \in documents[h], DatedStatus(d.expires, asOf) = "attention"
          PROVE  (DatedStatus(d.expires, asOf))' = "attention"
      <4>1. d.expires \in Nat
        BY <1>0, DocumentNumbers
      <4> QED BY <1>3, <3>2, <4>1
    <3> QED BY <1>2, <1>4, <1>6, <2>2, <3>1, <3>2 DEF ComplianceItems
  <2> QED BY <2>1, <2>2
<1> QED BY <1>8 DEF Compliance, Overall

\* The schedule shows last visits.
LEMMA ScheduleShowsLast == CareInv => DoneCareIsQuiet
<1> SUFFICES ASSUME CareInv, NEW h \in Horses, NEW r \in CareItems(h), NEW s \in care[h], s.type = r.type
             PROVE  s.performed <= r.performed
  BY DEF DoneCareIsQuiet
<1>1. r \in CareRecords /\ s \in CareRecords /\ ~Newer(s, r)
  BY DEF CareItems, CareInv, HorseCareTypeOK
<1>2. r.performed \in Nat /\ s.performed \in Nat
  BY <1>1, CareAssumption DEF CareRecords
<1> QED BY <1>1, <1>2 DEF Newer

\* The credits of a horse have one recipient, and an active one.
LEMMA RecipientIsOne == CareInv => OneCreditRecipient
<1> SUFFICES ASSUME CareInv, NEW h \in Horses
             PROVE  /\ Cardinality({r \in relations[h] : r.active /\ r.recipient}) <= 1
                    /\ \A r \in relations[h] : r.recipient => r.active
  BY DEF OneCreditRecipient
<1> DEFINE S == {r \in relations[h] : r.active /\ r.recipient}
<1>1. IsFiniteSet(relations[h]) /\ S \in SUBSET relations[h]
  BY DEF CareInv, PapersFinite
<1>2. \A q, r \in S : q = r
  BY DEF CareInv, OneRecipient
<1>3. \A r \in relations[h] : r.recipient => r.active
  BY DEF CareInv, OneRecipient
<1>4. Cardinality(S) <= 1
  <2> HIDE DEF S
  <2> QED BY <1>1, <1>2, FS_Subset, AtMostOne
<1> QED BY <1>3, <1>4
-----------------------------------------------------------------------------
(*------------------------- the horses of a show --------------------------*)
\* The horse of an award is assigned; a request finalizes at most the version after the last; a final history has
\* records; what a request writes is a record of the id it loaded, into a history that exists.
AwardsAssigned == \A s \in Sessions : awards[s] # "none" => assigned[awards[s]].exists
VersionsKnown ==
  /\ hoofprints \in Seq(Snapshot) /\ Len(hoofprints) <= MaxVersions
  /\ finalizing \in Seq(Snapshot)
  /\ \A i \in 1..Len(finalizing) : finalizing[i].version <= Len(hoofprints) + 1
FinalHasRecords == (history.exists /\ history.final) => history.records # {}
RequestsLoaded ==
  /\ requests # {} => history.exists
  /\ \A q \in requests : q.kind \in {"record", "add"} => q.new \in Record /\ q.new.id = q.id
ShowInv ==
  /\ ShowHorsesTypeOK /\ AwardsAssigned /\ VersionsKnown /\ HoofprintsAreNumbered
  /\ FinalHasRecords /\ RequestsLoaded

\* A show starts without horses, awards, Hoofprints and history.
LEMMA ShowInitInv == ShowHorsesInit => ShowInv
<1> SUFFICES ASSUME ShowHorsesInit PROVE ShowInv
  OBVIOUS
<1> USE DEF ShowHorsesInit
<1>1. hoofprints \in Seq(Snapshot) /\ finalizing \in Seq(Snapshot) /\ Len(hoofprints) = 0 /\ Len(finalizing) = 0
  OBVIOUS
<1>2. VersionsKnown /\ HoofprintsAreNumbered
  BY <1>1, ShowHorsesAssumption DEF VersionsKnown, HoofprintsAreNumbered
<1>3. ShowHorsesTypeOK
  BY <1>1 DEF ShowHorsesTypeOK, Awards
<1>4. AwardsAssigned /\ FinalHasRecords /\ RequestsLoaded
  BY DEF AwardsAssigned, FinalHasRecords, RequestsLoaded, NoHistory
<1> QED BY <1>2, <1>3, <1>4 DEF ShowInv

(*------------------------------- the plan --------------------------------*)
PlanKept == UNCHANGED <<hoofprints, finalizing, history, requests>>

\* Planning moves assignments, awards and leases; the rest of the invariant is untouched.
LEMMA PlanFrame ==
  ASSUME ShowInv, PlanKept,
         assigned' \in [ShowHorseSet -> Assignment \cup {NoAssignment}], awards' \in Awards,
         leased' \in [LeasedNames -> Lease \cup {NoLease}], AwardsAssigned'
  PROVE  ShowInv'
BY DEF ShowInv, PlanKept, ShowHorsesTypeOK, VersionsKnown, HoofprintsAreNumbered, FinalHasRecords, RequestsLoaded

\* What the form keeps is an assignment.
LEMMA AcceptedIsAssignment ==
  ASSUME NEW h \in ShowHorseSet, NEW manager \in BOOLEAN, NEW new \in Assignment, NEW kept \in Accepted(h, manager, new),
         assigned[h] \in Assignment \cup {NoAssignment}
  PROVE  kept \in Assignment /\ kept.exists /\ kept.classes = new.classes
<1>1. [new EXCEPT !.override = FALSE] \in Assignment /\ [new EXCEPT !.override = FALSE].classes = new.classes
  BY DEF Assignment
<1>2. (assigned[h].exists /\ assigned[h].override) \in BOOLEAN
  OBVIOUS
<1>3. ASSUME NEW b \in BOOLEAN
      PROVE  [new EXCEPT !.override = b] \in Assignment /\ [new EXCEPT !.override = b].classes = new.classes
  BY DEF Assignment
<1>4. kept \in {new, [new EXCEPT !.override = FALSE], [new EXCEPT !.override = (assigned[h].exists /\ assigned[h].override)]}
  BY DEF Accepted
<1>5. kept \in Assignment /\ kept.classes = new.classes
  BY <1>1, <1>2, <1>3, <1>4
<1> QED BY <1>5 DEF Assignment

\* Planning keeps the horse of every award, and touches neither Hoofprints nor history.
LEMMA PlanStepInv ==
  ASSUME ShowInv, PlanStep
  PROVE  ShowInv'
<1>0. /\ assigned \in [ShowHorseSet -> Assignment \cup {NoAssignment}] /\ awards \in [Sessions -> ShowHorseSet \cup {"none"}]
      /\ leased \in [LeasedNames -> Lease \cup {NoLease}] /\ AwardsAssigned
  BY DEF ShowInv, ShowHorsesTypeOK, Awards
<1>1. ASSUME NEW h \in ShowHorseSet, NEW classes, SeasonProfileSave(h, classes) PROVE ShowInv'
  BY <1>0, <1>1, PlanFrame DEF SeasonProfileSave, PlanKept, Awards, AwardsAssigned
<1>2. ASSUME NEW h \in ShowHorseSet, NEW manager \in BOOLEAN, NEW new \in Assignment, ShowHorseSave(h, manager, new) PROVE ShowInv'
  <2>1. PICK kept \in Accepted(h, manager, new) :
          assigned' = [assigned EXCEPT ![h] = kept] /\ UNCHANGED <<awards, leased>> /\ PlanKept
    BY <1>2 DEF ShowHorseSave, PlanKept
  <2>2. kept \in Assignment /\ kept.exists
    BY <1>0, AcceptedIsAssignment
  <2>3. assigned' \in [ShowHorseSet -> Assignment \cup {NoAssignment}] /\ AwardsAssigned'
    BY <1>0, <2>1, <2>2 DEF AwardsAssigned
  <2> QED BY <1>0, <2>1, <2>3, PlanFrame DEF Awards
<1>3. ASSUME NEW h \in ShowHorseSet, ShowHorseRemove(h) PROVE ShowInv'
  <2>1. /\ assigned' = [assigned EXCEPT ![h] = NoAssignment] /\ \A s \in Sessions : awards[s] # h
        /\ UNCHANGED <<awards, leased>> /\ PlanKept
    BY <1>3 DEF ShowHorseRemove, PlanKept
  <2>2. assigned' \in [ShowHorseSet -> Assignment \cup {NoAssignment}] /\ AwardsAssigned'
    BY <1>0, <2>1 DEF AwardsAssigned
  <2> QED BY <1>0, <2>1, <2>2, PlanFrame DEF Awards
<1>4. ASSUME NEW h \in ShowHorseSet, NEW s \in Sessions, ShowHorseAwardSave(s, h) PROVE ShowInv'
  <2>1. assigned[h].exists /\ awards' = [awards EXCEPT ![s] = h] /\ UNCHANGED <<assigned, leased>> /\ PlanKept
    BY <1>4 DEF ShowHorseAwardSave, MayWin, Available, Assigned, PlanKept
  <2>2. awards' \in Awards /\ AwardsAssigned'
    BY <1>0, <2>1 DEF Awards, AwardsAssigned
  <2> QED BY <1>0, <2>1, <2>2, PlanFrame
<1>5. ASSUME NEW s \in Sessions, ShowHorseAwardRemove(s) PROVE ShowInv'
  <2>1. awards' = [awards EXCEPT ![s] = "none"] /\ UNCHANGED <<assigned, leased>> /\ PlanKept
    BY <1>5 DEF ShowHorseAwardRemove, PlanKept
  <2>2. awards' \in Awards /\ AwardsAssigned'
    BY <1>0, <2>1 DEF Awards, AwardsAssigned
  <2> QED BY <1>0, <2>1, <2>2, PlanFrame
<1>6. ASSUME NEW n \in LeasedNames, NEW new \in Lease \cup {NoLease}, ShowLeasedHorseSave(n, new) PROVE ShowInv'
  BY <1>0, <1>6, PlanFrame DEF ShowLeasedHorseSave, PlanKept, Awards, AwardsAssigned
<1> QED BY <1>1, <1>2, <1>3, <1>4, <1>5, <1>6 DEF PlanStep, ShowLeasedHorseRemove

\* The plans a history is built from are plans.
LEMMA PlanOnceIsPlan == PlanOnce => PlanStep
<1>1. ASSUME NEW available \in BOOLEAN
      PROVE  /\ [exists |-> TRUE, available |-> available, classes |-> {}, override |-> FALSE] \in Assignment
             /\ [exists |-> TRUE, available |-> available, classes |-> {}] \in Lease
  BY DEF Assignment, Lease
<1> QED BY <1>1 DEF PlanOnce, PlanStep

(*------------------------------ hoofprints -------------------------------*)
LEMMA HoofprintStepInv ==
  ASSUME ShowInv, HoofprintStep
  PROVE  ShowInv'
<1>0. /\ hoofprints \in Seq(Snapshot) /\ Len(hoofprints) \in Nat /\ Len(hoofprints) <= MaxVersions
      /\ finalizing \in Seq(Snapshot) /\ Len(finalizing) \in Nat /\ MaxVersions \in Nat
      /\ \A i \in 1..Len(finalizing) : finalizing[i].version <= Len(hoofprints) + 1
      /\ \A i \in 1..Len(hoofprints) : hoofprints[i].version = i
  BY ShowHorsesAssumption DEF ShowInv, VersionsKnown, HoofprintsAreNumbered
<1>1. ASSUME VersionsKnown', HoofprintsAreNumbered', UNCHANGED <<eligible, assigned, awards, leased, history, requests>>
      PROVE  ShowInv'
  BY <1>1 DEF ShowInv, ShowHorsesTypeOK, VersionsKnown, AwardsAssigned, FinalHasRecords, RequestsLoaded
<1>2. CASE FinalizeRead
  <2> DEFINE new == [version |-> Len(hoofprints) + 1, horses |-> Payload]
  <2>1. Len(hoofprints) < MaxVersions /\ finalizing' = Append(finalizing, new) /\ hoofprints' = hoofprints
    BY <1>2 DEF FinalizeRead
  <2>2. new \in Snapshot /\ new.version = Len(hoofprints) + 1
    BY <1>0, <2>1 DEF Snapshot, Payload, Available, Assigned
  <2> HIDE DEF new
  <2>3. finalizing' \in Seq(Snapshot) /\ \A i \in 1..Len(finalizing') : finalizing'[i].version <= Len(hoofprints) + 1
    BY <1>0, <2>1, <2>2
  <2>4. VersionsKnown' /\ HoofprintsAreNumbered'
    BY <1>0, <2>1, <2>3 DEF VersionsKnown, HoofprintsAreNumbered
  <2> QED BY <1>1, <1>2, <2>4 DEF FinalizeRead
<1>3. CASE FinalizeInsert
  <2>1. /\ finalizing # <<>> /\ finalizing' = Tail(finalizing)
        /\ hoofprints' = IF Head(finalizing).version \in Versions THEN hoofprints ELSE Append(hoofprints, Head(finalizing))
    BY <1>3 DEF FinalizeInsert
  <2> DEFINE new == Head(finalizing)
  <2>2. new \in Snapshot /\ new.version \in 1..MaxVersions /\ new.version <= Len(hoofprints) + 1
    <3>1. 1 \in 1..Len(finalizing) /\ new = finalizing[1] /\ new \in Snapshot
      BY <1>0, <2>1
    <3>2. new.version \in 1..MaxVersions
      BY <3>1 DEF Snapshot
    <3>3. new.version <= Len(hoofprints) + 1
      BY <1>0, <3>1
    <3> QED BY <3>1, <3>2, <3>3
  <2>3. /\ finalizing' \in Seq(Snapshot)
        /\ \A i \in 1..Len(finalizing') : finalizing'[i].version <= Len(hoofprints) + 1 /\ finalizing'[i].version \in Nat
    <3>1. finalizing' \in Seq(Snapshot) /\ Len(finalizing') = Len(finalizing) - 1
      BY <1>0, <2>1
    <3>2. ASSUME NEW i \in 1..Len(finalizing')
          PROVE  finalizing'[i].version <= Len(hoofprints) + 1 /\ finalizing'[i].version \in Nat
      <4>1. i + 1 \in 1..Len(finalizing) /\ finalizing'[i] = finalizing[i + 1] /\ finalizing'[i] \in Snapshot
        BY <1>0, <2>1, <3>1
      <4>2. finalizing'[i].version \in 1..MaxVersions
        BY <4>1 DEF Snapshot
      <4> QED BY <1>0, <4>1, <4>2
    <3> QED BY <3>1, <3>2
  <2>4. CASE new.version \in Versions
    <3>1. VersionsKnown' /\ HoofprintsAreNumbered'
      BY <1>0, <2>1, <2>3, <2>4 DEF VersionsKnown, HoofprintsAreNumbered
    <3> QED BY <1>1, <1>3, <3>1 DEF FinalizeInsert
  <2>5. CASE new.version \notin Versions
    <3>1. new.version = Len(hoofprints) + 1
      <4>1. \A i \in 1..Len(hoofprints) : new.version # i
        BY <1>0, <2>5 DEF Versions
      <4> QED BY <1>0, <2>2, <4>1
    <3> HIDE DEF new
    <3>2. hoofprints' = Append(hoofprints, new)
      BY <2>1, <2>5 DEF new
    <3>3. hoofprints' \in Seq(Snapshot) /\ Len(hoofprints') = Len(hoofprints) + 1 /\ \A i \in 1..Len(hoofprints') : hoofprints'[i].version = i
      BY <1>0, <2>2, <3>1, <3>2
    <3>4. Len(hoofprints') <= MaxVersions /\ \A i \in 1..Len(finalizing') : finalizing'[i].version <= Len(hoofprints') + 1
      BY <1>0, <2>2, <2>3, <3>1, <3>3
    <3>5. VersionsKnown' /\ HoofprintsAreNumbered'
      BY <2>3, <3>3, <3>4 DEF VersionsKnown, HoofprintsAreNumbered
    <3> QED BY <1>1, <1>3, <3>5 DEF FinalizeInsert
  <2> QED BY <2>4, <2>5
<1> QED BY <1>2, <1>3 DEF HoofprintStep

(*------------------------- the post-show history -------------------------*)
\* A finite set of no more drafts than there are ids can be numbered.
LEMMA NumberingExists ==
  ASSUME NEW drafts, IsFiniteSet(drafts), Cardinality(drafts) <= MaxRecords
  PROVE  \E f \in [drafts -> 1..MaxRecords] : \A a, b \in drafts : f[a] = f[b] => a = b
<1> DEFINE n == Cardinality(drafts)
<1>1. n \in Nat /\ ExistsBijection(1..n, drafts)
  BY FS_CardinalityType
<1>2. PICK g : g \in Bijection(1..n, drafts)
  BY <1>1 DEF ExistsBijection
<1>3. g \in [1..n -> drafts] /\ \A d \in drafts : \E i \in 1..n : g[i] = d
  BY <1>2 DEF Bijection, Injection, Surjection
<1> DEFINE f == [d \in drafts |-> CHOOSE i \in 1..n : g[i] = d]
<1>4. \A d \in drafts : f[d] \in 1..n /\ g[f[d]] = d
  BY <1>3
<1>5. 1..n \subseteq 1..MaxRecords
  BY <1>1, ShowHorsesAssumption
<1>6. f \in [drafts -> 1..MaxRecords]
  BY <1>4, <1>5
<1> HIDE DEF f
<1> QED BY <1>4, <1>6

\* What a rebuild writes are records.
LEMMA GeneratedRecords ==
  ASSUME ShowHorsesTypeOK, Cardinality(Generated) <= MaxRecords
  PROVE  Numbered(Generated) \subseteq Record
<1> DEFINE one == [h \in Assigned |-> [source |-> "registry", horse |-> h, used |-> assigned[h].available,
                                       counted |-> assigned[h].available]]
           held == {m \in LeasedNames : leased[m].exists}
           two == [n \in held |-> [source |-> "leased", horse |-> "none", used |-> leased[n].available,
                                   counted |-> leased[n].available]]
<1>1. Generated = {one[h] : h \in Assigned} \cup {two[n] : n \in held}
  BY DEF Generated
<1>2. IsFiniteSet(Assigned) /\ IsFiniteSet(held)
  BY FS_Subset, ShowHorsesAssumption DEF Assigned
<1>3. ASSUME NEW h \in Assigned PROVE h \in ShowHorseSet /\ assigned[h].available \in BOOLEAN
  <2>1. h \in ShowHorseSet /\ assigned[h].exists /\ assigned[h] \in Assignment \cup {NoAssignment}
    BY DEF ShowHorsesTypeOK, Assigned
  <2>2. assigned[h] \in Assignment
    BY <2>1 DEF NoAssignment
  <2> QED BY <2>1, <2>2 DEF Assignment
<1>4. ASSUME NEW n \in held PROVE leased[n].available \in BOOLEAN
  <2>1. leased[n].exists /\ leased[n] \in Lease \cup {NoLease}
    BY DEF ShowHorsesTypeOK
  <2>2. leased[n] \in Lease
    BY <2>1 DEF NoLease
  <2> QED BY <2>2 DEF Lease
<1>5. \A d \in Generated : /\ d.source \in {"registry", "leased", "other"} /\ d.horse \in ShowHorseSet \cup {"none"}
                           /\ d.used \in BOOLEAN /\ d.counted \in BOOLEAN
  <2>1. ASSUME NEW h \in Assigned
        PROVE  one[h].source = "registry" /\ one[h].horse = h /\ one[h].used \in BOOLEAN /\ one[h].counted \in BOOLEAN
    BY <1>3
  <2>2. ASSUME NEW n \in held
        PROVE  two[n].source = "leased" /\ two[n].horse = "none" /\ two[n].used \in BOOLEAN /\ two[n].counted \in BOOLEAN
    BY <1>4
  <2> HIDE DEF one, two, held
  <2> QED BY <1>1, <1>3, <2>1, <2>2
<1>6. IsFiniteSet(Generated)
  <2> HIDE DEF one, two, held
  <2>1. IsFiniteSet({one[h] : h \in Assigned}) /\ IsFiniteSet({two[n] : n \in held})
    BY <1>2, FiniteImage
  <2> QED BY <1>1, <2>1, FS_Union
<1> DEFINE rank == CHOOSE f \in [Generated -> 1..MaxRecords] : \A a, b \in Generated : f[a] = f[b] => a = b
<1>7. rank \in [Generated -> 1..MaxRecords]
  <2>1. \E f \in [Generated -> 1..MaxRecords] : \A a, b \in Generated : f[a] = f[b] => a = b
    BY <1>6, NumberingExists
  <2> QED BY <2>1, Zenon
<1>8. Numbered(Generated) =
        {[id |-> rank[d], source |-> d.source, horse |-> d.horse, used |-> d.used, counted |-> d.counted] : d \in Generated}
  BY DEF Numbered
<1> HIDE DEF rank
<1>9. ASSUME NEW d \in Generated
      PROVE  [id |-> rank[d], source |-> d.source, horse |-> d.horse, used |-> d.used, counted |-> d.counted] \in Record
  BY <1>5, <1>7 DEF Record
<1> QED BY <1>8, <1>9

\* The requests on the history leave the plan and the Hoofprints alone.
LEMMA HistoryFrame ==
  ASSUME ShowInv, OnlyHistory, history' \in History, FinalHasRecords', RequestsLoaded'
  PROVE  ShowInv'
BY DEF ShowInv, OnlyHistory, ShowHorsesTypeOK, AwardsAssigned, VersionsKnown, HoofprintsAreNumbered

\* Building, finalizing and late saves keep records in a final history.
LEMMA HistoryStepInv ==
  ASSUME ShowInv, HistoryStep
  PROVE  ShowInv'
<1>0. ShowHorsesTypeOK /\ FinalHasRecords /\ RequestsLoaded /\ history \in History \cup {NoHistory}
  BY DEF ShowInv, ShowHorsesTypeOK
<1>00. history.exists => history \in History
  BY <1>0 DEF NoHistory
<1>1. CASE HistoryBuild
  <2>1. history' = [exists |-> TRUE, final |-> FALSE, records |-> Numbered(Generated)] /\ requests' = requests /\ OnlyHistory
    BY <1>1 DEF HistoryBuild
  <2>2. Numbered(Generated) \subseteq Record
    BY <1>0, <1>1, GeneratedRecords DEF HistoryBuild
  <2>3. history' \in History /\ history'.exists /\ ~history'.final
    BY <2>1, <2>2 DEF History
  <2>4. FinalHasRecords' /\ RequestsLoaded'
    BY <1>0, <2>1, <2>3 DEF FinalHasRecords, RequestsLoaded
  <2> QED BY <2>1, <2>3, <2>4, HistoryFrame
<1>2. CASE HistoryFinalize
  <2>1. /\ history.exists /\ (history.final \/ history.records # {}) /\ history' = [history EXCEPT !.final = TRUE]
        /\ requests' = requests /\ OnlyHistory
    BY <1>2 DEF HistoryFinalize
  <2>2. history' \in History /\ history'.exists /\ history'.records = history.records
    BY <1>00, <2>1 DEF History
  <2>3. FinalHasRecords' /\ RequestsLoaded'
    BY <1>0, <2>1, <2>2 DEF FinalHasRecords, RequestsLoaded
  <2> QED BY <2>1, <2>2, <2>3, HistoryFrame
<1>3. ASSUME NEW kind, NEW id, NEW new, HistoryRequest(kind, id, new),
             kind \in {"record", "add"} => new \in Record /\ new.id = id
      PROVE  ShowInv'
  <2>1. /\ history.exists /\ requests' = requests \cup {[kind |-> kind, id |-> id, new |-> new]} /\ history' = history /\ OnlyHistory
    BY <1>3 DEF HistoryRequest
  <2>2. FinalHasRecords' /\ RequestsLoaded'
    BY <1>0, <1>3, <2>1 DEF FinalHasRecords, RequestsLoaded
  <2> QED BY <1>00, <2>1, <2>2, HistoryFrame
<1>4. ASSUME NEW q \in requests, SaveNotes(q) PROVE ShowInv'
  <2>1. history' = [history EXCEPT !.final = FALSE] /\ requests' = requests \ {q} /\ OnlyHistory
    BY <1>4 DEF SaveNotes
  <2>2. history.exists
    BY <1>0 DEF RequestsLoaded
  <2>3. history' \in History /\ history'.exists /\ ~history'.final
    BY <1>00, <2>1, <2>2 DEF History
  <2>4. FinalHasRecords' /\ RequestsLoaded'
    BY <1>0, <2>1, <2>3 DEF FinalHasRecords, RequestsLoaded
  <2> QED BY <2>1, <2>3, <2>4, HistoryFrame
<1>5. ASSUME NEW q \in requests, SaveRecord(q) PROVE ShowInv'
  <2> DEFINE rows == {r \in history.records : r.id # q.id} \cup {q.new}
  <2>1. /\ q.kind \in {"record", "add"} /\ history' = [history EXCEPT !.records = rows]
        /\ requests' = requests \ {q} /\ OnlyHistory
    BY <1>5 DEF SaveRecord
  <2>2. history.exists /\ q.new \in Record
    BY <1>0, <2>1 DEF RequestsLoaded
  <2>3. rows \subseteq Record /\ rows # {}
    BY <1>00, <2>2 DEF History
  <2> HIDE DEF rows
  <2>4. history' \in History /\ history'.exists /\ history'.records # {}
    BY <1>00, <2>1, <2>2, <2>3 DEF History
  <2>5. FinalHasRecords' /\ RequestsLoaded'
    BY <1>0, <2>1, <2>4 DEF FinalHasRecords, RequestsLoaded
  <2> QED BY <2>1, <2>4, <2>5, HistoryFrame
<1>6. HistoryRequest("notes", 0, NoHistory) => ShowInv'
  BY <1>3
<1> QED BY <1>1, <1>2, <1>3, <1>4, <1>5, <1>6 DEF HistoryStep

\* Every step of the show's horses keeps their invariant.
LEMMA ShowNextInv == ShowInv /\ [ShowHorsesNext]_showHorsesVars => ShowInv'
<1>1. ShowInv /\ UNCHANGED showHorsesVars => ShowInv'
  BY DEF showHorsesVars, ShowInv, ShowHorsesTypeOK, AwardsAssigned, VersionsKnown, HoofprintsAreNumbered, FinalHasRecords,
     RequestsLoaded
<1> QED BY <1>1, PlanStepInv, HoofprintStepInv, HistoryStepInv DEF ShowHorsesNext

-----------------------------------------------------------------------------
\* Rides divided over the horses, rounded up, are more than the horses there exactly when the rides are more than the
\* horses can carry.
LEMMA RoundedUp ==
  ASSUME NEW rides \in Nat, NEW each \in Nat \ {0}, NEW horses \in Nat
  PROVE  (rides + each - 1) \div each > horses <=> rides > horses * each
<1> DEFINE d == rides + each - 1
           q == d \div each
<1>1. d \in Nat /\ q \in Nat /\ each * q <= d /\ d < each * q + each
  OBVIOUS
<1> HIDE DEF q
<1>2. ASSUME q > horses PROVE rides > horses * each
  <2>1. q = horses + 1 + (q - horses - 1) /\ q - horses - 1 \in Nat
    BY <1>1, <1>2
  <2>2. each * q >= each * (horses + 1)
    BY <1>1, <1>2, <2>1
  <2>3. each * (horses + 1) = horses * each + each
    OBVIOUS
  <2> QED BY <1>1, <2>2, <2>3
<1>3. ASSUME ~(q > horses) PROVE ~(rides > horses * each)
  <2>1. each * q <= horses * each
    BY <1>1, <1>3
  <2> QED BY <1>1, <2>1
<1> QED BY <1>2, <1>3 DEF q

\* The board counts the horses right, and a show it calls ready has a fit horse for every ride.
LEMMA BoardIsSound == ShowInv => ReadinessIsSound
<1> SUFFICES ASSUME ShowInv PROVE ReadinessIsSound
  OBVIOUS
<1>1. TotalRides \in Nat
  BY SumToNat, ShowHorsesAssumption DEF TotalRides
<1>2. AvailableHorses \in Nat
  <2>1. IsFiniteSet(Available) /\ IsFiniteSet(AvailableLeases)
    BY FS_Subset, ShowHorsesAssumption DEF Available, Assigned, AvailableLeases
  <2> QED BY <2>1, FS_CardinalityType DEF AvailableHorses
<1>3. Ratio(RidesPerHorse) \in Nat \ {0}
  BY ShowHorsesAssumption DEF Ratio
<1>4. RequiredHorses(TotalRides, RidesPerHorse) \in Int
  BY <1>1, <1>3 DEF RequiredHorses
<1>5. RequiredHorses(TotalRides, RidesPerHorse) > AvailableHorses <=> TotalRides > AvailableHorses * Ratio(RidesPerHorse)
  BY <1>1, <1>2, <1>3, RoundedUp DEF RequiredHorses
<1>6. Shortage > 0 <=> TotalRides > AvailableHorses * Ratio(RidesPerHorse)
  BY <1>2, <1>4, <1>5 DEF Shortage
<1>7. ASSUME ShowReady, NEW c \in ShowClassIds, EntriesOf[c] > 0
      PROVE  \/ \E h \in Assigned \ Unfit : assigned[h].available /\ c \in assigned[h].classes
             \/ \E n \in AvailableLeases : c \in leased[n].classes
  <2>1. c \in Covered
    BY <1>7 DEF ShowReady, Uncovered
  <2>2. (\E h \in Available : c \in assigned[h].classes) \/ \E n \in AvailableLeases : c \in leased[n].classes
    BY <2>1 DEF Covered
  <2>3. \A h \in Available : h \in Assigned \ Unfit /\ assigned[h].available
    BY <1>7 DEF ShowReady, ComplianceReady, Available
  <2> QED BY <2>2, <2>3
<1> QED BY <1>6, <1>7 DEF ReadinessIsSound

\* Planning gives up neither an award nor its horse.
LEMMA PlanningKeepsAwards ==
  ASSUME ShowInv, ShowHorsesNext
  PROVE  /\ assigned' # assigned => awards' = awards
         /\ \A s \in Sessions : awards'[s] # "none" => assigned'[awards'[s]].exists
<1>1. AwardsAssigned'
  BY ShowNextInv DEF ShowInv
<1>2. assigned' # assigned => awards' = awards
  BY DEF ShowHorsesNext, PlanStep, HoofprintStep, HistoryStep, SeasonProfileSave, ShowHorseSave, ShowHorseRemove,
     ShowHorseAwardSave, ShowHorseAwardRemove, ShowLeasedHorseSave, ShowLeasedHorseRemove, FinalizeRead, FinalizeInsert,
     HistoryBuild, HistoryFinalize, HistoryRequest, SaveNotes, SaveRecord, OnlyHistory
<1> QED BY <1>1, <1>2 DEF AwardsAssigned

\* A save adds a class outside the profile only as an approved exception.
LEMMA ClassesOnlyLeave ==
  ASSUME ShowInv, ShowHorsesNext, NEW h \in ShowHorseSet,
         assigned'[h] # assigned[h], assigned'[h].exists,
         assigned[h].exists => assigned'[h].override = assigned[h].override, ~assigned'[h].override
  PROVE  Ineligible(h, assigned'[h].classes) \subseteq (IF assigned[h].exists THEN assigned[h].classes ELSE {})
<1>0. assigned \in [ShowHorseSet -> Assignment \cup {NoAssignment}]
  BY DEF ShowInv, ShowHorsesTypeOK
<1>1. ASSUME NEW g \in ShowHorseSet, ShowHorseRemove(g) PROVE FALSE
  BY <1>0, <1>1 DEF ShowHorseRemove, NoAssignment
<1>2. ASSUME UNCHANGED assigned PROVE FALSE
  BY <1>2
<1>3. PICK g \in ShowHorseSet, manager \in BOOLEAN, new \in Assignment : ShowHorseSave(g, manager, new)
  BY <1>1, <1>2 DEF ShowHorsesNext, PlanStep, HoofprintStep, HistoryStep, SeasonProfileSave,
     ShowHorseAwardSave, ShowHorseAwardRemove, ShowLeasedHorseSave, ShowLeasedHorseRemove, FinalizeRead, FinalizeInsert,
     HistoryBuild, HistoryFinalize, HistoryRequest, SaveNotes, SaveRecord, OnlyHistory
<1>4. PICK kept \in Accepted(g, manager, new) : assigned' = [assigned EXCEPT ![g] = kept]
  BY <1>3 DEF ShowHorseSave
<1>5. g = h /\ assigned'[h] = kept
  BY <1>0, <1>4
<1>6. kept.classes = new.classes
  BY <1>0, AcceptedIsAssignment
<1> DEFINE before == IF assigned[h].exists THEN Ineligible(h, assigned[h].classes) ELSE {}
<1>7. Ineligible(h, new.classes) = {} \/ Ineligible(h, new.classes) \subseteq before
  BY <1>4, <1>5 DEF Accepted
<1>8. before \subseteq (IF assigned[h].exists THEN assigned[h].classes ELSE {})
  BY DEF Ineligible
<1> HIDE DEF before
<1> QED BY <1>5, <1>6, <1>7, <1>8

\* Whatever is saved late, the records of a final history keep their ids.
LEMMA FinalRecordsStay ==
  ASSUME ShowInv, ShowHorsesNext, history.exists, history.final
  PROVE  /\ history.records # {}
         /\ {r.id : r \in history.records} \subseteq {r.id : r \in history'.records}
<1>0. history \in History /\ history.records # {} /\ RequestsLoaded
  BY DEF ShowInv, ShowHorsesTypeOK, NoHistory, FinalHasRecords
<1>1. CASE UNCHANGED history
  BY <1>0, <1>1
<1>2. CASE HistoryFinalize
  <2>1. history'.records = history.records
    BY <1>0, <1>2 DEF HistoryFinalize, History
  <2> QED BY <1>0, <2>1
<1>3. ASSUME NEW q \in requests, SaveNotes(q) PROVE history'.records = history.records
  BY <1>0, <1>3 DEF SaveNotes, History
<1>4. ASSUME NEW q \in requests, SaveRecord(q)
      PROVE  {r.id : r \in history.records} \subseteq {r.id : r \in history'.records}
  <2>1. q.new.id = q.id
    BY <1>0, <1>4 DEF SaveRecord, RequestsLoaded
  <2>2. history'.records = {r \in history.records : r.id # q.id} \cup {q.new}
    BY <1>0, <1>4 DEF SaveRecord, History
  <2> QED BY <2>1, <2>2
<1>5. ~HistoryBuild
  BY DEF HistoryBuild
<1>6. PlanStep \/ HoofprintStep => UNCHANGED history
  BY DEF PlanStep, HoofprintStep, SeasonProfileSave, ShowHorseSave, ShowHorseRemove, ShowHorseAwardSave,
     ShowHorseAwardRemove, ShowLeasedHorseSave, ShowLeasedHorseRemove, FinalizeRead, FinalizeInsert
<1> QED BY <1>0, <1>1, <1>2, <1>3, <1>4, <1>5, <1>6 DEF ShowHorsesNext, HistoryStep, HistoryRequest
-----------------------------------------------------------------------------
(*------------------------------- the barn --------------------------------*)
FacilitiesInv == FacilitiesTypeOK /\ ParentsExist /\ NoCycle /\ StallsAreDisjoint /\ ReservationsAreDisjoint
BarnInv == ShowInv /\ CareInv /\ FacilitiesInv /\ StationInv

\* Every step of the barn is a step of one of its parts.
LEMMA BarnMoves ==
  ASSUME [BarnNext]_barnVars
  PROVE  /\ ShowHorsesNext \/ UNCHANGED showHorsesVars
         /\ HorseCareNext \/ UNCHANGED horseCareVars
         /\ FacilitiesNext \/ UNCHANGED facilityVars
         /\ StationNext \/ UNCHANGED stationVars
<1> DEFINE Moves == /\ ShowHorsesNext \/ UNCHANGED showHorsesVars
                    /\ HorseCareNext \/ UNCHANGED horseCareVars
                    /\ FacilitiesNext \/ UNCHANGED facilityVars
                    /\ StationNext \/ UNCHANGED stationVars
<1>1. CASE UNCHANGED barnVars
  BY <1>1 DEF barnVars
<1>2. CASE OnlyHorses /\ (PlanStep \/ HoofprintStep \/ HistoryStep \/ PlanOnce)
  BY <1>2, PlanOnceIsPlan DEF OnlyHorses, ShowHorsesNext
<1>3. CASE OnlyPapers /\ (CogginsStep \/ DocumentStep \/ CareStep \/ RelationStep \/ AccessStep)
  BY <1>3 DEF OnlyPapers, HorseCareNext
<1>4. CASE OnlyFacility /\ (SpaceStep \/ StallStep \/ TurnoutStep \/ ReservationStep)
  BY <1>4 DEF OnlyFacility, FacilitiesNext
<1>5. CASE OnlyStation /\ (DeviceStep \/ ReviewStep \/ Correction)
  <2>1. Correction => ReviewStep
    BY DEF Correction, ReviewStep
  <2> QED BY <1>5, <2>1 DEF OnlyStation, StationNext
<1> HIDE DEF Moves
<1>6. CASE BarnNext
  BY <1>2, <1>3, <1>4, <1>5, <1>6 DEF BarnNext
<1> QED BY <1>1, <1>6 DEF Moves

\* Every step of the facility keeps its tables disjoint and its spaces a tree.
LEMMA FacilitiesNextInv == FacilitiesInv /\ [FacilitiesNext]_facilityVars => FacilitiesInv'
BY FacilitiesTypes, TreeNext, StallsNext, ReservationsNext DEF FacilitiesInv

\* Every step of the barn keeps the invariants of all its parts.
LEMMA BarnNextInv == BarnInv /\ [BarnNext]_barnVars => BarnInv'
BY BarnMoves, ShowNextInv, CareNextInv, FacilitiesNextInv, StationNextInv DEF BarnInv

\* The invariant the barn keeps, for any horses, papers, spaces, workers and recorded shifts.
THEOREM BarnInvHolds == BarnSpec => []BarnInv
<1>1. BarnInit => BarnInv
  <2>1. FacilitiesInit => FacilitiesInv
    BY TreeInit, FacilitiesAssumption DEF FacilitiesInit, FacilitiesInv, FacilitiesTypeOK, StallsAreDisjoint, ReservationsAreDisjoint
  <2> QED BY <2>1, ShowInitInv, CareInitInv, StationInitInv DEF BarnInit, BarnInv
<1>2. BarnInv /\ [BarnNext]_barnVars => BarnInv'
  BY BarnNextInv
<1> QED BY <1>1, <1>2, PTL DEF BarnSpec

\* What holds of the barn between two requests, as MCBarn states it: Hoofprints are numbered, the readiness board and
\* the papers say what is recorded, spaces are a tree, nobody has two open shifts, credits are posted once.
THEOREM BarnInvariantHolds == BarnSpec => []BarnInvariant
<1>1. BarnInv => BarnInvariant
  <2> SUFFICES ASSUME BarnInv PROVE BarnInvariant
    OBVIOUS
  <2>1. ShowHorsesTypeOK /\ HoofprintsAreNumbered /\ ReadinessIsSound
    BY BoardIsSound DEF BarnInv, ShowInv
  <2>2. HorseCareTypeOK /\ ReadyMeansPapers /\ DoneCareIsQuiet /\ OneCreditRecipient
    BY ReadySaysPapers, ScheduleShowsLast, RecipientIsOne DEF BarnInv, CareInv
  <2>3. FacilitiesTypeOK /\ SpacesFormATree /\ ReservationsAreDisjoint
    BY TreeFollows DEF BarnInv, FacilitiesInv
  <2>4. StationTypeOK /\ OneOpenShift /\ OneCreditPerRule
    BY OpenShiftsAreOne DEF BarnInv, StationInv
  <2> QED BY <2>1, <2>2, <2>3, <2>4 DEF BarnInvariant
<1> QED BY <1>1, BarnInvHolds, PTL

\* The stalls of the barn stay apart while everything else in it moves.
THEOREM BarnStallsHold == BarnSpec => []StallsAreDisjoint
<1>1. BarnInv => StallsAreDisjoint
  BY DEF BarnInv, FacilitiesInv
<1> QED BY <1>1, BarnInvHolds, PTL

\* No award loses its horse, and planning takes no award (show_horse_remove, show_horse_award).
THEOREM AwardsHold == BarnSpec => AwardsKeepTheirHorse
<1> DEFINE Kept == (assigned' # assigned => awards' = awards)
                   /\ (\A s \in Sessions : awards'[s] # "none" => assigned'[awards'[s]].exists)
<1>1. BarnInv /\ [BarnNext]_barnVars => [Kept]_showHorsesVars
  BY BarnMoves, PlanningKeepsAwards DEF BarnInv
<1> QED BY <1>1, BarnInvHolds, PTL DEF AwardsKeepTheirHorse, BarnSpec

\* Without an approved exception a save adds no class outside the season profile.
THEOREM ClassesHold == BarnSpec => UnapprovedClassesOnlyLeave
<1> DEFINE Leave ==
      \A h \in ShowHorseSet :
       (assigned'[h] # assigned[h] /\ assigned'[h].exists /\ (assigned[h].exists => assigned'[h].override = assigned[h].override)
         /\ ~assigned'[h].override) =>
         Ineligible(h, assigned'[h].classes) \subseteq (IF assigned[h].exists THEN assigned[h].classes ELSE {})
<1>1. BarnInv /\ [BarnNext]_barnVars => [Leave]_showHorsesVars
  BY BarnMoves, ClassesOnlyLeave DEF BarnInv
<1> QED BY <1>1, BarnInvHolds, PTL DEF UnapprovedClassesOnlyLeave, BarnSpec

\* The records of a final history keep their ids, whatever request saves late.
THEOREM FinalHistoryHolds == BarnSpec => FinalHistoryKeepsRecords
<1> DEFINE Kept == (history.exists /\ history.final) =>
                     /\ history.records # {}
                     /\ {r.id : r \in history.records} \subseteq {r.id : r \in history'.records}
<1>1. BarnInv /\ [BarnNext]_barnVars => [Kept]_showHorsesVars
  BY BarnMoves, FinalRecordsStay DEF BarnInv
<1> QED BY <1>1, BarnInvHolds, PTL DEF FinalHistoryKeepsRecords, BarnSpec

\* Waiting makes no horse ready.
THEOREM TimeHolds == BarnSpec => TimeNeverHeals
<1> DEFINE Stay == \A h \in Horses, asOf \in CareDates :
                     (today' > today /\ Compliance(h, asOf) = "attention") => (Compliance(h, asOf))' = "attention"
<1>1. BarnInv /\ [BarnNext]_barnVars => [Stay]_horseCareVars
  BY BarnMoves, AgeingNeverHeals DEF BarnInv
<1> QED BY <1>1, BarnInvHolds, PTL DEF TimeNeverHeals, BarnSpec

\* One PIN, one entry; a locked PIN, none.
THEOREM EntriesHold == BarnSpec => PinBuysOneEntry /\ LockedMeansOut
<1> DEFINE Sent == (\E s \in shifts' : \A t \in shifts : s.id # t.id) => station'.person = NoOne
           Out  == \A w \in Workers : (Locked(w) /\ station'.person = w) => station.person = w
<1>1. BarnInv /\ [BarnNext]_barnVars => [Sent]_stationVars
  BY BarnMoves, EntrySendsAway DEF BarnInv
<1>2. BarnInv /\ [BarnNext]_barnVars => [Out]_stationVars
  BY BarnMoves, LockKeepsOut DEF BarnInv
<1> QED BY <1>1, <1>2, BarnInvHolds, PTL DEF PinBuysOneEntry, LockedMeansOut, BarnSpec

\* No credit is posted for work that was not over, approved and longer than nothing.
THEOREM CreditsHold == BarnSpec => CreditsAreEarned
<1> DEFINE Earned == \A c \in credits' \ credits :
                       \E s \in shifts : s.id = c.shift /\ s.approved /\ s.role = "working_student" /\ s.out > s.in
<1>1. BarnInv /\ [BarnNext]_barnVars => [Earned]_stationVars
  BY BarnMoves, PostedIsEarned DEF BarnInv
<1> QED BY <1>1, BarnInvHolds, PTL DEF CreditsAreEarned, BarnSpec

\* What no request of the barn does, as MCBarn states it.
THEOREM BarnStepsHold == BarnSpec => BarnSteps
BY AwardsHold, ClassesHold, TimeHolds, EntriesHold, CreditsHold DEF BarnSteps
=============================================================================
