SPECIFICATION Spec
CONSTANTS
    l1 = l1
    l2 = l2
    p1 = p1
    p2 = p2
    a1 = a1
    a2 = a2
    Lessons = {l1, l2}
    Times <- MCTimes
    Regular <- MCRegular
    Riders = {p1, p2}
    Capacity = 1
    Marks = {"expected", "present", "excused"}
    Accounts = {a1, a2}
    NoAccount = NoAccount
    AccountOf <- MCAccountOf
    Spaces = {s1, s2}
    NoLesson = NoLesson
    MaxReservations = 2
CONSTRAINT RoomsOrRosters
CHECK_DEADLOCK FALSE
INVARIANTS
    TypeOK
    RosterIsPaired
    
    
    NoDoubleBooking
PROPERTIES
    MovesFitCapacity
    ClosedRosterStays
    RoomFollowsLesson
