SPECIFICATION Spec
CONSTANTS
    l1 = l1
    p1 = p1
    a1 = a1
    Workers = {w1, w2}
    Lessons = {l1}
    Times <- MCTimes
    Regular <- MCRegular
    Riders = {p1}
    Capacity = 1
    Marks = {"expected", "present", "excused"}
    Accounts = {a1}
    NoAccount = NoAccount
    AccountOf <- MCAccountOf
    Spaces = {s1}
    NoLesson = NoLesson
    MaxReservations = 1
CHECK_DEADLOCK FALSE
PROPERTY
    CompletedIsFinal
