\* Two runs of any exercises on a day of eight minutes.
SPECIFICATION FairSpec
CONSTANTS
    Absent = Absent
    Minute = 2
    Day = 8
    Exercises <- AllExercises
    MaxStarts = 2
    StartBy = 16
    MaxSleeps = 1
    Naps = {3, 16}
    MaxNow = 52
CHECK_DEADLOCK FALSE
INVARIANTS
    TypeOK
    OneTimer
    StopsOnTime
    RunsTheRightDay
    FollowsEvenSchedule
PROPERTIES
    GoesForward
    EveryRunEnds
