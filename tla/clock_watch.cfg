\* Every clock of the bounds, for twenty-six days in half days.
SPECIFICATION Spec
CONSTANTS
    TicksPerDay = 2
    NotStarted = NotStarted
    RoundedUp <- MCRoundedUp
    Anchors <- MCAnchors
    Durations = {0, 1, 2, 5, 10}
    Percents = {0, 50, 70, 100}
    HolidaySets <- MCHolidaySets
    Horizon = 52
INVARIANTS DueAsDefined CountMatchesBreach
PROPERTIES StatusOnlyWorsens BreachIsAnnounced
\* The watch ends at the horizon.
CHECK_DEADLOCK FALSE
