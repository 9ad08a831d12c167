CONSTANTS
    None = None
    Hours = 3
    DaysPerWeek = 3
    FirstDay <- MCFirstDay
    Longest = 5
    Spring = {8, 14, 26}
    Fall = {20}
    ChangeHour <- MCChangeHour
    Schedules <- MCSchedules
    Windows <- MCWindows
    Horizon = 64
SPECIFICATION PlanSpec
INVARIANTS
    WindowsOpenOnTime
PROPERTIES
    PlannedForFirstMatch
    PlannedWithinCycle
