SPECIFICATION Spec
CONSTANTS
    FirstYear = 2024
    FirstMonth = 1
    FirstWeekday = 1
    Months = 15
    Slots = 3
    Schedules <- MCSchedules
    Zones <- MCZones
    MaxDelay = 2
INVARIANT NextIsFirst
PROPERTY EveryMonth
CHECK_DEADLOCK FALSE
