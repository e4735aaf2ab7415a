SPECIFICATION TelemetrySpec
CONSTANTS
    Minute = 2
    Hour = 4
    KeepRaw = 4
    KeepMinutes = 6
    KeepHours = 8
    Ranges = {"6h"}
    RangeTicks <- MCRangeTicks
    RangeTable <- MCRangeTable
    RateGap = 2
    MaxTime = 9
    MaxBack = 1
    MaxPending = 1
    MaxStored = 2
INVARIANT ChartsComplete
