SPECIFICATION FairSpec
CONSTANTS
    Reports <- MCReports
    LastDay = 2
    DayOf <- MCDayOf
    FirmOf <- MCFirmOf
    Scans = {3}
    MaxReruns = 1
    MaxFaults = 1
INVARIANTS
    TypeOK
    GoldIsWhole
    AnswersAreReused
    DeltaCaughtUp
    ServedTogether
PROPERTIES
    RowsStay
    ReportsBecomeSearchable
