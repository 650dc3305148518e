CONSTANTS
    LastEvent = 3
    LastTick = 3
    Fractions = 2
    Retention = 2
    PageSize = 1
    ExportCap = 2
SPECIFICATION SpecAuditLog
CHECK_DEADLOCK FALSE
INVARIANTS
    PagesLeaveNothingOut
