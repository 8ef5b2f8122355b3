SPECIFICATION BackupSpec
CONSTANTS
    Absent = Absent
    Cut = Cut
    MaxTx = 3
    MaxBackups = 2
    MaxRestores = 2
INVARIANTS
    BackupIsConsistent
    OnlyCompleteBackups
    RestoreIsExact
CHECK_DEADLOCK FALSE
