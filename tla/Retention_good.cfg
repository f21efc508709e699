\* One copy at a time, keep only the newest.
SPECIFICATION Spec
CONSTANTS
    Stamp <- MCStamp
    Tier <- MCTier
    Key <- MCKey
    Policies <- ZeroPolicy
    MaxCopies = 1
PROPERTY GoodBackupSurvives
CHECK_DEADLOCK FALSE
