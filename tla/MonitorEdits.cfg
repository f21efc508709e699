\* The form of one monitor, submitted again and again.
SPECIFICATION EditsSpec
CONSTANTS
    Router = router
    Mail = mail
INVARIANT EditTakesEffect
CHECK_DEADLOCK FALSE
