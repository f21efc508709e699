\* A router, a server behind it, one admin who may check either by hand.
SPECIFICATION MCSpec
CONSTANTS
    router = router
    server = server
    Monitor = {router, server}
    NoMonitor = NoMonitor
    Parent <- MCParent
    Clicker = {admin}
    Confirm = 2
    MaxConcurrent = 1
    Ceiling = 1
    Channels = 1
    Repeats = TRUE
    Incident = {i1, i2}
    Events = {"click", "abandon", "pause"}
INVARIANTS IncidentsFollowStatus AlertsAreBounded
PROPERTIES ConfirmedDown OutageIsRecorded RecoveryIsRecorded
