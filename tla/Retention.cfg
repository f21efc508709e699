\* Copies and prunes of one destination, interleaved.
SPECIFICATION Spec
CONSTANTS
    Stamp <- MCStamp
    Tier <- MCTier
    Key <- MCKey
    Policies <- MCPolicies
    MaxCopies = 2
INVARIANTS HistoryKept PlanSparesNewest
CHECK_DEADLOCK FALSE
