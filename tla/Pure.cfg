CONSTANTS
    Digits = {"0", "1"}
    MaxLen = 5
SPECIFICATION PureSpec
INVARIANTS AcceptedForm LabelsCoverGrouping EdgeQueriesFlagged WeightOfClass AuditFollowsInstrumentation
