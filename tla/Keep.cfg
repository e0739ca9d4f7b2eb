\* The caller's calls are bounded (MaxCalls), so the system stops.
CONSTANTS
    a1 = a1
    a2 = a2
    url = url
    badurl = badurl
    none = none
    Alerts <- MCAlerts
    BadAlerts <- MCBadAlerts
    NoURL = none
    GoodURLs = {url}
    BadURLs = {badurl}
    OtherStatuses <- MCOtherStatuses
    MaxCalls = 4
SPECIFICATION Spec
CHECK_DEADLOCK FALSE
INVARIANTS AcceptedWhenNil DuplicateOnlyAfterTransportError
