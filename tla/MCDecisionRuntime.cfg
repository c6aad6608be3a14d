CONSTANTS
    Releases <- MCReleases
    Ids = {1, 2}
    Slots = {1, 2}
    Limits = {2}
    Calibration <- MCCalibration
    Snapshots <- MCSnapshots
    Requests <- MCRequests
    MaxAge = 1
    MaxAgeSlots = 1
    MaxAttempts = 2
    MaxTime = 2
SPECIFICATION FairSpec
INVARIANTS
    ExcessIsRecordedFirst
PROPERTIES
    PredictionsAreCurrent
    EstimatesEnd
CHECK_DEADLOCK FALSE
