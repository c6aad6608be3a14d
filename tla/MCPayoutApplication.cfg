CONSTANTS
    Attempts = 2
    Measurements <- MCMeasurements
    Remaining = 3
    ComputeCap = 100000
    DataCap = 1048576
    Fitted <- MCFitted
    Handlers = {h1, h2}
    MaxSteps = 2
    Groups = {1, 2, 3, 4}
    QueueOf <- MCQueueOf
    Demands <- MCDemands
    Gaps <- MCGaps
    MaxRows = 5
    Window = 2
    MaxAge = 2
    MinSamples = 1
    MinCalibration = 1
    Acceptable <- MCAcceptable
SPECIFICATION MCSpec
INVARIANTS
    LargestVerified
    LimitsCover
    OneStepper
    SplitIsLeakProof
    TrainingIsAccepted
    PredictionsAreAnchored
PROPERTIES
    StopIsHonoured
    RunsEnd
\* The service may be idle, and training ends.
CHECK_DEADLOCK FALSE
