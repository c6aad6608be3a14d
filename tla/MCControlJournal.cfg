CONSTANTS
    Releases <- MCReleases
    Ids = {1, 2, 3}
    Slots = {0, 1, 2}
    Limits = {1, 2}
    Calibration <- MCCalibration
    Instances = {"first", "pinned"}
    Pins <- MCPins
    Payloads <- MCPayloads
    MaxLines = 6
SPECIFICATION Spec
INVARIANTS
    JournalReplays
    AnswersAreCurrent
    DecisionsAreAdmitted
    OneLinePerRecord
PROPERTIES
    GateSpec
CHECK_DEADLOCK FALSE
