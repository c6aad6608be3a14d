CONSTANTS
    alice = alice
    bob = bob
    early = early
    late = late
    sent = sent
    resent = resent
    Collectors = {alice, bob}
    Ids = {"p", "q"}
    Inputs = {"x", "y"}
    Streams <- MCStreams
    MaxSerial = 4
    MaxRuns = 3
    Reconcilers = {early, late}
    Signatures = {sent, resent}
    Bodies <- MCBodies
    MaxCalls = 5
SPECIFICATION MCSpec
PROPERTIES
    RestartReusesEvidence
SYMMETRY Alike
CHECK_DEADLOCK FALSE
