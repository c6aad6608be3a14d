CONSTANTS
    Revisions = {1, 2}
    first = first
    second = second
    p1 = p1
    original = original
    Digests = {first, second}
    Programs = {p1}
    Fingerprints = {original}
    Slots = {1}
    Requests = {"q"}
    Observations = {}
    NoDigest = NoDigest
    NoFingerprint = NoFingerprint
    Calibration <- MCCalibration
    Newest <- MCNewest
    Qualified = {first, second}
    Deployed <- MCDeployed
    Manifests <- MCManifests
    MaxObservationAge = 1
    MaxDeploymentAge = 1
    MaxFailureStreak = 1
    alice = alice
    bob = bob
    Callers = {alice, bob}
    Calls <- MCCalls
SPECIFICATION MCSpec
INVARIANTS
    SkipsAreCurrent
    SelectedControlsCount
SYMMETRY CallersAlike
CHECK_DEADLOCK FALSE
