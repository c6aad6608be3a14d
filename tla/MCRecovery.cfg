CONSTANTS
    Revisions = {1, 2}
    oldArtifact = oldArtifact
    newArtifact = newArtifact
    p1 = p1
    p2 = p2
    original = original
    upgraded = upgraded
    Digests = {oldArtifact, newArtifact}
    Programs = {p1}
    Fingerprints = {original, upgraded}
    Slots = {1, 2}
    q1 = q1
    q2 = q2
    q3 = q3
    Requests = {}
    Observations = {}
    NoDigest = NoDigest
    NoFingerprint = NoFingerprint
    Calibration <- MCCalibration
    Newest <- MCNewest
    Qualified = {oldArtifact, newArtifact}
    Deployed <- MCDeployed
    Manifests <- MCManifests
    MaxObservationAge = 1
    MaxDeploymentAge = 1
    MaxFailureStreak = 1
SPECIFICATION MCSpec
PROPERTIES
    RecoveryEvidenceIsNewer
