CONSTANTS
    Revisions = {1}
    oldArtifact = oldArtifact
    newArtifact = newArtifact
    program = program
    native = native
    original = original
    upgraded = upgraded
    builtin = builtin
    alice = alice
    bob = bob
    Digests = {oldArtifact, newArtifact}
    Programs = {program, native}
    Fingerprints = {original, upgraded, builtin}
    Slots = {0, 1, 2, 3}
    Requests = {}
    Observations = {}
    NoDigest = NoDigest
    NoFingerprint = NoFingerprint
    Calibration <- MCCalibration
    Newest <- MCCalibration
    Qualified = {oldArtifact, newArtifact}
    Deployed <- MCDeployed
    Manifests <- MCManifests
    MaxObservationAge = 2
    MaxDeploymentAge = 1
    MaxFailureStreak = 1
    Watchers = {alice, bob}
    Upgradeable = {program}
    Genesis <- MCGenesis
SPECIFICATION WSpec
INVARIANTS
    EvidenceWasExecuted
    GrantsSeeTheChain
PROPERTIES
    RecoveryIsCoherent
SYMMETRY WatchersAlike
CHECK_DEADLOCK FALSE
