------------------------- MODULE MCDeploymentWatcher --------------------------
(***************************************************************************)
(* A program that may be upgraded in slot 2 beside one that never changes, *)
(* an artifact calibrated before the upgrade and one calibrated after it.  *)
(***************************************************************************)
EXTENDS DeploymentWatcher, TLC

CONSTANTS oldArtifact, newArtifact, program, native, original, upgraded, builtin, alice, bob

WatchersAlike == Permutations(Watchers)

MCCalibration == [d \in Digests |-> IF d = oldArtifact THEN 1 ELSE 3]
MCDeployed == [f \in Fingerprints |-> CASE f = original -> 0 [] f = upgraded -> 2 [] OTHER -> NoSlot]
Bind(f) == [p \in Programs |-> IF p = program THEN f ELSE builtin]
MCGenesis == Bind(original)
MCManifests == {[digest |-> oldArtifact, bindings |-> Bind(original)],
                [digest |-> oldArtifact, bindings |-> Bind(upgraded)],
                [digest |-> newArtifact, bindings |-> Bind(upgraded)]}
==============================================================================
