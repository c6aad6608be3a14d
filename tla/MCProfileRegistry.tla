-------------------------- MODULE MCProfileRegistry --------------------------
(***************************************************************************)
(* Small instances of ProfileRegistry: two revisions that may carry the    *)
(* same artifact, so that aliases occur, and a program that can be         *)
(* upgraded between the calibrations of the two artifacts.                 *)
(***************************************************************************)
EXTENDS ProfileRegistry

CONSTANTS oldArtifact, newArtifact, p1, p2, original, upgraded, q1, q2, q3

VARIABLE scenario   \* which parts of the history this behaviour explores

MCCalibration == [d \in Digests |-> IF d = oldArtifact THEN 1 ELSE 2]
MCNewest == [d \in Digests |-> IF d = oldArtifact THEN 1 ELSE 2]
MCDeployed == [f \in Fingerprints |-> IF f = original THEN NoSlot ELSE 1]

\* The old artifact is bound to the original program, the new one to the
\* upgraded program; one manifest rebinds the old artifact to the upgrade.
MCManifests ==
    {[digest |-> d, bindings |-> [p \in Programs |-> f]] :
        <<d, f>> \in {<<oldArtifact, original>>, <<newArtifact, upgraded>>,
                      <<oldArtifact, upgraded>>}}

\* Either releases of two revisions with one control and one execution, or one
\* revision with controls enough for a streak that a complete outcome cuts.
Scope == CASE scenario = "releases" -> \A q \in Requests \ {q1} : controls[q] = NoSelection
           [] scenario = "controls" -> /\ state[2] = "absent"
                                       /\ \A o \in Observations : executions[o] = NoExecution
                                       /\ ~forced /\ ~watcherFailed
MCInit == Init /\ scenario \in {"releases", "controls"}
MCNext == Next /\ UNCHANGED scenario /\ Scope'
MCSpec == MCInit /\ [][MCNext]_<<vars, scenario>>
==============================================================================
