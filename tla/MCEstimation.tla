---------------------------- MODULE MCEstimation -----------------------------
(***************************************************************************)
(* Two callers share an observation id or not, while the released artifact *)
(* is replaced, suspended or convicted.  The registry starts with revision *)
(* 1 released and revision 2, another artifact, being collected for: the   *)
(* history that leads there is checked in MCProfileRegistry.               *)
(***************************************************************************)
EXTENDS Estimation, TLC

CONSTANTS first, second, p1, original, alice, bob

CallersAlike == Permutations(Callers)

MCCalibration == [d \in Digests |-> 1]
MCNewest == [d \in Digests |-> 1]
MCDeployed == [f \in Fingerprints |-> NoSlot]
MCManifests == {[digest |-> d, bindings |-> [p \in Programs |-> original]] : d \in Digests}
ManifestOf(r) == [digest |-> IF r = 1 THEN first ELSE second, bindings |-> [p \in Programs |-> original]]

MCCalls == {[digest |-> first, id |-> q, slot |-> s, shadow |-> FALSE] : q \in Requests, s \in Slots}
           \cup {[digest |-> second, id |-> q, slot |-> 1, shadow |-> shadow] :
                     q \in Requests, shadow \in BOOLEAN}

MCInit == /\ EInit
          /\ state = [r \in Revisions |-> IF r = 1 THEN "active" ELSE "shadow"]
          /\ manifest = [r \in Revisions |-> ManifestOf(r)]
          /\ suspendedSlot = [r \in Revisions |-> NoSlot]
          /\ streak = [r \in Revisions |-> 0]
          /\ pointer = 1
          /\ quarantine = {}
          /\ lastSuspension = NoSlot
          /\ evidence = [p \in Programs |-> [fingerprint |-> original, observed |-> 1]]
          /\ watcherFailed = FALSE
          /\ forced = FALSE
          /\ controls = [q \in Requests |-> NoSelection]
          /\ executions = [o \in Observations |-> NoExecution]
MCSpec == MCInit /\ [][ENext]_<<vars, evars>>
==============================================================================
