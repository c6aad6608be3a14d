--------------------------- MODULE ProfileRegistry ---------------------------
(***************************************************************************)
(* cu_pilot.lifecycle.ProfileRegistry for one profile id: the SQLite       *)
(* tables profiles, active, evidence, controls, executions, quarantine,    *)
(* settings, and the part of audit that is read back.  Every public method *)
(* is one BEGIN IMMEDIATE transaction, so every method is one action; a    *)
(* method that raises rolls back and is no step.                           *)
(*                                                                         *)
(* Abstractions.  Reasons, actors and timestamps of audit rows are left    *)
(* out.  A deployment fingerprint hashes the account bytes, the program's  *)
(* deployment slot included, so Deployed is a function of it; evidence     *)
(* read from another cluster or runtime is one more fingerprint that no    *)
(* manifest binds.  checked_at moves with observed_slot, so the wall-clock *)
(* bound is the slot bound.  Of an artifact only its calibration start,    *)
(* its newest evidence slot and whether activate would qualify it matter.  *)
(***************************************************************************)
EXTENDS Integers, FiniteSets

CONSTANTS
    Revisions,              \* revision numbers of the profile
    Digests,                \* artifact_sha256 values
    Programs,               \* program ids the manifests bind
    Fingerprints,           \* deployment fingerprints
    Slots,                  \* slots a caller may pass
    Requests,               \* control request ids
    Observations,           \* execution observation ids
    NoDigest,               \* no artifact
    NoFingerprint,          \* no evidence row for the program
    Calibration,            \* calibration_min_slot of an artifact, -1 for None
    Newest,                 \* evidence_max_slot of an artifact
    Qualified,              \* artifacts that are not synthetic and whose policy qualifies a pattern
    Deployed,               \* deployment_slot in a fingerprint, -1 for None
    Manifests,              \* the manifests callers register
    MaxObservationAge,      \* max_observation_age_slots
    MaxDeploymentAge,       \* max_deployment_age_slots
    MaxFailureStreak        \* max_control_failure_streak

NoSlot == -1
NoRevision == 0

\* deployment_bindings: a fingerprint for some of the programs.
Bindings == UNION {[S -> Fingerprints] : S \in (SUBSET Programs) \ {{}}}

ASSUME RegistryAssumption ==
    /\ Revisions \subseteq Nat \ {NoRevision}
    /\ Slots \subseteq Nat
    /\ Calibration \in [Digests -> Slots \cup {NoSlot}]
    /\ Newest \in [Digests -> Slots]
    /\ Qualified \subseteq Digests
    /\ Deployed \in [Fingerprints -> Slots \cup {NoSlot}]
    /\ NoDigest \notin Digests
    /\ NoFingerprint \notin Fingerprints
    /\ Manifests \subseteq [digest : Digests, bindings : Bindings]
    /\ MaxObservationAge \in Nat
    /\ MaxDeploymentAge \in Nat
    /\ MaxFailureStreak \in Nat \ {0}

VARIABLES
    state,            \* profiles.state, "absent" without a row
    manifest,         \* profiles.manifest, immutable once registered
    suspendedSlot,    \* profiles.suspended_slot; set together with profiles.quarantine
    streak,           \* profiles.failure_streak
    pointer,          \* active.revision
    quarantine,       \* digests of the quarantine table
    lastSuspension,   \* the highest slot of an audit row with action 'suspend'
    evidence,         \* evidence rows
    watcherFailed,    \* settings.watcher_failure
    forced,           \* settings.force_simulation
    controls,         \* controls rows: the selection and its outcome
    executions        \* executions rows

rows == <<state, manifest, suspendedSlot, streak, pointer, quarantine, lastSuspension>>
settings == <<watcherFailed, forced>>
vars == <<rows, evidence, settings, controls, executions>>

States == {"absent", "candidate", "shadow", "active", "suspended", "retired"}
Stored == States \ {"absent"}

\* A control outcome as record_control tells them apart: complete when it
\* succeeded with both resources measured, excess when it succeeded with a
\* measured resource over its limit (the other one may be missing).
Outcomes == {"within", "excess", "partial_excess", "incomplete"}
Complete(outcome) == outcome \in {"within", "excess"}
Excess(outcome) == outcome \in {"excess", "partial_excess"}

Evidence == [fingerprint : Fingerprints \cup {NoFingerprint}, observed : Slots \cup {NoSlot}]
NoEvidence == [fingerprint |-> NoFingerprint, observed |-> NoSlot]

Selection == [revision : Revisions \cup {NoRevision}, slot : Slots \cup {NoSlot},
              selected : BOOLEAN, outcome : Outcomes \cup {"none"}]
NoSelection == [revision |-> NoRevision, slot |-> NoSlot,
                selected |-> FALSE, outcome |-> "none"]

Execution == [revision : Revisions \cup {NoRevision}, excess : BOOLEAN]
NoExecution == [revision |-> NoRevision, excess |-> FALSE]

NoManifest == [digest |-> NoDigest, bindings |-> [p \in {} |-> NoFingerprint]]

Digest(r) == manifest[r].digest
Cached == {p \in Programs : evidence[p] # NoEvidence}

Larger(a, b) == IF a > b THEN a ELSE b

TypeOK ==
    /\ state \in [Revisions -> States]
    /\ manifest \in [Revisions -> Manifests \cup {NoManifest}]
    /\ suspendedSlot \in [Revisions -> Slots \cup {NoSlot}]
    /\ streak \in [Revisions -> Nat]
    /\ pointer \in Revisions \cup {NoRevision}
    /\ quarantine \subseteq Digests
    /\ lastSuspension \in Slots \cup {NoSlot}
    /\ evidence \in [Programs -> Evidence]
    /\ watcherFailed \in BOOLEAN
    /\ forced \in BOOLEAN
    /\ controls \in [Requests -> Selection]
    /\ executions \in [Observations -> Execution]

Init ==
    /\ state = [r \in Revisions |-> "absent"]
    /\ manifest = [r \in Revisions |-> NoManifest]
    /\ suspendedSlot = [r \in Revisions |-> NoSlot]
    /\ streak = [r \in Revisions |-> 0]
    /\ pointer = NoRevision
    /\ quarantine = {}
    /\ lastSuspension = NoSlot
    /\ evidence = [p \in Programs |-> NoEvidence]
    /\ watcherFailed = FALSE
    /\ forced = FALSE
    /\ controls = [q \in Requests |-> NoSelection]
    /\ executions = [o \in Observations |-> NoExecution]

-----------------------------------------------------------------------------
\* Registration and operator transitions.

\* The check of register against earlier suspensions: it reads the profile
\* rows only.
CalibratedAfterSuspensions(m) ==
    \A r \in Revisions : suspendedSlot[r] # NoSlot => Calibration[m.digest] > suspendedSlot[r]

\* register: a known revision is left as it is (or conflicts).
Register(r, m) ==
    /\ state[r] = "absent"
    /\ CalibratedAfterSuspensions(m)
    /\ state' = [state EXCEPT ![r] = "candidate"]
    /\ manifest' = [manifest EXCEPT ![r] = m]
    /\ UNCHANGED <<suspendedSlot, streak, pointer, quarantine, lastSuspension,
                   evidence, settings, controls, executions>>

\* transition(..., "shadow")
EnterShadow(r) ==
    /\ state[r] = "candidate"
    /\ state' = [state EXCEPT ![r] = "shadow"]
    /\ UNCHANGED <<manifest, suspendedSlot, streak, pointer, quarantine, lastSuspension,
                   evidence, settings, controls, executions>>

\* transition(..., "retired"): the pointer keeps naming a retired revision.
Retire(r) ==
    /\ state[r] \in Stored \ {"retired"}
    /\ state' = [state EXCEPT ![r] = "retired"]
    /\ UNCHANGED <<manifest, suspendedSlot, streak, pointer, quarantine, lastSuspension,
                   evidence, settings, controls, executions>>

\* Mutant: nothing is left to withdraw once the revision is retired.
WithdrawUnretired(r, s) ==
    LET slot == Larger(s, suspendedSlot[r]) IN
    IF state[r] = "retired"
    THEN UNCHANGED <<quarantine, lastSuspension, state, suspendedSlot>>
    ELSE /\ quarantine' = quarantine \cup {Digest(r)}
         /\ lastSuspension' = Larger(slot, lastSuspension)
         /\ state' = [state EXCEPT ![r] = "suspended"]
         /\ suspendedSlot' = [suspendedSlot EXCEPT ![r] = slot]

\* _suspend: quarantines the digest and audits the slot even for a retired
\* row, whose own columns stay.
Withdraw(r, s) ==
    LET slot == Larger(s, suspendedSlot[r]) IN
    /\ quarantine' = quarantine \cup {Digest(r)}
    /\ lastSuspension' = Larger(slot, lastSuspension)
    /\ state' = IF state[r] = "retired" THEN state ELSE [state EXCEPT ![r] = "suspended"]
    /\ suspendedSlot' = IF state[r] = "retired" THEN suspendedSlot
                        ELSE [suspendedSlot EXCEPT ![r] = slot]

\* suspend, by an operator
Suspend(r, s) ==
    /\ state[r] # "absent"
    /\ Withdraw(r, s)
    /\ UNCHANGED <<manifest, streak, pointer, evidence, settings, controls, executions>>

-----------------------------------------------------------------------------
\* Deployment evidence and the environment checks.

\* Mutant: any batch that re-reads a cached program clears the failure.
ClearsIfAny(batch) == Cached \cap batch # {}

\* A batch ends a watcher failure when it covers all that is cached.
Clears(batch) == Cached \subseteq batch

\* Mutant: a program deployed in the observed slot itself is accepted.
RecordDeploymentsAtOnce(f, s) ==
    LET batch == DOMAIN f IN
    /\ \A p \in batch : Deployed[f[p]] <= s /\ evidence[p].observed <= s
    /\ evidence' = [p \in Programs |-> IF p \in batch
                                       THEN [fingerprint |-> f[p], observed |-> s]
                                       ELSE evidence[p]]
    /\ watcherFailed' = (watcherFailed /\ ~Clears(batch))
    /\ UNCHANGED <<rows, forced, controls, executions>>

\* record_deployments, with a batch that refresh_deployments read at one slot
\* s: f gives the fingerprint of every program of the batch.
RecordDeployments(f, s) ==
    LET batch == DOMAIN f IN
    /\ \A p \in batch : Deployed[f[p]] < s /\ evidence[p].observed <= s
    /\ evidence' = [p \in Programs |-> IF p \in batch
                                       THEN [fingerprint |-> f[p], observed |-> s]
                                       ELSE evidence[p]]
    /\ watcherFailed' = (watcherFailed /\ ~Clears(batch))
    /\ UNCHANGED <<rows, forced, controls, executions>>

\* watcher_failed, which refresh_deployments calls on any exception
WatcherFailed ==
    /\ watcherFailed' = TRUE
    /\ UNCHANGED <<rows, evidence, forced, controls, executions>>

\* force_simulation
ForceSimulation(enabled) ==
    /\ forced' = enabled
    /\ UNCHANGED <<rows, evidence, watcherFailed, controls, executions>>

StaleObservations(m, s) ==
    s < Newest[m.digest] \/ s - Newest[m.digest] > MaxObservationAge

\* Mutant: the bound bytes are enough, whenever they were deployed.
BytesFault(m, p, s) ==
    \/ evidence[p] = NoEvidence
    \/ evidence[p].fingerprint # m.bindings[p]
    \/ s < evidence[p].observed \/ s - evidence[p].observed > MaxDeploymentAge

\* One program of the closure: its cached evidence is missing, of another
\* deployment, newer than the calibration, or too old for slot s.
DeploymentFault(m, p, s) ==
    \/ evidence[p] = NoEvidence
    \/ evidence[p].fingerprint # m.bindings[p]
    \/ Deployed[evidence[p].fingerprint] # NoSlot
       /\ Deployed[evidence[p].fingerprint] >= Calibration[m.digest]
    \/ s < evidence[p].observed \/ s - evidence[p].observed > MaxDeploymentAge

\* The reasons of _environment_reason for which check suspends.
EnvironmentFault(m, s) ==
    \/ StaleObservations(m, s)
    \/ watcherFailed
    \/ \E p \in DOMAIN m.bindings : DeploymentFault(m, p, s)

-----------------------------------------------------------------------------
\* Release and eligibility.

\* activate; the caller's context is the one of the manifest.
Activate(r, s) ==
    /\ state[r] = "shadow" /\ suspendedSlot[r] = NoSlot
    /\ Digest(r) \notin quarantine
    /\ Digest(r) \in Qualified
    /\ ~EnvironmentFault(manifest[r], s)
    /\ state' = [x \in Revisions |-> IF x = r THEN "active"
                                     ELSE IF x = pointer /\ state[x] = "active" THEN "shadow"
                                     ELSE state[x]]
    /\ pointer' = r
    /\ UNCHANGED <<manifest, suspendedSlot, streak, quarantine, lastSuspension,
                   evidence, settings, controls, executions>>

\* rollback selects an earlier revision and is otherwise activate.
Rollback(r, s) == /\ pointer # NoRevision /\ r < pointer
                  /\ Activate(r, s)

\* The pointed revision is still the released one, as far as its row says.
Released == /\ pointer # NoRevision
            /\ state[pointer] = "active" /\ suspendedSlot[pointer] = NoSlot

\* Mutant: the quarantine table is not consulted.
TrustedRow == Released

\* The revision check may grant: released, and its artifact not quarantined
\* under any revision number.
Trusted == Released /\ Digest(pointer) \notin quarantine

\* check grants the decision.  inScope: the caller's context, cluster,
\* runtime, workload and program ids match the manifest; a mismatch declines
\* without suspending.
Eligible(s, inScope) ==
    /\ ~forced
    /\ Trusted
    /\ inScope
    /\ ~EnvironmentFault(manifest[pointer], s)

\* check withdraws the revision instead: an alias of a quarantined artifact,
\* or a faulty environment.
CheckWithdraws(s, inScope) ==
    /\ ~forced
    /\ Released
    /\ \/ Digest(pointer) \in quarantine
       \/ inScope /\ EnvironmentFault(manifest[pointer], s)

\* check changes the registry only when it withdraws.
Check(s, inScope) ==
    /\ CheckWithdraws(s, inScope)
    /\ Withdraw(pointer, s)
    /\ UNCHANGED <<manifest, streak, pointer, evidence, settings, controls, executions>>

\* Mutant: the audit is not consulted.
PermittedByRow(r, d) ==
    /\ state[r] # "absent" =>
         Digest(r) = d /\ state[r] \notin {"retired", "suspended"} /\ suspendedSlot[r] = NoSlot
    /\ d \notin quarantine

\* revision_risk permits an artifact under revision r: withdrawal history
\* only, read from the profile row, the quarantine table and the audit.
Permitted(r, d) ==
    /\ state[r] # "absent" =>
         Digest(r) = d /\ state[r] \notin {"retired", "suspended"} /\ suspendedSlot[r] = NoSlot
    /\ d \notin quarantine
    /\ lastSuspension # NoSlot => Calibration[d] > lastSuspension

-----------------------------------------------------------------------------
\* Controls and executions.

\* select_control with a new request id.  The random draw is the choice of
\* selected; an ineligible decision is never selected.
SelectControl(q, r, s, eligible, selected) ==
    /\ controls[q] = NoSelection
    /\ state[r] # "absent"
    /\ eligible => Released /\ pointer = r
    /\ selected => eligible
    /\ controls' = [controls EXCEPT ![q] = [revision |-> r, slot |-> s,
                                            selected |-> selected, outcome |-> "none"]]
    /\ UNCHANGED <<rows, evidence, settings, executions>>

\* Mutant: one failure more than the policy allows.
DeterioratedLate(failures) == failures > MaxFailureStreak

\* The control failure streak reached its limit.
Deteriorated(failures) == failures >= MaxFailureStreak

\* record_control, the first time: a repeated outcome changes nothing.
RecordControl(q, s, outcome) ==
    LET r == controls[q].revision
        failures == IF Complete(outcome) THEN 0 ELSE streak[r] + 1
    IN
    /\ controls[q].selected
    /\ controls[q].outcome = "none"
    /\ controls[q].slot <= s
    /\ controls' = [controls EXCEPT ![q].outcome = outcome]
    /\ streak' = [streak EXCEPT ![r] = failures]
    /\ IF Excess(outcome) \/ Deteriorated(failures)
       THEN Withdraw(r, s)
       ELSE UNCHANGED <<state, suspendedSlot, quarantine, lastSuspension>>
    /\ UNCHANGED <<manifest, pointer, evidence, settings, executions>>

\* record_execution, the first time; excess: successful with a measured
\* resource over the limit the decision set.
RecordExecution(o, r, s, excess) ==
    /\ state[r] # "absent"
    /\ executions[o] = NoExecution
    /\ executions' = [executions EXCEPT ![o] = [revision |-> r, excess |-> excess]]
    /\ IF excess
       THEN Withdraw(r, s)
       ELSE UNCHANGED <<state, suspendedSlot, quarantine, lastSuspension>>
    /\ UNCHANGED <<manifest, streak, pointer, evidence, settings, controls>>

-----------------------------------------------------------------------------
Operate(r) == \/ \E m \in Manifests : Register(r, m)
              \/ EnterShadow(r)
              \/ Retire(r)
              \/ \E s \in Slots : Suspend(r, s) \/ Activate(r, s) \/ Rollback(r, s)

Watch == \/ \E f \in Bindings, s \in Slots : RecordDeployments(f, s)
         \/ WatcherFailed
         \/ \E enabled \in BOOLEAN : ForceSimulation(enabled)

Decide == \E s \in Slots :
            \/ \E inScope \in BOOLEAN : Check(s, inScope)
            \/ \E q \in Requests, r \in Revisions, eligible, selected \in BOOLEAN :
                 SelectControl(q, r, s, eligible, selected)

Observe == \E s \in Slots :
             \/ \E q \in Requests, outcome \in Outcomes : RecordControl(q, s, outcome)
             \/ \E o \in Observations, r \in Revisions, excess \in BOOLEAN :
                  RecordExecution(o, r, s, excess)

Next == (\E r \in Revisions : Operate(r)) \/ Watch \/ Decide \/ Observe

Spec == Init /\ [][Next]_vars

-----------------------------------------------------------------------------
\* Properties.

\* Artifacts the records convict: some control or execution of a revision
\* with this artifact succeeded beyond its limits.
Convicted(d) ==
    \/ \E q \in Requests : Excess(controls[q].outcome) /\ Digest(controls[q].revision) = d
    \/ \E o \in Observations : executions[o].excess /\ Digest(executions[o].revision) = d

\* The tables tell one story: a suspended row, the quarantine table and the
\* audit agree (_suspend writes all three; for a retired row only the last
\* two), and controls and executions refer to registered revisions.
TablesAgree ==
    /\ \A r \in Revisions :
         /\ state[r] # "absent" => manifest[r] \in Manifests
         /\ suspendedSlot[r] # NoSlot =>
              /\ state[r] \in {"suspended", "retired"}
              /\ Digest(r) \in quarantine
              /\ suspendedSlot[r] <= lastSuspension
         /\ state[r] = "suspended" => suspendedSlot[r] # NoSlot
    /\ \A q \in Requests :
         /\ controls[q].outcome # "none" => controls[q].selected
         /\ controls[q].selected =>
              controls[q].revision \in Revisions /\ state[controls[q].revision] # "absent"
    /\ \A o \in Observations : executions[o].excess =>
         executions[o].revision \in Revisions /\ state[executions[o].revision] # "absent"

\* At most one revision is active and it is the one the pointer names; the
\* pointer may outlive a release, but never names a revision that was not
\* released (activate replaces the previous revision in the same transaction).
OneRelease ==
    /\ \A r \in Revisions : state[r] = "active" => pointer = r
    /\ pointer # NoRevision => state[pointer] \in {"active", "suspended", "retired"}

\* Whatever order controls, executions, retirements and releases commit in, an
\* artifact with a recorded resource excess is quarantined (record_control and
\* record_execution suspend by digest, a retired revision included).
ExcessQuarantines == \A d \in Digests : Convicted(d) => d \in quarantine

\* A revision that only ever produced incomplete control outcomes, as many as
\* the allowed streak, has its artifact quarantined (record_control's streak).
DeteriorationQuarantines ==
    \A r \in Revisions :
        LET seen == {q \in Requests : controls[q].revision = r /\ controls[q].outcome # "none"}
        IN  /\ Cardinality(seen) >= MaxFailureStreak
            /\ \A q \in seen : ~Complete(controls[q].outcome)
            => Digest(r) \in quarantine

\* What a granted decision rests on (check): no record convicts the artifact,
\* also not under another revision; every bound program is the deployment the
\* manifest names, deployed before the artifact was calibrated; and no failed
\* watcher is outstanding.
EligibleIsSound ==
    \A s \in Slots : Eligible(s, TRUE) =>
        /\ state[pointer] = "active" /\ ~Convicted(Digest(pointer))
        /\ ~watcherFailed /\ ~forced
        /\ \A p \in DOMAIN manifest[pointer].bindings :
             /\ evidence[p].fingerprint = manifest[pointer].bindings[p]
             /\ Deployed[evidence[p].fingerprint] # NoSlot =>
                  Deployed[evidence[p].fingerprint] < Calibration[Digest(pointer)]

\* revision_risk permits only artifacts calibrated after every suspension any
\* row of the profile carries: the audit slot it reads covers all the rows.
PermittedIsNewer ==
    \A r, x \in Revisions, d \in Digests :
        Permitted(r, d) => Calibration[d] > suspendedSlot[x] \/ suspendedSlot[x] = NoSlot

\* A suspended revision never serves again and retirement is irreversible,
\* through releases, rollbacks, aliases and late outcomes (docs/lifecycle.md,
\* "State and release authority").
WithdrawalKept ==
    \A r \in Revisions :
        /\ state[r] = "suspended" => state'[r] \in {"suspended", "retired"}
        /\ state[r] = "retired" => state'[r] = "retired"
WithdrawalIsFinal == [][WithdrawalKept]_vars

\* A failed watcher is cleared only by a batch that covers everything cached,
\* so what is then certified is one coherent reading (record_deployments).
RecoveryIsCoherent ==
    [][watcherFailed /\ ~watcherFailed' =>
         \A p, x \in Programs : evidence[p] # NoEvidence /\ evidence[x] # NoEvidence =>
             evidence'[p].observed = evidence'[x].observed]_vars

\* Every revision registered for recovery was calibrated after the latest
\* suspension of the profile, as docs/lifecycle.md describes recovery.
RecoveryEvidenceIsNewer ==
    [][\A r \in Revisions :
         /\ state[r] = "absent" /\ state'[r] # "absent"
         /\ lastSuspension # NoSlot /\ Digest(r)' \notin quarantine
         => Calibration[Digest(r)'] > lastSuspension]_vars

\* The registry implements the gate: what it releases is the artifact the
\* pointer names, as long as check would trust it.
ReleasedDigest == IF Trusted THEN Digest(pointer) ELSE NoDigest
Gate == INSTANCE ReleaseGate WITH released <- ReleasedDigest, rejected <- quarantine
GateSpec == Gate!Spec
==============================================================================
