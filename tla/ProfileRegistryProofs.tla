------------------------ MODULE ProfileRegistryProofs ------------------------
(***************************************************************************)
(* Proofs about ProfileRegistry, for any number of revisions, artifacts,   *)
(* programs, controls and executions.  IInv is inductive: a quarantined    *)
(* digest can only be tied to the records if the tables agree with each    *)
(* other, and the pointer only names a released row if no other is active. *)
(***************************************************************************)
EXTENDS ProfileRegistry, FiniteSetTheorems, TLAPS

IInv == TypeOK /\ TablesAgree /\ OneRelease /\ ExcessQuarantines

\* A slot, and the absence of one, can be compared.
LEMMA SlotsAreInt == Slots \subseteq Nat /\ Slots \cup {NoSlot} \subseteq Int
  BY RegistryAssumption DEF NoSlot

\* The larger of two slots is one of them and bounds both.
LEMMA LargerFact ==
    ASSUME NEW a \in Slots, NEW b \in Slots \cup {NoSlot}
    PROVE  /\ Larger(a, b) \in Slots
           /\ Larger(a, b) >= a /\ Larger(a, b) >= b
           /\ Larger(b, a) = Larger(a, b)
  BY RegistryAssumption DEF Larger, NoSlot

\* What withdrawing a registered revision (_suspend) does to the tables it
\* writes, whichever method calls it.
LEMMA WithdrawFact ==
    ASSUME TypeOK, TablesAgree, NEW r \in Revisions, NEW s \in Slots,
           state[r] # "absent", Withdraw(r, s), manifest' = manifest
    PROVE  /\ state' \in [Revisions -> States]
           /\ suspendedSlot' \in [Revisions -> Slots \cup {NoSlot}]
           /\ quarantine' = quarantine \cup {Digest(r)}
           /\ quarantine' \subseteq Digests
           /\ lastSuspension' \in Slots
           /\ \A x \in Revisions :
                /\ state'[x] = "absent" <=> state[x] = "absent"
                /\ suspendedSlot'[x] # NoSlot =>
                     /\ state'[x] \in {"suspended", "retired"}
                     /\ Digest(x) \in quarantine'
                     /\ suspendedSlot'[x] <= lastSuspension'
                /\ state'[x] = "suspended" => suspendedSlot'[x] # NoSlot
                /\ state'[x] = state[x] \/ (x = r /\ state'[x] = "suspended" /\ state[x] # "retired")
           /\ r = pointer => state'[r] \in {"suspended", "retired"}
  <1> DEFINE slot == Larger(s, suspendedSlot[r])
  <1>0. /\ suspendedSlot[r] \in Slots \cup {NoSlot}
        /\ lastSuspension \in Slots \cup {NoSlot}
    BY DEF TypeOK
  <1>1. slot \in Slots /\ slot # NoSlot
    <2>1. slot \in Slots
      BY <1>0, LargerFact
    <2>2. QED
      BY <2>1, RegistryAssumption DEF NoSlot
  <1>2. /\ Larger(slot, lastSuspension) \in Slots
        /\ Larger(slot, lastSuspension) >= slot
        /\ Larger(slot, lastSuspension) >= lastSuspension
    BY <1>0, <1>1, LargerFact
  <1>3. Digest(r) \in Digests
    BY RegistryAssumption DEF TablesAgree, Digest
  <1>4. /\ quarantine' = quarantine \cup {Digest(r)}
        /\ lastSuspension' = Larger(slot, lastSuspension)
        /\ state' = IF state[r] = "retired" THEN state ELSE [state EXCEPT ![r] = "suspended"]
        /\ suspendedSlot' = IF state[r] = "retired" THEN suspendedSlot
                            ELSE [suspendedSlot EXCEPT ![r] = slot]
    BY DEF Withdraw
  <1> HIDE DEF slot
  <1>5. state' \in [Revisions -> States] /\ suspendedSlot' \in [Revisions -> Slots \cup {NoSlot}]
    BY <1>1, <1>4 DEF TypeOK, States
  <1>6. lastSuspension' >= lastSuspension /\ lastSuspension' >= slot /\ lastSuspension' \in Slots
    BY <1>2, <1>4
  <1>7. ASSUME NEW x \in Revisions
        PROVE  /\ state'[x] = "absent" <=> state[x] = "absent"
               /\ suspendedSlot'[x] # NoSlot =>
                    /\ state'[x] \in {"suspended", "retired"}
                    /\ Digest(x) \in quarantine'
                    /\ suspendedSlot'[x] <= lastSuspension'
               /\ state'[x] = "suspended" => suspendedSlot'[x] # NoSlot
               /\ state'[x] = state[x]
                  \/ (x = r /\ state'[x] = "suspended" /\ state[x] # "retired")
    <2>1. CASE x = r /\ state[r] # "retired"
      BY <2>1, <1>1, <1>4, <1>6, RegistryAssumption DEF TypeOK, States, NoSlot
    <2>2. CASE x # r \/ state[r] = "retired"
      <3>1. state'[x] = state[x] /\ suspendedSlot'[x] = suspendedSlot[x]
        BY <2>2, <1>4 DEF TypeOK
      <3>2. suspendedSlot[x] # NoSlot => suspendedSlot[x] <= lastSuspension'
        <4>1. suspendedSlot[x] # NoSlot => suspendedSlot[x] <= lastSuspension
          BY DEF TablesAgree
        <4>2. suspendedSlot[x] \in Int /\ lastSuspension \in Int /\ lastSuspension' \in Int
          <5>1. suspendedSlot[x] \in Slots \cup {NoSlot}
            BY DEF TypeOK
          <5>2. QED
            BY <1>0, <1>6, <5>1, SlotsAreInt
        <4>3. QED
          BY <1>6, <4>1, <4>2
      <3>3. QED
        BY <3>1, <3>2, <1>4 DEF TablesAgree
    <2>3. QED
      BY <2>1, <2>2
  <1>8. r = pointer => state'[r] \in {"suspended", "retired"}
    BY <1>4 DEF TypeOK
  <1>9. QED
    BY <1>3, <1>4, <1>5, <1>6, <1>7, <1>8 DEF TypeOK

\* The initial registry satisfies the invariant.
LEMMA InitIInv == Init => IInv
  <1> SUFFICES ASSUME Init PROVE IInv
    OBVIOUS
  <1>1. TypeOK
    BY SlotsAreInt DEF Init, TypeOK, States, Evidence, NoEvidence, Selection, NoSelection,
                       Execution, NoExecution
  <1>2. TablesAgree
    BY DEF Init, TablesAgree, NoSelection, NoExecution
  <1>3. OneRelease
    BY DEF Init, OneRelease
  <1>4. ExcessQuarantines
    BY DEF Init, ExcessQuarantines, Convicted, Excess, NoSelection, NoExecution
  <1>5. QED
    BY <1>1, <1>2, <1>3, <1>4 DEF IInv

\* Registration and operator transitions keep the invariant.
LEMMA RegisterStep ==
    ASSUME IInv, NEW r \in Revisions, NEW m \in Manifests, Register(r, m)
    PROVE  IInv'
  <1> USE DEF IInv
  <1>0. /\ state[r] = "absent"
        /\ state' = [state EXCEPT ![r] = "candidate"]
        /\ manifest' = [manifest EXCEPT ![r] = m]
        /\ UNCHANGED <<suspendedSlot, streak, pointer, quarantine, lastSuspension, evidence,
                       watcherFailed, forced, controls, executions>>
    BY DEF Register, settings
  <1>1. TypeOK'
    BY <1>0 DEF TypeOK, States
  <1>2. \A x \in Revisions : state[x] # "absent" => manifest'[x] = manifest[x] /\ state'[x] = state[x]
    BY <1>0 DEF TypeOK
  <1>3. TablesAgree'
    BY <1>0, <1>2 DEF TypeOK, TablesAgree, Digest
  <1>4. OneRelease'
    BY <1>0 DEF TypeOK, OneRelease
  <1>5. ExcessQuarantines'
    <2> SUFFICES ASSUME NEW d \in Digests, Convicted(d)' PROVE d \in quarantine
      BY <1>0 DEF ExcessQuarantines
    <2>1. Convicted(d)
      BY <1>0, <1>2 DEF TablesAgree, Convicted, Excess, Digest
    <2>2. QED
      BY <2>1 DEF ExcessQuarantines
  <1>6. QED
    BY <1>1, <1>3, <1>4, <1>5

LEMMA TransitionStep ==
    ASSUME IInv, NEW r \in Revisions, EnterShadow(r) \/ Retire(r)
    PROVE  IInv'
  <1> USE DEF IInv
  <1>0. /\ state[r] \in Stored \ {"retired"}
        /\ \/ state[r] = "candidate" /\ state' = [state EXCEPT ![r] = "shadow"]
           \/ state' = [state EXCEPT ![r] = "retired"]
        /\ UNCHANGED <<manifest, suspendedSlot, streak, pointer, quarantine, lastSuspension,
                       evidence, watcherFailed, forced, controls, executions>>
    BY DEF EnterShadow, Retire, Stored, States, settings
  <1>1. TypeOK'
    BY <1>0 DEF TypeOK, States
  <1>2. TablesAgree'
    BY <1>0 DEF TypeOK, TablesAgree, Digest, Stored, States
  <1>3. OneRelease'
    BY <1>0 DEF TypeOK, OneRelease
  <1>4. ExcessQuarantines'
    BY <1>0 DEF ExcessQuarantines, Convicted, Digest
  <1>5. QED
    BY <1>1, <1>2, <1>3, <1>4

\* activate moves one revision from shadow to active and the previous one back.
LEMMA ActivateStep ==
    ASSUME IInv, NEW r \in Revisions, NEW s \in Slots, Activate(r, s)
    PROVE  IInv'
  <1> USE DEF IInv
  <1>0. /\ state[r] = "shadow" /\ suspendedSlot[r] = NoSlot
        /\ state' = [x \in Revisions |-> IF x = r THEN "active"
                                         ELSE IF x = pointer /\ state[x] = "active" THEN "shadow"
                                         ELSE state[x]]
        /\ pointer' = r
        /\ UNCHANGED <<manifest, suspendedSlot, streak, quarantine, lastSuspension,
                       evidence, watcherFailed, forced, controls, executions>>
    BY DEF Activate, settings
  <1>1. TypeOK'
    BY <1>0 DEF TypeOK, States
  <1>2. TablesAgree'
    BY <1>0 DEF TypeOK, TablesAgree, Digest
  <1>3. OneRelease'
    <2>1. \A x \in Revisions : state'[x] = "active" => x = r
      BY <1>0 DEF OneRelease
    <2>2. state'[pointer'] = "active"
      BY <1>0
    <2>3. QED
      BY <1>0, <2>1, <2>2 DEF OneRelease
  <1>4. ExcessQuarantines'
    BY <1>0 DEF ExcessQuarantines, Convicted, Digest
  <1>5. QED
    BY <1>1, <1>2, <1>3, <1>4

\* Watcher and emergency switch: the rows stay.
LEMMA WatchStep ==
    ASSUME IInv, Watch
    PROVE  IInv'
  <1> USE DEF IInv
  <1> DEFINE Framed == /\ UNCHANGED <<state, manifest, suspendedSlot, streak, pointer, quarantine,
                                    lastSuspension, controls, executions>>
                     /\ evidence' \in [Programs -> Evidence]
                     /\ watcherFailed' \in BOOLEAN
                     /\ forced' \in BOOLEAN
  <1>0. Framed
    <2>1. ASSUME NEW f \in Bindings, NEW s \in Slots, RecordDeployments(f, s)
          PROVE  Framed
      <3>1. \A p \in DOMAIN f : f[p] \in Fingerprints
        BY DEF Bindings
      <3>2. evidence' \in [Programs -> Evidence]
        BY <2>1, <3>1 DEF RecordDeployments, Evidence, TypeOK
      <3>3. QED
        BY <2>1, <3>2 DEF RecordDeployments, rows, TypeOK
    <2>2. ASSUME WatcherFailed
          PROVE  Framed
      BY <2>2 DEF WatcherFailed, rows, TypeOK
    <2>3. ASSUME NEW enabled \in BOOLEAN, ForceSimulation(enabled)
          PROVE  Framed
      BY <2>3 DEF ForceSimulation, rows, TypeOK
    <2>4. QED
      BY <2>1, <2>2, <2>3 DEF Watch
  <1>1. TypeOK'
    BY <1>0 DEF TypeOK
  <1>2. TablesAgree' /\ OneRelease' /\ ExcessQuarantines'
    BY <1>0 DEF TablesAgree, OneRelease, ExcessQuarantines, Convicted, Digest
  <1>3. QED
    BY <1>1, <1>2

\* select_control only adds a selection without an outcome.
LEMMA SelectStep ==
    ASSUME IInv, NEW q \in Requests, NEW r \in Revisions, NEW s \in Slots,
           NEW eligible \in BOOLEAN, NEW selected \in BOOLEAN,
           SelectControl(q, r, s, eligible, selected)
    PROVE  IInv'
  <1> USE DEF IInv
  <1>0. /\ state[r] # "absent"
        /\ controls' = [controls EXCEPT ![q] = [revision |-> r, slot |-> s,
                                               selected |-> selected, outcome |-> "none"]]
        /\ UNCHANGED <<state, manifest, suspendedSlot, streak, pointer, quarantine,
                       lastSuspension, evidence, watcherFailed, forced, executions>>
    BY DEF SelectControl, rows, settings
  <1>1. TypeOK'
    BY <1>0 DEF TypeOK, Selection
  <1>2. \A x \in Requests : x # q => controls'[x] = controls[x]
    BY <1>0 DEF TypeOK
  <1>3. controls'[q] = [revision |-> r, slot |-> s, selected |-> selected, outcome |-> "none"]
    BY <1>0 DEF TypeOK
  <1>4. TablesAgree'
    BY <1>0, <1>2, <1>3 DEF TablesAgree, Digest
  <1>5. OneRelease'
    BY <1>0 DEF OneRelease
  <1>6. ExcessQuarantines'
    <2> SUFFICES ASSUME NEW d \in Digests, Convicted(d)' PROVE Convicted(d)
      BY <1>0 DEF ExcessQuarantines
    <2>1. QED
      BY <1>0, <1>2, <1>3 DEF Convicted, Excess, Digest
  <1>7. QED
    BY <1>1, <1>4, <1>5, <1>6

\* A withdrawal that is all a transition does to the rows (besides a streak),
\* and that withdraws at least what the new records convict, keeps the invariant.
LEMMA WithdrawStep ==
    ASSUME IInv, NEW r \in Revisions, NEW s \in Slots, state[r] # "absent", Withdraw(r, s),
           UNCHANGED <<manifest, pointer, evidence, watcherFailed, forced>>,
           streak' \in [Revisions -> Nat],
           controls' \in [Requests -> Selection],
           \A q \in Requests : \/ controls'[q] = controls[q]
                              \/ /\ controls[q].selected /\ controls'[q].selected
                                 /\ controls[q].revision = r /\ controls'[q].revision = r,
           executions' \in [Observations -> Execution],
           \A o \in Observations : executions'[o] = executions[o] \/ executions'[o].revision = r
    PROVE  IInv'
  <1> USE DEF IInv
  <1>0. /\ state' \in [Revisions -> States]
        /\ suspendedSlot' \in [Revisions -> Slots \cup {NoSlot}]
        /\ quarantine' = quarantine \cup {Digest(r)}
        /\ quarantine' \subseteq Digests
        /\ lastSuspension' \in Slots
        /\ \A x \in Revisions :
             /\ state'[x] = "absent" <=> state[x] = "absent"
             /\ suspendedSlot'[x] # NoSlot =>
                  /\ state'[x] \in {"suspended", "retired"}
                  /\ Digest(x) \in quarantine'
                  /\ suspendedSlot'[x] <= lastSuspension'
             /\ state'[x] = "suspended" => suspendedSlot'[x] # NoSlot
             /\ state'[x] = state[x] \/ (x = r /\ state'[x] = "suspended" /\ state[x] # "retired")
        /\ r = pointer => state'[r] \in {"suspended", "retired"}
    BY WithdrawFact
  <1>1. TypeOK'
    BY <1>0 DEF TypeOK
  <1>2. /\ \A x \in Revisions : Digest(x)' = Digest(x)
        /\ manifest' = manifest /\ pointer' = pointer
    BY DEF Digest
  <1>3. TablesAgree'
    <2>1. ASSUME NEW x \in Revisions
          PROVE  /\ state'[x] # "absent" => manifest'[x] \in Manifests
                 /\ suspendedSlot'[x] # NoSlot =>
                      /\ state'[x] \in {"suspended", "retired"}
                      /\ Digest(x)' \in quarantine'
                      /\ suspendedSlot'[x] <= lastSuspension'
                 /\ state'[x] = "suspended" => suspendedSlot'[x] # NoSlot
      BY <1>0, <1>2 DEF TablesAgree
    <2>2. ASSUME NEW q \in Requests
          PROVE  /\ controls'[q].outcome # "none" => controls'[q].selected
                 /\ controls'[q].selected =>
                      /\ controls'[q].revision \in Revisions
                      /\ state'[controls'[q].revision] # "absent"
      BY <1>0 DEF TablesAgree
    <2>3. ASSUME NEW o \in Observations, executions'[o].excess
          PROVE  /\ executions'[o].revision \in Revisions
                 /\ state'[executions'[o].revision] # "absent"
      BY <1>0, <2>3 DEF TablesAgree
    <2>4. QED
      BY <2>1, <2>2, <2>3 DEF TablesAgree
  <1>4. OneRelease'
    BY <1>0, <1>2 DEF OneRelease, TypeOK, States
  <1>5. ExcessQuarantines'
    <2> SUFFICES ASSUME NEW d \in Digests, Convicted(d)' PROVE d \in quarantine \cup {Digest(r)}
      BY <1>0 DEF ExcessQuarantines
    <2>1. Convicted(d) \/ d = Digest(r)
      BY <1>2 DEF Convicted, Digest
    <2>2. QED
      BY <2>1 DEF ExcessQuarantines
  <1>6. QED
    BY <1>1, <1>3, <1>4, <1>5

\* The released revision is registered, so check can withdraw it.
LEMMA ReleasedFact ==
    ASSUME TypeOK, Released
    PROVE  pointer \in Revisions /\ state[pointer] = "active"
  BY DEF TypeOK, Released

LEMMA SuspendStep ==
    ASSUME IInv, NEW r \in Revisions, NEW s \in Slots, Suspend(r, s)
    PROVE  IInv'
  <1>1. /\ state[r] # "absent" /\ Withdraw(r, s)
        /\ UNCHANGED <<manifest, streak, pointer, evidence, watcherFailed, forced, controls,
                       executions>>
    BY DEF Suspend, settings
  <1>2. /\ streak' \in [Revisions -> Nat] /\ controls' \in [Requests -> Selection]
        /\ executions' \in [Observations -> Execution]
    BY <1>1 DEF IInv, TypeOK
  <1>3. QED
    BY <1>1, <1>2, WithdrawStep

LEMMA CheckStep ==
    ASSUME IInv, NEW s \in Slots, NEW inScope \in BOOLEAN, Check(s, inScope)
    PROVE  IInv'
  <1>1. pointer \in Revisions /\ state[pointer] = "active"
    BY ReleasedFact DEF Check, CheckWithdraws, IInv
  <1>2. /\ Withdraw(pointer, s)
        /\ UNCHANGED <<manifest, streak, pointer, evidence, watcherFailed, forced, controls,
                       executions>>
    BY DEF Check, settings
  <1>3. /\ streak' \in [Revisions -> Nat] /\ controls' \in [Requests -> Selection]
        /\ executions' \in [Observations -> Execution]
    BY <1>2 DEF IInv, TypeOK
  <1>4. QED
    BY <1>1, <1>2, <1>3, WithdrawStep

LEMMA RecordControlStep ==
    ASSUME IInv, NEW q \in Requests, NEW s \in Slots, NEW outcome \in Outcomes,
           RecordControl(q, s, outcome)
    PROVE  IInv'
  <1> USE DEF IInv
  <1> DEFINE r == controls[q].revision
             failures == IF Complete(outcome) THEN 0 ELSE streak[r] + 1
  <1>0. /\ controls[q].selected
        /\ controls' = [controls EXCEPT ![q].outcome = outcome]
        /\ streak' = [streak EXCEPT ![r] = failures]
        /\ UNCHANGED <<manifest, pointer, evidence, watcherFailed, forced, executions>>
        /\ IF Excess(outcome) \/ Deteriorated(failures)
           THEN Withdraw(r, s)
           ELSE UNCHANGED <<state, suspendedSlot, quarantine, lastSuspension>>
    BY DEF RecordControl, settings
  <1>1. r \in Revisions /\ state[r] # "absent"
    BY <1>0 DEF TablesAgree
  <1>2. controls[q] \in Selection /\ controls'[q] = [controls[q] EXCEPT !.outcome = outcome]
    BY <1>0 DEF TypeOK
  <1>3. /\ controls'[q].selected /\ controls'[q].revision = r
        /\ controls'[q].outcome = outcome
        /\ controls'[q] \in Selection
    BY <1>0, <1>2 DEF Selection
  <1>4. \A x \in Requests : x # q => controls'[x] = controls[x]
    BY <1>0 DEF TypeOK
  <1>5. streak[r] \in Nat /\ failures \in Nat
    BY <1>1 DEF TypeOK
  <1>6. /\ streak' \in [Revisions -> Nat] /\ controls' \in [Requests -> Selection]
        /\ executions' \in [Observations -> Execution]
    <2>1. streak' \in [Revisions -> Nat]
      BY <1>0, <1>5 DEF TypeOK
    <2>2. controls' \in [Requests -> Selection]
      BY <1>0, <1>3, <1>4 DEF TypeOK
    <2>3. QED
      BY <1>0, <2>1, <2>2 DEF TypeOK
  <1> HIDE DEF failures
  <1>7. CASE Excess(outcome) \/ Deteriorated(failures)
    <2>1. Withdraw(r, s)
      BY <1>0, <1>7
    <2>2. \A x \in Requests : \/ controls'[x] = controls[x]
                             \/ /\ controls[x].selected /\ controls'[x].selected
                                /\ controls[x].revision = r /\ controls'[x].revision = r
      BY <1>0, <1>3, <1>4
    <2>3. QED
      BY <1>0, <1>1, <1>6, <2>1, <2>2, WithdrawStep
  <1>8. CASE ~Excess(outcome) /\ ~(Deteriorated(failures))
    <2>0. UNCHANGED <<state, suspendedSlot, quarantine, lastSuspension>>
      BY <1>0, <1>8
    <2>1. TypeOK'
      BY <1>0, <1>6, <2>0 DEF TypeOK
    <2>2. TablesAgree'
      BY <1>0, <1>1, <1>3, <1>4, <2>0 DEF TablesAgree, Digest
    <2>3. OneRelease'
      BY <1>0, <2>0 DEF OneRelease
    <2>4. ASSUME NEW d \in Digests, Convicted(d)'
          PROVE  Convicted(d)
      BY <1>0, <1>3, <1>4, <1>8, <2>0, <2>4 DEF Convicted, Excess, Digest
    <2>5. ExcessQuarantines'
      BY <2>0, <2>4 DEF ExcessQuarantines
    <2>6. QED
      BY <2>1, <2>2, <2>3, <2>5
  <1>9. QED
    BY <1>7, <1>8

LEMMA RecordExecutionStep ==
    ASSUME IInv, NEW o \in Observations, NEW r \in Revisions, NEW s \in Slots,
           NEW excess \in BOOLEAN, RecordExecution(o, r, s, excess)
    PROVE  IInv'
  <1> USE DEF IInv
  <1>0. /\ state[r] # "absent"
        /\ executions' = [executions EXCEPT ![o] = [revision |-> r, excess |-> excess]]
        /\ UNCHANGED <<manifest, streak, pointer, evidence, watcherFailed, forced, controls>>
        /\ IF excess THEN Withdraw(r, s)
           ELSE UNCHANGED <<state, suspendedSlot, quarantine, lastSuspension>>
    BY DEF RecordExecution, settings
  <1>1. /\ executions' \in [Observations -> Execution]
        /\ executions'[o] = [revision |-> r, excess |-> excess]
        /\ \A x \in Observations : x # o => executions'[x] = executions[x]
    BY <1>0 DEF TypeOK, Execution
  <1>2. streak' \in [Revisions -> Nat] /\ controls' \in [Requests -> Selection]
    BY <1>0 DEF TypeOK
  <1>3. CASE excess
    <2>1. \A x \in Observations : executions'[x] = executions[x] \/ executions'[x].revision = r
      BY <1>1
    <2>2. QED
      BY <1>0, <1>1, <1>2, <1>3, <2>1, WithdrawStep
  <1>4. CASE ~excess
    <2>0. UNCHANGED <<state, suspendedSlot, quarantine, lastSuspension>>
      BY <1>0, <1>4
    <2>1. TypeOK'
      BY <1>0, <1>1, <1>2, <2>0 DEF TypeOK
    <2>2. TablesAgree'
      BY <1>0, <1>1, <1>4, <2>0 DEF TablesAgree, Digest
    <2>3. OneRelease'
      BY <1>0, <2>0 DEF OneRelease
    <2>4. ASSUME NEW d \in Digests, Convicted(d)'
          PROVE  Convicted(d)
      BY <1>0, <1>1, <1>4, <2>0, <2>4 DEF Convicted, Digest
    <2>5. ExcessQuarantines'
      BY <2>0, <2>4 DEF ExcessQuarantines
    <2>6. QED
      BY <2>1, <2>2, <2>3, <2>5
  <1>5. QED
    BY <1>3, <1>4

\* Every step of the registry keeps the invariant.
LEMMA NextIInv == IInv /\ [Next]_vars => IInv'
  <1> SUFFICES ASSUME IInv, [Next]_vars PROVE IInv'
    OBVIOUS
  <1>1. ASSUME NEW r \in Revisions, Operate(r)
        PROVE  IInv'
    <2>1. CASE \E m \in Manifests : Register(r, m)
      BY <2>1, RegisterStep
    <2>2. CASE EnterShadow(r) \/ Retire(r)
      BY <2>2, TransitionStep
    <2>3. ASSUME NEW s \in Slots, Suspend(r, s)
          PROVE  IInv'
      BY <2>3, SuspendStep
    <2>4. ASSUME NEW s \in Slots, Activate(r, s) \/ Rollback(r, s)
          PROVE  IInv'
      BY <2>4, ActivateStep DEF Rollback
    <2>5. QED
      BY <1>1, <2>1, <2>2, <2>3, <2>4 DEF Operate
  <1>2. CASE Watch
    BY <1>2, WatchStep
  <1>3. CASE Decide
    <2>1. ASSUME NEW s \in Slots, NEW inScope \in BOOLEAN, Check(s, inScope)
          PROVE  IInv'
      BY <2>1, CheckStep
    <2>2. ASSUME NEW s \in Slots, NEW q \in Requests, NEW r \in Revisions,
                 NEW eligible \in BOOLEAN, NEW selected \in BOOLEAN,
                 SelectControl(q, r, s, eligible, selected)
          PROVE  IInv'
      BY <2>2, SelectStep
    <2>3. QED
      BY <1>3, <2>1, <2>2 DEF Decide
  <1>4. CASE Observe
    <2>1. ASSUME NEW s \in Slots, NEW q \in Requests, NEW outcome \in Outcomes,
                 RecordControl(q, s, outcome)
          PROVE  IInv'
      BY <2>1, RecordControlStep
    <2>2. ASSUME NEW s \in Slots, NEW o \in Observations, NEW r \in Revisions,
                 NEW excess \in BOOLEAN, RecordExecution(o, r, s, excess)
          PROVE  IInv'
      BY <2>2, RecordExecutionStep
    <2>3. QED
      BY <1>4, <2>1, <2>2 DEF Observe
  <1>5. CASE UNCHANGED vars
    <2>1. UNCHANGED <<state, manifest, suspendedSlot, streak, pointer, quarantine, lastSuspension,
                      evidence, watcherFailed, forced, controls, executions>>
      BY <1>5 DEF vars, rows, settings
    <2>2. TypeOK'
      BY <2>1 DEF IInv, TypeOK
    <2>3. TablesAgree' /\ OneRelease' /\ ExcessQuarantines'
      BY <2>1 DEF IInv, TablesAgree, OneRelease, ExcessQuarantines, Convicted, Digest
    <2>4. QED
      BY <2>2, <2>3 DEF IInv
  <1>6. QED
    BY <1>1, <1>2, <1>3, <1>4, <1>5 DEF Next

\* The inductive invariant holds in every reachable registry.
THEOREM Invariance == Spec => []IInv
  <1>1. QED
    BY InitIInv, NextIInv, PTL DEF Spec

\* The tables keep their types (every method of ProfileRegistry).
THEOREM TypeCorrect == Spec => []TypeOK
  <1>1. IInv => TypeOK
    BY DEF IInv
  <1>2. QED
    BY <1>1, Invariance, PTL

\* Rows, quarantine table and audit agree, and records refer to registered
\* revisions (_suspend, select_control, record_control, record_execution).
THEOREM TablesCorrect == Spec => []TablesAgree
  <1>1. IInv => TablesAgree
    BY DEF IInv
  <1>2. QED
    BY <1>1, Invariance, PTL

\* At most one revision is released, the pointed one (activate, rollback).
THEOREM OneReleaseCorrect == Spec => []OneRelease
  <1>1. IInv => OneRelease
    BY DEF IInv
  <1>2. QED
    BY <1>1, Invariance, PTL

\* Every recorded resource excess quarantines its artifact, whatever the order
\* of controls, executions, retirements and releases.
THEOREM ExcessCorrect == Spec => []ExcessQuarantines
  <1>1. IInv => ExcessQuarantines
    BY DEF IInv
  <1>2. QED
    BY <1>1, Invariance, PTL

\* A decision check grants rests on an artifact no record convicts and on the
\* deployments the artifact was calibrated against.
THEOREM EligibleCorrect == Spec => []EligibleIsSound
  <1>1. ASSUME IInv PROVE EligibleIsSound
    <2> SUFFICES ASSUME NEW s \in Slots, Eligible(s, TRUE)
                 PROVE  /\ state[pointer] = "active" /\ ~Convicted(Digest(pointer))
                        /\ ~watcherFailed /\ ~forced
                        /\ \A p \in DOMAIN manifest[pointer].bindings :
                             /\ evidence[p].fingerprint = manifest[pointer].bindings[p]
                             /\ Deployed[evidence[p].fingerprint] # NoSlot =>
                                  Deployed[evidence[p].fingerprint]
                                    < Calibration[Digest(pointer)]
      BY DEF EligibleIsSound
    <2>1. pointer \in Revisions /\ state[pointer] = "active"
      BY <1>1, ReleasedFact DEF Eligible, Trusted, IInv
    <2>2. /\ Digest(pointer) \in Digests
          /\ manifest[pointer].bindings \in Bindings
          /\ Digest(pointer) = manifest[pointer].digest
      BY <1>1, <2>1, RegistryAssumption DEF IInv, TablesAgree, Digest
    <2>3. ~Convicted(Digest(pointer))
      BY <1>1, <2>2 DEF Eligible, Trusted, IInv, ExcessQuarantines
    <2>4. ~EnvironmentFault(manifest[pointer], s) /\ ~forced
      BY DEF Eligible, Trusted
    <2>5. ASSUME NEW p \in DOMAIN manifest[pointer].bindings,
                 Deployed[evidence[p].fingerprint] # NoSlot
          PROVE  Deployed[evidence[p].fingerprint] < Calibration[Digest(pointer)]
      <3>1. /\ evidence[p].fingerprint = manifest[pointer].bindings[p]
            /\ ~(Deployed[evidence[p].fingerprint] >= Calibration[Digest(pointer)])
        BY <2>2, <2>4, <2>5 DEF EnvironmentFault, DeploymentFault
      <3>2. evidence[p].fingerprint \in Fingerprints
        BY <2>2, <3>1 DEF Bindings
      <3>3. Deployed[evidence[p].fingerprint] \in Int /\ Calibration[Digest(pointer)] \in Int
        BY <2>2, <3>2, SlotsAreInt, RegistryAssumption
      <3>4. QED
        BY <3>1, <3>3
    <2>6. QED
      BY <2>1, <2>3, <2>4, <2>5 DEF EnvironmentFault, DeploymentFault
  <1>2. QED
    BY <1>1, Invariance, PTL

\* revision_risk permits only artifacts calibrated after every suspension the
\* rows carry: the audit slot it reads bounds all of them.
THEOREM PermittedCorrect == Spec => []PermittedIsNewer
  <1>1. ASSUME IInv PROVE PermittedIsNewer
    <2> SUFFICES ASSUME NEW r \in Revisions, NEW x \in Revisions, NEW d \in Digests,
                        Permitted(r, d), suspendedSlot[x] # NoSlot
                 PROVE  Calibration[d] > suspendedSlot[x]
      BY DEF PermittedIsNewer
    <2>1. /\ suspendedSlot[x] \in Slots /\ lastSuspension \in Slots \cup {NoSlot}
          /\ suspendedSlot[x] <= lastSuspension
      BY <1>1 DEF IInv, TypeOK, TablesAgree
    <2>2. suspendedSlot[x] \in Nat /\ lastSuspension \in Int
      BY <2>1, SlotsAreInt
    <2>3. lastSuspension # NoSlot
      BY <2>1, <2>2 DEF NoSlot
    <2>4. Calibration[d] > lastSuspension
      BY <2>3 DEF Permitted
    <2>5. Calibration[d] \in Int
      BY SlotsAreInt, RegistryAssumption
    <2>6. QED
      BY <2>1, <2>2, <2>4, <2>5
  <1>2. QED
    BY <1>1, Invariance, PTL

-----------------------------------------------------------------------------
\* The steps that withdraw an artifact, and those that touch neither the
\* withdrawn artifacts nor the released one.
LEMMA StepKinds ==
    ASSUME IInv, Next
    PROVE  \/ \E r \in Revisions, s \in Slots :
                state[r] # "absent" /\ Withdraw(r, s) /\ UNCHANGED <<manifest, pointer>>
           \/ \E r \in Revisions, s \in Slots : Activate(r, s)
           \/ \E r \in Revisions : Retire(r)
           \/ \E r \in Revisions : EnterShadow(r)
           \/ \E r \in Revisions, m \in Manifests : Register(r, m)
           \/ UNCHANGED <<state, manifest, suspendedSlot, pointer, quarantine>>
  <1>1. ASSUME NEW r \in Revisions, NEW s \in Slots, Suspend(r, s)
        PROVE  state[r] # "absent" /\ Withdraw(r, s) /\ UNCHANGED <<manifest, pointer>>
    BY <1>1 DEF Suspend
  <1>2. ASSUME NEW s \in Slots, NEW inScope \in BOOLEAN, Check(s, inScope)
        PROVE  /\ pointer \in Revisions /\ state[pointer] # "absent"
               /\ Withdraw(pointer, s) /\ UNCHANGED <<manifest, pointer>>
    BY <1>2, ReleasedFact DEF Check, CheckWithdraws, IInv
  <1>3. ASSUME NEW q \in Requests, NEW s \in Slots, NEW outcome \in Outcomes,
               RecordControl(q, s, outcome)
        PROVE  \/ /\ controls[q].revision \in Revisions
                  /\ state[controls[q].revision] # "absent"
                  /\ Withdraw(controls[q].revision, s) /\ UNCHANGED <<manifest, pointer>>
               \/ UNCHANGED <<state, manifest, suspendedSlot, pointer, quarantine>>
    BY <1>3 DEF RecordControl, IInv, TablesAgree
  <1>4. ASSUME NEW o \in Observations, NEW r \in Revisions, NEW s \in Slots,
               NEW excess \in BOOLEAN, RecordExecution(o, r, s, excess)
        PROVE  \/ /\ state[r] # "absent"
                  /\ Withdraw(r, s) /\ UNCHANGED <<manifest, pointer>>
               \/ UNCHANGED <<state, manifest, suspendedSlot, pointer, quarantine>>
    BY <1>4 DEF RecordExecution
  <1>5. ASSUME Watch
        PROVE  UNCHANGED <<state, manifest, suspendedSlot, pointer, quarantine>>
    BY <1>5 DEF Watch, RecordDeployments, WatcherFailed, ForceSimulation, rows
  <1>6. ASSUME NEW q \in Requests, NEW r \in Revisions, NEW s \in Slots,
               NEW eligible \in BOOLEAN, NEW selected \in BOOLEAN,
               SelectControl(q, r, s, eligible, selected)
        PROVE  UNCHANGED <<state, manifest, suspendedSlot, pointer, quarantine>>
    BY <1>6 DEF SelectControl, rows
  <1>7. CASE \E r \in Revisions : Operate(r)
    BY <1>1, <1>7 DEF Operate, Rollback
  <1>8. CASE Watch
    BY <1>5, <1>8
  <1>9. CASE Decide
    BY <1>2, <1>6, <1>9 DEF Decide
  <1>10. CASE Observe
    BY <1>3, <1>4, <1>10 DEF Observe
  <1>11. QED
    BY <1>7, <1>8, <1>9, <1>10 DEF Next

\* A suspended revision never serves again and retirement is irreversible.
THEOREM WithdrawalCorrect == Spec => WithdrawalIsFinal
  <1>1. ASSUME IInv, [Next]_vars PROVE [WithdrawalKept]_vars
    <2>1. CASE UNCHANGED vars
      BY <2>1
    <2> SUFFICES ASSUME Next PROVE WithdrawalKept
      BY <1>1, <2>1
    <2>2. ASSUME NEW r \in Revisions, NEW s \in Slots, state[r] # "absent", Withdraw(r, s)
          PROVE  WithdrawalKept
      BY <1>1, <2>2 DEF Withdraw, IInv, TypeOK, WithdrawalKept
    <2>3. ASSUME NEW r \in Revisions, NEW s \in Slots, Activate(r, s)
          PROVE  WithdrawalKept
      BY <1>1, <2>3 DEF Activate, IInv, TypeOK, WithdrawalKept
    <2>4. ASSUME NEW r \in Revisions, NEW m \in Manifests, Register(r, m)
          PROVE  WithdrawalKept
      BY <1>1, <2>4 DEF Register, IInv, TypeOK, WithdrawalKept
    <2>5. ASSUME NEW r \in Revisions, Retire(r) \/ EnterShadow(r)
          PROVE  WithdrawalKept
      BY <1>1, <2>5 DEF Retire, EnterShadow, IInv, TypeOK, WithdrawalKept
    <2>6. ASSUME UNCHANGED state
          PROVE  WithdrawalKept
      BY <2>6 DEF WithdrawalKept
    <2>7. QED
      BY <1>1, <2>2, <2>3, <2>4, <2>5, <2>6, StepKinds
  <1>2. QED
    BY <1>1, Invariance, PTL DEF Spec, WithdrawalIsFinal

\* The released artifact, given what the tables say of the pointer.
LEMMA ReleasedDigestFact ==
    ASSUME IInv
    PROVE  /\ ReleasedDigest # NoDigest => /\ pointer \in Revisions
                                          /\ state[pointer] = "active"
                                          /\ ReleasedDigest = Digest(pointer)
                                          /\ ReleasedDigest \in Digests
           /\ ReleasedDigest = NoDigest \/ ReleasedDigest \notin quarantine
  <1>1. Released => pointer \in Revisions /\ state[pointer] = "active"
    BY ReleasedFact DEF IInv
  <1>2. Released => Digest(pointer) \in Digests
    BY <1>1, RegistryAssumption DEF IInv, TablesAgree, Digest
  <1>3. QED
    BY <1>1, <1>2 DEF ReleasedDigest, Trusted

\* The registry implements the release gate: a rejected artifact is never
\* released again, under any revision number.
THEOREM ImplementsGate == Spec => GateSpec
  <1>1. Init => Gate!Init
    BY DEF Init, Gate!Init, ReleasedDigest, Trusted, Released
  <1>2. ASSUME IInv, IInv', [Next]_vars PROVE [Gate!Next]_Gate!vars
    <2>1. ASSUME UNCHANGED <<state, manifest, suspendedSlot, pointer, quarantine>>
          PROVE  UNCHANGED Gate!vars
      BY <2>1 DEF Gate!vars, ReleasedDigest, Trusted, Released, Digest
    <2>2. CASE UNCHANGED vars
      BY <2>1, <2>2 DEF vars, rows
    <2> SUFFICES ASSUME Next PROVE [Gate!Next]_Gate!vars
      BY <1>2, <2>2
    <2>3. ASSUME NEW r \in Revisions, NEW s \in Slots, state[r] # "absent", Withdraw(r, s),
                 UNCHANGED <<manifest, pointer>>
          PROVE  Gate!Reject(Digest(r)) /\ Digest(r) \in Digests
      <3>1. Digest(r) \in Digests
        BY <1>2, <2>3, RegistryAssumption DEF IInv, TablesAgree, Digest
      <3>2. quarantine' = quarantine \cup {Digest(r)}
        BY <2>3 DEF Withdraw
      <3>3. \A x \in Revisions : Digest(x)' = Digest(x)
        BY <2>3 DEF Digest
      <3>4. CASE r = pointer
        <4>1. state'[r] \in {"suspended", "retired"}
          BY <1>2, <2>3, <3>4 DEF Withdraw, IInv, TypeOK
        <4>2. ReleasedDigest' = NoDigest
          BY <2>3, <3>4, <4>1 DEF ReleasedDigest, Trusted, Released
        <4>3. ReleasedDigest \in {NoDigest, Digest(r)}
          BY <3>4 DEF ReleasedDigest, Trusted
        <4>4. QED
          BY <3>1, <3>2, <4>2, <4>3 DEF Gate!Reject
      <3>5. CASE r # pointer
        <4>1. pointer \in Revisions => /\ state'[pointer] = state[pointer]
                                       /\ suspendedSlot'[pointer] = suspendedSlot[pointer]
          BY <1>2, <2>3, <3>5 DEF Withdraw, IInv, TypeOK
        <4>2. pointer \in Revisions \cup {NoRevision}
          BY <1>2 DEF IInv, TypeOK
        <4>3. Released' = Released
          BY <2>3, <4>1, <4>2 DEF Released
        <4>4. Released => pointer \in Revisions /\ Digest(pointer)' = Digest(pointer)
          BY <2>3, <3>3, <4>2 DEF Released, Digest
        <4>5. ReleasedDigest' = IF ReleasedDigest = Digest(r) THEN NoDigest ELSE ReleasedDigest
          BY <2>3, <3>1, <3>2, <4>3, <4>4, RegistryAssumption DEF ReleasedDigest, Trusted
        <4>6. QED
          BY <3>1, <3>2, <4>5 DEF Gate!Reject
      <3>6. QED
        BY <3>1, <3>4, <3>5
    <2>4. ASSUME NEW r \in Revisions, NEW s \in Slots, Activate(r, s)
          PROVE  Gate!Release(Digest(r)) /\ Digest(r) \in Digests
      <3>1. Digest(r) \in Digests
        BY <1>2, <2>4, RegistryAssumption DEF Activate, IInv, TablesAgree, Digest
      <3>2. /\ Digest(r) \notin quarantine /\ quarantine' = quarantine
            /\ pointer' = r /\ r # NoRevision /\ state'[r] = "active"
            /\ suspendedSlot'[r] = NoSlot /\ Digest(r)' = Digest(r)
        BY <2>4, RegistryAssumption DEF Activate, Digest
      <3>3. QED
        BY <3>1, <3>2 DEF Gate!Release, ReleasedDigest, Trusted, Released, Digest
    <2>5. ASSUME NEW r \in Revisions, Retire(r)
          PROVE  Gate!Retire \/ UNCHANGED Gate!vars
      <3>1. CASE r = pointer
        BY <1>2, <2>5, <3>1 DEF Retire, IInv, TypeOK, Gate!Retire, ReleasedDigest, Trusted, Released
      <3>2. CASE r # pointer
        BY <1>2, <2>5, <3>2 DEF Retire, IInv, TypeOK, Gate!vars, ReleasedDigest, Trusted, Released, Digest
      <3>3. QED
        BY <3>1, <3>2
    <2>6. ASSUME NEW r \in Revisions, NEW m \in Manifests, EnterShadow(r) \/ Register(r, m)
          PROVE  UNCHANGED Gate!vars
      <3>1. /\ state[r] \in {"absent", "candidate"}
            /\ state' = [state EXCEPT ![r] = state'[r]] /\ state'[r] \in {"candidate", "shadow"}
            /\ UNCHANGED <<suspendedSlot, pointer, quarantine>>
            /\ \A x \in Revisions : x # r => Digest(x)' = Digest(x)
        BY <1>2, <2>6 DEF EnterShadow, Register, IInv, TypeOK, Digest
      <3>2. pointer # r
        BY <1>2, <3>1, RegistryAssumption DEF IInv, OneRelease, TypeOK
      <3>3. pointer \in Revisions \cup {NoRevision}
        BY <1>2 DEF IInv, TypeOK
      <3>4. Released' = Released /\ (Released => Digest(pointer)' = Digest(pointer))
        BY <1>2, <3>1, <3>2, <3>3 DEF Released, IInv, TypeOK, Digest
      <3>5. QED
        BY <3>1, <3>4 DEF Gate!vars, ReleasedDigest, Trusted
    <2>7. QED
      <3>1. ASSUME NEW r \in Revisions, EnterShadow(r)
            PROVE  UNCHANGED Gate!vars
        BY <1>2, <3>1 DEF EnterShadow, IInv, TypeOK, OneRelease, Gate!vars, ReleasedDigest, Trusted,
                          Released, Digest
      <3>2. QED
        BY <1>2, <2>1, <2>3, <2>4, <2>5, <2>6, <3>1, StepKinds DEF Gate!Next
  <1>3. QED
    BY <1>1, <1>2, Invariance, PTL DEF Spec, GateSpec, Gate!Spec

\* A failed watcher is cleared only by a batch that covers everything cached,
\* so what is then certified is one coherent reading.
THEOREM RecoveryCoherent == Spec => RecoveryIsCoherent
  <1>1. ASSUME IInv, [Next]_vars, watcherFailed, ~watcherFailed',
               NEW p \in Programs, NEW x \in Programs,
               evidence[p] # NoEvidence, evidence[x] # NoEvidence
        PROVE  evidence'[p].observed = evidence'[x].observed
    <2>1. CASE \E f \in Bindings, s \in Slots : RecordDeployments(f, s)
      <3>1. PICK f \in Bindings, s \in Slots : RecordDeployments(f, s)
        BY <2>1
      <3>2. Clears(DOMAIN f)
        BY <1>1, <3>1 DEF RecordDeployments
      <3>3. p \in DOMAIN f /\ x \in DOMAIN f
        BY <1>1, <3>2 DEF Clears, Cached
      <3>4. QED
        BY <3>1, <3>3 DEF RecordDeployments
    <2>2. CASE ~\E f \in Bindings, s \in Slots : RecordDeployments(f, s)
      <3>1. watcherFailed' = TRUE \/ watcherFailed' = watcherFailed
        <4>1. CASE \E r \in Revisions : Operate(r)
          BY <4>1 DEF Operate, Register, EnterShadow, Retire, Suspend, Activate, Rollback, settings
        <4>2. CASE Watch
          BY <2>2, <4>2 DEF Watch, WatcherFailed, ForceSimulation
        <4>3. CASE Decide
          BY <4>3 DEF Decide, Check, SelectControl, settings
        <4>4. CASE Observe
          BY <4>4 DEF Observe, RecordControl, RecordExecution, settings
        <4>5. CASE UNCHANGED vars
          BY <4>5 DEF vars, settings
        <4>6. QED
          BY <1>1, <4>1, <4>2, <4>3, <4>4, <4>5 DEF Next
      <3>2. QED
        BY <1>1, <3>1
    <2>3. QED
      BY <2>1, <2>2
  <1>2. IInv /\ [Next]_vars =>
            (watcherFailed /\ ~watcherFailed' =>
               \A p, x \in Programs : evidence[p] # NoEvidence /\ evidence[x] # NoEvidence =>
                   evidence'[p].observed = evidence'[x].observed)
    BY <1>1
  <1>3. QED
    BY <1>2, Invariance, PTL DEF Spec, RecoveryIsCoherent

-----------------------------------------------------------------------------
(* Deterioration quarantines, for any number of controls and any streak    *)
(* limit: while a revision has heard nothing but incomplete outcomes, its  *)
(* stored streak is their number, whatever other revisions' outcomes,      *)
(* withdrawals and releases commit in between.                             *)

\* The controls of a revision with an outcome.
Heard(r) == {q \in Requests : controls[q].revision = r /\ controls[q].outcome # "none"}
NeverComplete(r) == \A q \in Heard(r) : ~Complete(controls[q].outcome)

\* The stored streak is the number of outcomes until one is complete, and at the
\* limit the artifact is quarantined.
StreakOf(r) ==
    /\ IsFiniteSet(Heard(r))
    /\ NeverComplete(r) => /\ streak[r] = Cardinality(Heard(r))
                           /\ streak[r] >= MaxFailureStreak => Digest(r) \in quarantine
StreakCounts == \A r \in Revisions : StreakOf(r)

\* Whoever has heard an outcome is registered, so its manifest stays.
LEMMA HeardIsRegistered ==
    ASSUME TablesAgree, NEW r \in Revisions, Heard(r) # {}
    PROVE  state[r] # "absent"
  BY DEF Heard, TablesAgree

\* A step that records no outcome, keeps the streaks and the manifests of the
\* registered revisions, and takes nothing out of quarantine.
LEMMA QuietStep ==
    ASSUME TypeOK, TablesAgree, StreakCounts, streak' = streak, quarantine \subseteq quarantine',
           \A r \in Revisions : Heard(r)' = Heard(r) /\ (NeverComplete(r)' => NeverComplete(r)),
           \A r \in Revisions : state[r] # "absent" => manifest'[r] = manifest[r]
    PROVE  StreakCounts'
  <1> SUFFICES ASSUME NEW r \in Revisions PROVE StreakOf(r)'
    BY DEF StreakCounts
  <1>1. IsFiniteSet(Heard(r)') /\ StreakOf(r)
    BY DEF StreakCounts, StreakOf
  <1> SUFFICES ASSUME NeverComplete(r)'
               PROVE  /\ streak'[r] = Cardinality(Heard(r)')
                      /\ streak'[r] >= MaxFailureStreak => Digest(r)' \in quarantine'
    BY <1>1 DEF StreakOf
  <1>2. streak'[r] = Cardinality(Heard(r)')
    BY <1>1 DEF StreakOf
  <1>3. CASE Heard(r) = {}
    <2>1. streak'[r] = 0
      BY <1>2, <1>3, FS_EmptySet
    <2>2. ~(streak'[r] >= MaxFailureStreak)
      BY <2>1, RegistryAssumption
    <2>3. QED
      BY <1>2, <2>2
  <1>4. CASE Heard(r) # {}
    <2>1. Digest(r)' = Digest(r)
      BY <1>4, HeardIsRegistered DEF Digest
    <2>2. streak[r] >= MaxFailureStreak => Digest(r) \in quarantine
      BY <1>1 DEF StreakOf
    <2>3. QED
      BY <1>2, <2>1, <2>2
  <1>5. QED
    BY <1>3, <1>4

\* Nothing is heard when the controls stay as they are.
LEMMA SameControls ==
    ASSUME controls' = controls, NEW r \in Revisions
    PROVE  Heard(r)' = Heard(r) /\ (NeverComplete(r)' => NeverComplete(r))
  BY DEF Heard, NeverComplete

LEMMA WithdrawAdds ==
    ASSUME NEW r, NEW s, Withdraw(r, s)
    PROVE  quarantine \subseteq quarantine' /\ Digest(r) \in quarantine'
  BY DEF Withdraw

\* A new selection has no outcome yet.
LEMMA SelectStreak ==
    ASSUME IInv, StreakCounts, NEW q \in Requests, NEW r \in Revisions, NEW s \in Slots,
           NEW eligible \in BOOLEAN, NEW selected \in BOOLEAN,
           SelectControl(q, r, s, eligible, selected)
    PROVE  StreakCounts'
  <1>1. /\ controls' = [controls EXCEPT ![q] = [revision |-> r, slot |-> s,
                                               selected |-> selected, outcome |-> "none"]]
        /\ controls[q].outcome = "none"
        /\ UNCHANGED <<streak, quarantine, manifest>>
    BY DEF SelectControl, rows, NoSelection
  <1>2. controls'[q].outcome = "none" /\ \A x \in Requests : x # q => controls'[x] = controls[x]
    BY <1>1 DEF IInv, TypeOK
  <1>3. \A x \in Revisions : Heard(x)' = Heard(x) /\ (NeverComplete(x)' => NeverComplete(x))
    <2> SUFFICES ASSUME NEW x \in Revisions
                 PROVE  Heard(x)' = Heard(x) /\ (NeverComplete(x)' => NeverComplete(x))
      OBVIOUS
    <2>1. Heard(x)' = Heard(x)
      BY <1>1, <1>2 DEF Heard
    <2>2. \A c \in Heard(x) : controls'[c] = controls[c]
      BY <1>1, <1>2 DEF Heard
    <2>3. QED
      BY <2>1, <2>2 DEF NeverComplete
  <1>4. QED
    BY <1>1, <1>3, QuietStep DEF IInv

\* An outcome is added to what its revision has heard, and counted.
LEMMA RecordStreak ==
    ASSUME IInv, StreakCounts, NEW q \in Requests, NEW s \in Slots, NEW outcome \in Outcomes,
           RecordControl(q, s, outcome)
    PROVE  StreakCounts'
  <1>0. controls[q].revision \in Revisions
    BY DEF RecordControl, IInv, TablesAgree
  <1> PICK r \in Revisions : r = controls[q].revision
    BY <1>0
  <1> DEFINE failures == IF Complete(outcome) THEN 0 ELSE streak[r] + 1
  <1>1. /\ controls[q].selected /\ controls[q].outcome = "none"
        /\ controls' = [controls EXCEPT ![q].outcome = outcome]
        /\ streak' = [streak EXCEPT ![r] = failures]
        /\ manifest' = manifest
        /\ IF Excess(outcome) \/ Deteriorated(failures)
           THEN Withdraw(r, s)
           ELSE UNCHANGED <<state, suspendedSlot, quarantine, lastSuspension>>
    BY DEF RecordControl
  <1>3. /\ controls'[q].revision = r /\ controls'[q].outcome = outcome
        /\ \A x \in Requests : x # q => controls'[x] = controls[x]
    BY <1>1 DEF IInv, TypeOK, Selection
  <1>4. outcome # "none"
    BY DEF Outcomes
  <1>5. quarantine \subseteq quarantine' /\ \A x \in Revisions : Digest(x)' = Digest(x)
    BY <1>1, WithdrawAdds DEF Digest
  <1>6. ASSUME NEW x \in Revisions, x # r PROVE StreakOf(x)'
    <2>1. Heard(x)' = Heard(x)
      BY <1>1, <1>3, <1>6 DEF Heard
    <2>2. \A c \in Heard(x) : controls'[c] = controls[c]
      BY <1>1, <1>3, <1>6 DEF Heard
    <2>3. streak'[x] = streak[x]
      BY <1>1, <1>6 DEF IInv, TypeOK
    <2>4. StreakOf(x)
      BY DEF StreakCounts
    <2>5. NeverComplete(x)' => NeverComplete(x)
      BY <2>1, <2>2 DEF NeverComplete
    <2>6. QED
      BY <1>5, <2>1, <2>3, <2>4, <2>5 DEF StreakOf
  <1>7. StreakOf(r)'
    <2>1. Heard(r)' = Heard(r) \cup {q} /\ q \notin Heard(r)
      BY <1>1, <1>3, <1>4 DEF Heard
    <2>2. StreakOf(r)
      BY DEF StreakCounts
    <2>3. IsFiniteSet(Heard(r)') /\ Cardinality(Heard(r)') = Cardinality(Heard(r)) + 1
      BY <2>1, <2>2, FS_AddElement DEF StreakOf
    <2>4. ASSUME NeverComplete(r)'
          PROVE  /\ streak'[r] = Cardinality(Heard(r)')
                 /\ streak'[r] >= MaxFailureStreak => Digest(r)' \in quarantine'
      <3>1. ~Complete(outcome)
        BY <1>3, <2>1, <2>4 DEF NeverComplete
      <3>2. NeverComplete(r)
        <4>1. \A c \in Heard(r) : controls'[c] = controls[c]
          BY <1>3, <2>1 DEF Heard
        <4>2. QED
          BY <2>1, <2>4, <4>1 DEF NeverComplete
      <3>3. streak'[r] = streak[r] + 1 /\ failures = streak'[r]
        BY <1>1, <3>1 DEF IInv, TypeOK
      <3>4. streak[r] = Cardinality(Heard(r))
        BY <2>2, <3>2 DEF StreakOf
      <3>5. failures >= MaxFailureStreak => Digest(r) \in quarantine'
        BY <1>1, WithdrawAdds DEF Deteriorated
      <3>6. Digest(r)' = Digest(r)
        BY <1>5
      <3>7. QED
        BY <2>3, <3>3, <3>4, <3>5, <3>6
    <2>5. QED
      BY <2>3, <2>4 DEF StreakOf
  <1>8. QED
    BY <1>6, <1>7 DEF StreakCounts

\* The registry starts without controls and with no streak.
LEMMA InitStreak == Init => StreakCounts
  <1> SUFFICES ASSUME Init, NEW r \in Revisions PROVE StreakOf(r)
    BY DEF StreakCounts
  <1>1. Heard(r) = {} /\ streak[r] = 0
    BY DEF Init, Heard, NoSelection
  <1>2. ~(streak[r] >= MaxFailureStreak)
    BY <1>1, RegistryAssumption
  <1>3. QED
    BY <1>1, <1>2, FS_EmptySet DEF StreakOf

\* Every step keeps the count.
LEMMA NextStreak == IInv /\ StreakCounts /\ [Next]_vars => StreakCounts'
  <1> SUFFICES ASSUME IInv, StreakCounts, [Next]_vars PROVE StreakCounts'
    OBVIOUS
  <1> DEFINE Quiet == /\ streak' = streak /\ controls' = controls
                      /\ quarantine \subseteq quarantine'
                      /\ \A r \in Revisions : state[r] # "absent" => manifest'[r] = manifest[r]
  <1>1. ASSUME Quiet PROVE StreakCounts'
    BY <1>1, SameControls, QuietStep DEF IInv
  <1>2. ASSUME NEW r \in Revisions, Operate(r) PROVE Quiet
    <2>1. ASSUME NEW m \in Manifests, Register(r, m) PROVE Quiet
      BY <2>1 DEF Register, IInv, TypeOK
    <2>2. ASSUME EnterShadow(r) \/ Retire(r) PROVE Quiet
      BY <2>2 DEF EnterShadow, Retire
    <2>3. ASSUME NEW s \in Slots, Suspend(r, s) PROVE Quiet
      BY <2>3, WithdrawAdds DEF Suspend
    <2>4. ASSUME NEW s \in Slots, Activate(r, s) \/ Rollback(r, s) PROVE Quiet
      BY <2>4 DEF Activate, Rollback
    <2>5. QED
      BY <1>2, <2>1, <2>2, <2>3, <2>4 DEF Operate
  <1>3. ASSUME Watch PROVE Quiet
    BY <1>3 DEF Watch, RecordDeployments, WatcherFailed, ForceSimulation, rows
  <1>4. ASSUME NEW s \in Slots, NEW inScope \in BOOLEAN, Check(s, inScope) PROVE Quiet
    BY <1>4, WithdrawAdds DEF Check
  <1>5. ASSUME NEW s \in Slots, NEW o \in Observations, NEW r \in Revisions,
               NEW excess \in BOOLEAN, RecordExecution(o, r, s, excess)
        PROVE  Quiet
    BY <1>5, WithdrawAdds DEF RecordExecution
  <1>6. ASSUME UNCHANGED vars PROVE Quiet
    BY <1>6 DEF vars, rows
  <1> HIDE DEF Quiet
  <1>7. CASE Decide
    BY <1>1, <1>4, <1>7, SelectStreak DEF Decide
  <1>8. CASE Observe
    BY <1>1, <1>5, <1>8, RecordStreak DEF Observe
  <1>9. QED
    BY <1>1, <1>2, <1>3, <1>6, <1>7, <1>8 DEF Next

\* A revision that heard nothing but incomplete outcomes, as many as the allowed
\* streak, has its artifact quarantined (record_control, lifecycle.py 1020-1060).
THEOREM DeteriorationCorrect == Spec => []DeteriorationQuarantines
  <1>1. StreakCounts => DeteriorationQuarantines
    <2> SUFFICES ASSUME StreakCounts, NEW r \in Revisions,
                        Cardinality(Heard(r)) >= MaxFailureStreak, NeverComplete(r)
                 PROVE  Digest(r) \in quarantine
      BY DEF DeteriorationQuarantines, Heard, NeverComplete
    <2>1. QED
      BY DEF StreakCounts, StreakOf
  <1>2. QED
    BY <1>1, InitIInv, NextIInv, InitStreak, NextStreak, PTL DEF Spec
==============================================================================
