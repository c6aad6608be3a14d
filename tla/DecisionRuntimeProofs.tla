------------------------ MODULE DecisionRuntimeProofs -------------------------
(***************************************************************************)
(* The estimates of one process over its control store (estimateResources, *)
(* typescript/src/runtime.ts), for any estimates, releases, snapshots and  *)
(* refreshes.                                                              *)
(*                                                                         *)
(* The argument: what the store holds of an id is what that id's estimate  *)
(* froze, and nobody else writes it; a rejection is never taken back, it   *)
(* only moves to a later slot.                                             *)
(***************************************************************************)
EXTENDS DecisionRuntime, FiniteSetTheorems, TLAPS

Estimates == [phase : Phases, options : Options \cup {NoOptions}, snapshot : Snapshots,
              selected : BOOLEAN, attempt : 0..MaxAttempts,
              observed : Observed, observedAt : Slots \cup {NoSlot}, status : Statuses]

Stores == [decisions : SUBSET Decisions, outcomes : SUBSET OutcomeRecords,
           recoveries : SUBSET [kind : {"recovery"}, id : Nat, release : Releases, limit : Limits],
           rejected : [Releases -> Slots \cup {NoSlot}],
           recovered : Releases \cup {NoRelease},
           streak : [Releases -> Nat], policy : [Releases -> Limits \cup {NoLimit}]]

Unfrozen == {"new", "persist"}

\* Where an estimate stands, by itself.
Place(it) ==
    /\ it.phase \notin {"report", "ended"} => it.attempt < MaxAttempts
    /\ it.phase # "ended" => it.status = "none"
    /\ it.phase # "new" => it.options \in Options
    /\ it.observed \in Results \ {"failed"} => it.observedAt \in Slots
    /\ it.phase = "report" => it.observed # "none" /\ it.selected

\* The store's decisions are those of its estimates, past their first await.
DecisionsOK == \A d \in store.decisions :
                  d = DecisionOfEstimate(d.id) /\ estimate[d.id].phase \notin Unfrozen

\* An outcome is of a decision, and an excess has rejected its release.
OutcomesOK == \A o \in store.outcomes :
                  /\ DecisionOfEstimate(o.id) \in store.decisions
                  /\ Excess(o.result) => store.rejected[estimate[o.id].snapshot.release] >= o.slot

FrozenOK == \A e \in Ids : estimate[e].phase = "recheck" => DecisionOfEstimate(e) \in store.decisions

RInv == /\ TypeOK
        /\ store \in Stores /\ IsFiniteSet(store.recoveries)
        /\ \A e \in Ids : Place(estimate[e])
        /\ DecisionsOK /\ OutcomesOK /\ FrozenOK
        /\ ExcessIsRecordedFirst

-----------------------------------------------------------------------------
(* Types.                                                                  *)

LEMMA SlotNumbers == Slots \subseteq Nat /\ Slots \cup {NoSlot} \subseteq Int /\ NoSlot \notin Slots
BY RecordsAssumption DEF NoSlot

LEMMA SnapshotFact ==
    ASSUME NEW s \in Snapshots
    PROVE  /\ s.release \in Releases /\ s.limit \in Limits /\ s.exported \in Int /\ s.slot \in Slots
BY RuntimeAssumption

LEMMA EstimateFact ==
    ASSUME RInv, NEW e \in Ids
    PROVE  /\ estimate[e] \in Estimates /\ Place(estimate[e])
           /\ estimate[e].snapshot \in Snapshots /\ estimate[e].snapshot.release \in Releases
           /\ estimate[e].phase # "new" => estimate[e].options \in Options
BY SnapshotFact DEF RInv, TypeOK, Estimates, Place

\* A frozen decision is well formed once its options are known.
LEMMA DecisionFact ==
    ASSUME RInv, NEW e \in Ids, estimate[e].phase # "new"
    PROVE  /\ DecisionOfEstimate(e) \in Decisions /\ DecisionOfEstimate(e).kind = "decision"
           /\ DecisionOfEstimate(e).id = e
           /\ DecisionOfEstimate(e).release = estimate[e].snapshot.release
<1>1. PICK it : it = estimate[e]
    OBVIOUS
<1>2. it \in Estimates /\ it.options \in Options /\ it.snapshot \in Snapshots
    BY <1>1, EstimateFact
<1>3. it.options.slot \in Slots /\ it.selected \in BOOLEAN
    BY <1>2 DEF Options, Estimates
<1>4. it.snapshot.release \in Releases /\ it.snapshot.limit \in Limits
    BY <1>2, SnapshotFact
<1>5. DecisionOfEstimate(e) = [kind |-> "decision", id |-> e, release |-> it.snapshot.release,
                               slot |-> it.options.slot, selected |-> it.selected,
                               limit |-> it.snapshot.limit]
    BY <1>1 DEF DecisionOfEstimate
<1> QED BY <1>1, <1>3, <1>4, <1>5 DEF Decisions

\* The same estimate makes the same decision.
LEMMA SameDecision ==
    ASSUME NEW e \in Ids, estimate'[e].snapshot = estimate[e].snapshot,
           estimate'[e].options = estimate[e].options, estimate'[e].selected = estimate[e].selected
    PROVE  DecisionOfEstimate(e)' = DecisionOfEstimate(e)
BY DEF DecisionOfEstimate

-----------------------------------------------------------------------------
(* One estimate moves and writes nothing.                                  *)

LEMMA OneMoves ==
    ASSUME RInv, NEW e \in Ids, NEW new \in Estimates, Place(new),
           estimate' = [estimate EXCEPT ![e] = new], UNCHANGED <<live, now, store>>,
           estimate[e].phase \notin Unfrozen =>
               /\ new.phase \notin Unfrozen /\ new.snapshot = estimate[e].snapshot
               /\ new.options = estimate[e].options /\ new.selected = estimate[e].selected,
           new.phase # "recheck",
           new.status = "simulation" => ~new.selected
    PROVE  RInv'
<1>1. estimate \in [Ids -> Estimates]
    BY DEF RInv, TypeOK, Estimates
<1>2. TypeOK' /\ store' \in Stores /\ IsFiniteSet(store'.recoveries)
    BY <1>1 DEF RInv, TypeOK, Estimates
<1>3. estimate'[e] = new /\ \A x \in Ids : x # e => estimate'[x] = estimate[x]
    BY <1>1
<1>4. \A x \in Ids : Place(estimate'[x])
    BY <1>3 DEF RInv
<1>5. \A x \in Ids : estimate[x].phase \notin Unfrozen =>
          /\ estimate'[x].phase \notin Unfrozen /\ estimate'[x].snapshot = estimate[x].snapshot
          /\ DecisionOfEstimate(x)' = DecisionOfEstimate(x)
    BY <1>3, SameDecision
<1>6. \A d \in store.decisions : d.id \in Ids
    BY DEF RInv, Stores, Decisions
<1>7. DecisionsOK'
    BY <1>5, <1>6 DEF RInv, DecisionsOK
<1>8. OutcomesOK'
    <2> SUFFICES ASSUME NEW o \in store.outcomes
                 PROVE  /\ DecisionOfEstimate(o.id)' \in store.decisions
                        /\ Excess(o.result) => store.rejected[estimate'[o.id].snapshot.release] >= o.slot
        BY DEF OutcomesOK
    <2>1. o.id \in Ids
        BY DEF RInv, Stores, OutcomeRecords
    <2>2. DecisionOfEstimate(o.id) \in store.decisions
        BY DEF RInv, OutcomesOK
    <2>3. DecisionOfEstimate(o.id).id = o.id
        BY DEF DecisionOfEstimate
    <2>4. estimate[o.id].phase \notin Unfrozen
        BY <2>2, <2>3 DEF RInv, DecisionsOK
    <2> QED BY <1>5, <2>1, <2>2, <2>4 DEF RInv, OutcomesOK
<1>9. FrozenOK'
    <2> SUFFICES ASSUME NEW x \in Ids, estimate'[x].phase = "recheck"
                 PROVE  DecisionOfEstimate(x)' \in store.decisions
        BY DEF FrozenOK
    <2>1. x # e /\ estimate[x].phase = "recheck"
        BY <1>3
    <2> QED BY <1>5, <2>1 DEF RInv, FrozenOK, Unfrozen
<1>10. ExcessIsRecordedFirst'
    BY <1>3 DEF RInv, ExcessIsRecordedFirst
<1> QED BY <1>2, <1>4, <1>7, <1>8, <1>9, <1>10 DEF RInv

LEMMA StartKeeps ==
    ASSUME RInv, NEW e \in Ids, NEW o \in Requests, Start(e, o)
    PROVE  RInv'
<1>1. PICK it : it = estimate[e]
    OBVIOUS
<1>2. it \in Estimates /\ Place(it) /\ it.phase = "new"
    BY <1>1, EstimateFact DEF Start
<1>3. o \in Options /\ live \in Snapshots /\ o.drawn \in BOOLEAN
    BY RuntimeAssumption DEF Options, RInv, TypeOK
<1>4. PICK phase \in {"persist", "simulate"}, selected \in BOOLEAN :
         estimate' = [estimate EXCEPT ![e] = Amend(it, [phase |-> phase, options |-> o,
                                                       snapshot |-> live, selected |-> selected])]
    <2> DEFINE eligible == ~Risk(live, o.slot) /\ ~Blocked(store, live.release) /\ ~o.forced
    <2>1. Become(e, [phase |-> IF eligible THEN "persist" ELSE "simulate", options |-> o,
                     snapshot |-> live, selected |-> eligible /\ o.drawn])
        BY DEF Start
    <2> HIDE DEF eligible
    <2>2. (IF eligible THEN "persist" ELSE "simulate") \in {"persist", "simulate"}
          /\ (eligible /\ o.drawn) \in BOOLEAN
        BY Zenon
    <2>3. PICK phase, selected : phase = (IF eligible THEN "persist" ELSE "simulate")
                                /\ selected = (eligible /\ o.drawn)
        BY Zenon
    <2> QED BY <1>1, <2>1, <2>2, <2>3, Zenon DEF Become
<1>5. PICK k, s : s = live /\ k = Amend(it, [phase |-> phase, options |-> o, snapshot |-> s, selected |-> selected])
    OBVIOUS
<1>6. /\ k \in Estimates /\ k.phase = phase /\ k.options = o /\ k.attempt = it.attempt
      /\ k.status = it.status /\ k.observed = it.observed /\ k.observedAt = it.observedAt
    BY <1>2, <1>3, <1>5 DEF Amend, Estimates, Phases
<1>7. Place(k)
    BY <1>2, <1>3, <1>6 DEF Place
<1>8. k.status # "simulation"
    BY <1>2, <1>6 DEF Place
<1> QED BY <1>1, <1>2, <1>4, <1>5, <1>6, <1>7, <1>8, OneMoves DEF Start, Unfrozen

LEMMA ThrowKeeps ==
    ASSUME RInv, NEW e \in Ids, estimate[e].phase \in {"persist", "report"}, Throw(e),
           UNCHANGED <<live, now, store>>
    PROVE  RInv'
<1>1. PICK it : it = estimate[e]
    OBVIOUS
<1>2. it \in Estimates /\ Place(it) /\ it.phase \in {"persist", "report"}
    BY <1>1, EstimateFact
<1>3. PICK k : k = Amend(it, [phase |-> "ended", status |-> "unresolved"])
    OBVIOUS
<1>4. /\ k \in Estimates /\ k.phase = "ended" /\ k.options = it.options /\ k.snapshot = it.snapshot
      /\ k.selected = it.selected /\ k.status = "unresolved"
      /\ k.observed = it.observed /\ k.observedAt = it.observedAt
    BY <1>2, <1>3 DEF Amend, Estimates, Phases, Statuses
<1>5. Place(k)
    BY <1>2, <1>4 DEF Place
<1>6. estimate' = [estimate EXCEPT ![e] = k]
    BY <1>1, <1>3 DEF Throw, Become
<1> QED BY <1>1, <1>4, <1>5, <1>6, OneMoves DEF Unfrozen

\* The standing decision answers, or the estimate goes on to its simulation.
LEMMA RecheckKeeps ==
    ASSUME RInv, NEW e \in Ids, Recheck(e)
    PROVE  RInv'
<1>1. PICK it : it = estimate[e]
    OBVIOUS
<1>2. it \in Estimates /\ Place(it) /\ it.phase = "recheck"
    BY <1>1, EstimateFact DEF Recheck
<1>3. CASE Become(e, [phase |-> "ended", status |-> "prediction"])
    <2>1. PICK k : k = Amend(it, [phase |-> "ended", status |-> "prediction"])
        OBVIOUS
    <2>2. /\ k \in Estimates /\ k.phase = "ended" /\ k.options = it.options /\ k.snapshot = it.snapshot
          /\ k.selected = it.selected /\ k.status = "prediction"
          /\ k.observed = it.observed /\ k.observedAt = it.observedAt
        BY <1>2, <2>1 DEF Amend, Estimates, Phases, Statuses
    <2>3. Place(k)
        BY <1>2, <2>2 DEF Place
    <2>4. estimate' = [estimate EXCEPT ![e] = k]
        BY <1>1, <1>3, <2>1 DEF Become
    <2> QED BY <1>1, <2>2, <2>3, <2>4, OneMoves DEF Unfrozen, Recheck
<1>4. CASE Become(e, [phase |-> "simulate"])
    <2>1. PICK k : k = Amend(it, [phase |-> "simulate"])
        OBVIOUS
    <2>2. /\ k \in Estimates /\ k.phase = "simulate" /\ k.options = it.options /\ k.snapshot = it.snapshot
          /\ k.selected = it.selected /\ k.status = it.status /\ k.attempt = it.attempt
          /\ k.observed = it.observed /\ k.observedAt = it.observedAt
        BY <1>2, <2>1 DEF Amend, Estimates, Phases
    <2>3. Place(k) /\ k.status # "simulation"
        BY <1>2, <2>2 DEF Place
    <2>4. estimate' = [estimate EXCEPT ![e] = k]
        BY <1>1, <1>4, <2>1 DEF Become
    <2> QED BY <1>1, <2>2, <2>3, <2>4, OneMoves DEF Unfrozen, Recheck
<1> QED BY <1>3, <1>4 DEF Recheck

LEMMA ObserveKeeps ==
    ASSUME RInv, NEW e \in Ids, estimate[e].phase = "simulate",
           NEW observed \in Results \cup {"stale"}, NEW at \in Slots \cup {NoSlot},
           observed \in Results \ {"failed"} => at \in Slots,
           Observe(e, observed, at)
    PROVE  RInv'
<1>1. PICK it : it = estimate[e]
    OBVIOUS
<1>2. it \in Estimates /\ Place(it) /\ it.phase = "simulate" /\ it.attempt < MaxAttempts
    BY <1>1, EstimateFact DEF Place
<1>3. PICK phase, status :
         /\ phase = IF it.selected THEN "report" ELSE "ended"
         /\ status = IF it.selected THEN "none"
                     ELSE IF Measured(observed) THEN "simulation" ELSE "unresolved"
    OBVIOUS
<1>4. PICK k : k = Amend(it, [attempt |-> it.attempt + 1, observed |-> observed, observedAt |-> at,
                             phase |-> phase, status |-> status])
    OBVIOUS
<1>5. it.attempt + 1 \in 0..MaxAttempts
    BY <1>2, RuntimeAssumption DEF Estimates
<1>6. phase \in Phases /\ status \in Statuses /\ observed \in Observed
    BY <1>3 DEF Phases, Statuses, Observed
<1>7. /\ k \in Estimates /\ k.phase = phase /\ k.options = it.options /\ k.snapshot = it.snapshot
      /\ k.selected = it.selected /\ k.status = status /\ k.observed = observed /\ k.observedAt = at
    BY <1>2, <1>4, <1>5, <1>6 DEF Amend, Estimates
<1>8. observed # "none"
    BY DEF Results
<1>9. Place(k) /\ (k.status = "simulation" => ~k.selected)
    BY <1>2, <1>3, <1>7, <1>8 DEF Place
<1>10. estimate' = [estimate EXCEPT ![e] = k]
    BY <1>1, <1>3, <1>4 DEF Observe, Become
<1>11. k.phase \notin Unfrozen /\ k.phase # "recheck"
    BY <1>3, <1>7 DEF Unfrozen
<1> QED BY <1>1, <1>7, <1>9, <1>10, <1>11, OneMoves DEF Observe

LEMMA RetriesKeep ==
    ASSUME RInv, NEW e \in Ids, Retry(e) \/ Resume(e)
    PROVE  RInv'
<1>1. PICK it : it = estimate[e]
    OBVIOUS
<1>2. it \in Estimates /\ Place(it) /\ it.phase \in {"simulate", "backoff"} /\ UNCHANGED <<live, now, store>>
    BY <1>1, EstimateFact DEF Retry, Resume
<1>3. ASSUME NEW k \in Estimates, k.phase \in {"simulate", "backoff"}, k.options = it.options,
             k.snapshot = it.snapshot, k.selected = it.selected, k.status = it.status,
             k.attempt < MaxAttempts, k.observed = it.observed, k.observedAt = it.observedAt,
             estimate' = [estimate EXCEPT ![e] = k]
      PROVE  RInv'
    <2>1. Place(k) /\ k.status # "simulation"
        BY <1>2, <1>3 DEF Place
    <2> QED BY <1>1, <1>2, <1>3, <2>1, OneMoves DEF Unfrozen
<1>4. CASE Retry(e)
    <2>1. it.attempt + 1 \in 0..MaxAttempts /\ it.attempt + 1 < MaxAttempts
        BY <1>1, <1>2, <1>4, RuntimeAssumption DEF Retry, Estimates
    <2>2. PICK k : k = Amend(it, [attempt |-> it.attempt + 1, phase |-> "backoff"])
        OBVIOUS
    <2>3. /\ k \in Estimates /\ k.phase = "backoff" /\ k.options = it.options
          /\ k.snapshot = it.snapshot /\ k.selected = it.selected /\ k.status = it.status
          /\ k.attempt = it.attempt + 1 /\ k.observed = it.observed /\ k.observedAt = it.observedAt
        BY <1>2, <2>1, <2>2 DEF Amend, Estimates, Phases
    <2>4. estimate' = [estimate EXCEPT ![e] = k]
        BY <1>1, <1>4, <2>2 DEF Retry, Become
    <2> QED BY <1>3, <2>1, <2>3, <2>4
<1>5. CASE Resume(e)
    <2>1. PICK k : k = Amend(it, [phase |-> "simulate"])
        OBVIOUS
    <2>2. /\ k \in Estimates /\ k.phase = "simulate" /\ k.options = it.options
          /\ k.snapshot = it.snapshot /\ k.selected = it.selected /\ k.status = it.status
          /\ k.attempt = it.attempt /\ k.observed = it.observed /\ k.observedAt = it.observedAt
        BY <1>2, <2>1 DEF Amend, Estimates, Phases
    <2>3. it.attempt < MaxAttempts
        BY <1>2 DEF Place
    <2>4. estimate' = [estimate EXCEPT ![e] = k]
        BY <1>1, <1>5, <2>1 DEF Resume, Become
    <2> QED BY <1>3, <2>2, <2>3, <2>4
<1> QED BY <1>4, <1>5

LEMMA CancelKeeps ==
    ASSUME RInv, NEW e \in Ids, Cancel(e)
    PROVE  RInv'
<1>1. PICK it : it = estimate[e]
    OBVIOUS
<1>2. it \in Estimates /\ Place(it) /\ it.phase = "backoff"
    BY <1>1, EstimateFact DEF Cancel
<1>3. PICK phase, status : /\ phase = IF it.selected THEN "report" ELSE "ended"
                           /\ status = IF it.selected THEN "none" ELSE "unresolved"
    OBVIOUS
<1>4. PICK k : k = Amend(it, [phase |-> phase, observed |-> "failed", status |-> status])
    OBVIOUS
<1>5. phase \in Phases /\ status \in Statuses /\ "failed" \in Observed
    BY <1>3 DEF Phases, Statuses, Observed, Results
<1>6. /\ k \in Estimates /\ k.phase = phase /\ k.options = it.options /\ k.snapshot = it.snapshot
      /\ k.selected = it.selected /\ k.status = status /\ k.observed = "failed"
    BY <1>2, <1>4, <1>5 DEF Amend, Estimates
<1>7. Place(k) /\ k.status # "simulation"
    BY <1>2, <1>3, <1>6 DEF Place
<1>8. estimate' = [estimate EXCEPT ![e] = k]
    BY <1>1, <1>3, <1>4 DEF Cancel, Become
<1>9. k.phase \notin Unfrozen /\ k.phase # "recheck"
    BY <1>3, <1>6 DEF Unfrozen
<1> QED BY <1>1, <1>6, <1>7, <1>8, <1>9, OneMoves DEF Cancel

-----------------------------------------------------------------------------
(* The store is written.                                                   *)

\* What a write leaves of the store: nothing goes, and rejections move on.
Grows == /\ store.decisions \subseteq store'.decisions
         /\ \A r \in Releases : store'.rejected[r] >= store.rejected[r]

LEMMA RejectedNumbers ==
    ASSUME NEW mem \in Stores, NEW r \in Releases
    PROVE  mem.rejected[r] \in Int
BY SlotNumbers DEF Stores

\* The frozen facts after a write by estimate e, if its own are in order.
LEMMA WritesKeep ==
    ASSUME RInv, store' \in Stores, IsFiniteSet(store'.recoveries), Grows, UNCHANGED <<live, now>>,
           NEW e \in Ids, NEW new \in Estimates, Place(new),
           estimate' = [estimate EXCEPT ![e] = new],
           estimate[e].phase # "new", new.phase \notin Unfrozen, new.snapshot = estimate[e].snapshot,
           new.options = estimate[e].options, new.selected = estimate[e].selected,
           store'.decisions \subseteq store.decisions \cup {DecisionOfEstimate(e)},
           \A o \in store'.outcomes \ store.outcomes :
               /\ o.id = e /\ DecisionOfEstimate(e) \in store'.decisions
               /\ Excess(o.result) => store'.rejected[estimate[e].snapshot.release] >= o.slot,
           new.phase = "recheck" => DecisionOfEstimate(e) \in store'.decisions,
           (ExcessIsRecordedFirst)'
    PROVE  RInv'
<1>1. estimate \in [Ids -> Estimates]
    BY DEF RInv, TypeOK, Estimates
<1>2. TypeOK'
    BY <1>1 DEF RInv, TypeOK, Estimates, Stores
<1>3. estimate'[e] = new /\ \A x \in Ids : x # e => estimate'[x] = estimate[x]
    BY <1>1
<1>4. \A x \in Ids : Place(estimate'[x])
    BY <1>3 DEF RInv
<1>5. \A x \in Ids : /\ estimate[x].phase \notin Unfrozen => estimate'[x].phase \notin Unfrozen
                      /\ estimate'[x].snapshot = estimate[x].snapshot
                      /\ estimate'[x].options = estimate[x].options
                      /\ estimate'[x].selected = estimate[x].selected
    BY <1>3
<1>6. DecisionsOK'
    <2> SUFFICES ASSUME NEW d \in store'.decisions
                 PROVE  d = DecisionOfEstimate(d.id)' /\ estimate'[d.id].phase \notin Unfrozen
        BY DEF DecisionsOK
    <2>1. CASE d \in store.decisions
        <3>1. d.id \in Ids
            BY <2>1 DEF RInv, Stores, Decisions
        <3> QED BY <1>5, <2>1, <3>1 DEF RInv, DecisionsOK, DecisionOfEstimate
    <2>2. CASE d = DecisionOfEstimate(e)
        BY <1>3, <1>5, <2>2 DEF DecisionOfEstimate
    <2> QED BY <2>1, <2>2
<1>7. OutcomesOK'
    <2> SUFFICES ASSUME NEW o \in store'.outcomes
                 PROVE  /\ DecisionOfEstimate(o.id)' \in store'.decisions
                        /\ Excess(o.result) => store'.rejected[estimate'[o.id].snapshot.release] >= o.slot
        BY DEF OutcomesOK
    <2>1. CASE o \in store.outcomes
        <3>1. o.id \in Ids /\ o.slot \in Slots \cup {NoSlot}
            BY <2>1 DEF RInv, Stores, OutcomeRecords
        <3>2. DecisionOfEstimate(o.id) \in store.decisions
              /\ (Excess(o.result) => store.rejected[estimate[o.id].snapshot.release] >= o.slot)
            BY <2>1 DEF RInv, OutcomesOK
        <3>3. PICK r \in Releases : r = estimate[o.id].snapshot.release
            BY <3>1, EstimateFact
        <3>4. store.rejected[r] \in Int /\ store'.rejected[r] \in Int /\ o.slot \in Int
              /\ store'.rejected[r] >= store.rejected[r]
            BY <3>1, RejectedNumbers, SlotNumbers DEF RInv, Grows
        <3>5. DecisionOfEstimate(o.id)' = DecisionOfEstimate(o.id)
              /\ estimate'[o.id].snapshot = estimate[o.id].snapshot
            BY <1>5, <3>1, SameDecision
        <3>6. DecisionOfEstimate(o.id)' \in store'.decisions
            BY <3>2, <3>5 DEF Grows
        <3>7. Excess(o.result) => store'.rejected[r] >= o.slot
            BY <3>2, <3>3, <3>4
        <3> QED BY <3>3, <3>5, <3>6, <3>7
    <2>2. CASE o \notin store.outcomes
        <3>1. /\ o.id = e /\ DecisionOfEstimate(e) \in store'.decisions
              /\ Excess(o.result) => store'.rejected[estimate[e].snapshot.release] >= o.slot
            BY <2>2
        <3>2. DecisionOfEstimate(e)' = DecisionOfEstimate(e)
              /\ estimate'[e].snapshot = estimate[e].snapshot
            BY <1>5, SameDecision
        <3>3. DecisionOfEstimate(o.id)' = DecisionOfEstimate(e)
            BY <3>1, <3>2
        <3> QED BY <3>1, <3>2, <3>3
    <2> QED BY <2>1, <2>2
<1>8. FrozenOK'
    <2> SUFFICES ASSUME NEW x \in Ids, estimate'[x].phase = "recheck"
                 PROVE  DecisionOfEstimate(x)' \in store'.decisions
        BY DEF FrozenOK
    <2>1. DecisionOfEstimate(x)' = DecisionOfEstimate(x)
        BY <1>5, SameDecision
    <2>2. CASE x = e
        BY <1>3, <2>1, <2>2
    <2>3. CASE x # e
        <3>1. DecisionOfEstimate(x) \in store.decisions
            BY <1>3, <2>3 DEF RInv, FrozenOK
        <3> QED BY <2>1, <3>1 DEF Grows
    <2> QED BY <2>2, <2>3
<1> QED BY <1>2, <1>4, <1>6, <1>7, <1>8 DEF RInv

\* Other estimates' answers stand when the store only grows.
LEMMA RecordedStays ==
    ASSUME RInv, store' \in Stores, Grows, NEW e \in Ids, NEW new \in Estimates,
           estimate' = [estimate EXCEPT ![e] = new], new.snapshot = estimate[e].snapshot,
           new.selected /\ new.observed = "excess" /\ new.status = "simulation" =>
               store'.rejected[new.snapshot.release] >= new.observedAt
    PROVE  ExcessIsRecordedFirst'
<1> SUFFICES ASSUME NEW x \in Ids, estimate'[x].selected, estimate'[x].observed = "excess",
                    estimate'[x].status = "simulation"
             PROVE  store'.rejected[estimate'[x].snapshot.release] >= estimate'[x].observedAt
    BY DEF ExcessIsRecordedFirst
<1>1. estimate \in [Ids -> Estimates]
    BY DEF RInv, TypeOK, Estimates
<1>2. CASE x = e
    BY <1>1, <1>2
<1>3. CASE x # e
    <2>1. PICK it : it = estimate[x]
        OBVIOUS
    <2>2. it = estimate'[x] /\ it \in Estimates
        BY <1>1, <1>3, <2>1
    <2>3. PICK r \in Releases : r = it.snapshot.release
        BY <2>1, EstimateFact
    <2>4. store.rejected[r] >= it.observedAt
        BY <2>1, <2>2, <2>3 DEF RInv, ExcessIsRecordedFirst
    <2>5. it.observedAt \in Int
        BY <2>2, SlotNumbers DEF Estimates
    <2>6. store.rejected[r] \in Int /\ store'.rejected[r] \in Int /\ store'.rejected[r] >= store.rejected[r]
        BY RejectedNumbers DEF RInv, Grows
    <2> QED BY <2>2, <2>3, <2>4, <2>5, <2>6
<1> QED BY <1>2, <1>3

\* recordDecision's write of a new decision.
LEMMA DecisionWritten ==
    ASSUME NEW mem \in Stores, NEW d \in Decisions, d.kind = "decision", d \notin mem.decisions,
           NEW m, m = Apply(mem, d)
    PROVE  /\ m \in Stores /\ m.decisions = mem.decisions \cup {d} /\ m.outcomes = mem.outcomes
           /\ m.recoveries = mem.recoveries /\ m.rejected = mem.rejected
<1>1. d.release \in Releases /\ d.limit \in Limits
    BY DEF Decisions
<1>2. ~Repeated(mem, d)
    BY DEF Repeated, Held
<1>3. m = [mem EXCEPT !.decisions = mem.decisions \cup {d},
                      !.policy = [mem.policy EXCEPT ![d.release] = d.limit]]
    BY <1>2 DEF Apply, Stores
<1>4. [mem.policy EXCEPT ![d.release] = d.limit] \in [Releases -> Limits \cup {NoLimit}]
    BY <1>1 DEF Stores
<1>5. mem.decisions \cup {d} \in SUBSET Decisions
    BY DEF Stores
<1> QED BY <1>3, <1>4, <1>5 DEF Stores

\* recordOutcome's write of a new outcome o of the decision d.
LEMMA OutcomeWritten ==
    ASSUME NEW mem \in Stores, NEW o \in OutcomeRecords, o.kind = "outcome", o \notin mem.outcomes,
           NEW d \in Decisions, d = DecisionOf(mem, o), NEW m, m = Apply(mem, o)
    PROVE  /\ m \in Stores /\ m.decisions = mem.decisions /\ m.outcomes = mem.outcomes \cup {o}
           /\ m.recoveries = mem.recoveries
           /\ \A r \in Releases : m.rejected[r] >= mem.rejected[r]
           /\ Excess(o.result) => m.rejected[d.release] >= RejectedAt(d, o)
<1>1. PICK r : r = d.release
    OBVIOUS
<1>2. PICK n : n = IF Measured(o.result) THEN 0 ELSE mem.streak[r] + 1
    OBVIOUS
<1>3. PICK at : at = RejectedAt(d, o)
    OBVIOUS
<1>4. r \in Releases /\ n \in Nat /\ at \in Slots \cup {NoSlot} /\ at \in Int
    <2>1. r \in Releases /\ d.slot \in Slots /\ o.slot \in Slots \cup {NoSlot}
        BY <1>1 DEF Decisions, OutcomeRecords
    <2>2. n \in Nat
        BY <1>2, <2>1 DEF Stores
    <2> QED BY <1>3, <2>1, <2>2, SlotNumbers DEF RejectedAt
<1>5. ~Repeated(mem, o)
    BY DEF Repeated, Held
<1>6. PICK noted : noted = [mem EXCEPT !.outcomes = mem.outcomes \cup {o},
                                       !.streak = [mem.streak EXCEPT ![r] = n]]
    OBVIOUS
<1>7. /\ noted \in Stores /\ noted.decisions = mem.decisions /\ noted.outcomes = mem.outcomes \cup {o}
      /\ noted.recoveries = mem.recoveries /\ noted.rejected = mem.rejected
    BY <1>4, <1>6 DEF Stores
<1>8. m = IF Excess(o.result) \/ n >= d.limit
          THEN [noted EXCEPT !.rejected[r] = IF @ > at THEN @ ELSE at, !.recovered = NoRelease]
          ELSE noted
    <2>1. m = ApplyOutcome(mem, o)
        BY <1>5 DEF Apply
    <2> QED BY <1>1, <1>2, <1>3, <1>6, <2>1 DEF ApplyOutcome, Stores
<1>9. \A x \in Releases : mem.rejected[x] \in Int
    BY RejectedNumbers
<1>10. CASE Excess(o.result) \/ n >= d.limit
    <2>1. PICK top : top = IF mem.rejected[r] > at THEN mem.rejected[r] ELSE at
        OBVIOUS
    <2>2. PICK rejected : rejected = [mem.rejected EXCEPT ![r] = top]
        OBVIOUS
    <2>3. m = [noted EXCEPT !.rejected = rejected, !.recovered = NoRelease]
        BY <1>7, <1>8, <1>10, <2>1, <2>2 DEF Stores
    <2>4. top \in Slots \cup {NoSlot} /\ top >= at /\ top >= mem.rejected[r]
        BY <1>4, <1>9, <2>1 DEF Stores
    <2>5. /\ rejected \in [Releases -> Slots \cup {NoSlot}] /\ rejected[r] = top
          /\ \A x \in Releases : x # r => rejected[x] = mem.rejected[x]
        BY <1>4, <2>2, <2>4 DEF Stores
    <2>6. m \in Stores /\ m.decisions = noted.decisions /\ m.outcomes = noted.outcomes
          /\ m.recoveries = noted.recoveries /\ m.rejected = rejected
        BY <1>7, <2>3, <2>5 DEF Stores
    <2>7. \A x \in Releases : m.rejected[x] >= mem.rejected[x]
        <3> TAKE x \in Releases
        <3>1. mem.rejected[x] \in Int
            BY <1>9
        <3>2. rejected[x] >= mem.rejected[x]
            BY <2>4, <2>5, <3>1
        <3> QED BY <2>6, <3>2
    <2> QED BY <1>1, <1>3, <1>7, <2>4, <2>5, <2>6, <2>7
<1>11. CASE ~(Excess(o.result) \/ n >= d.limit)
    BY <1>7, <1>8, <1>9, <1>11
<1> QED BY <1>10, <1>11

\* recover's write.
LEMMA RecoveryWritten ==
    ASSUME NEW mem \in Stores, NEW s \in Snapshots, NEW n \in Nat, NEW x,
           x = [kind |-> "recovery", id |-> n, release |-> s.release, limit |-> s.limit],
           NEW m, m = Apply(mem, x)
    PROVE  /\ m \in Stores /\ m.decisions = mem.decisions /\ m.outcomes = mem.outcomes
           /\ m.recoveries \subseteq mem.recoveries \cup {x} /\ m.rejected = mem.rejected
<1>1. x.kind = "recovery" /\ x.release \in Releases /\ x.limit \in Limits
    BY SnapshotFact
<1>2. x \in [kind : {"recovery"}, id : Nat, release : Releases, limit : Limits]
    BY SnapshotFact
<1>3. CASE Repeated(mem, x)
    BY <1>3 DEF Apply
<1>4. CASE ~Repeated(mem, x)
    <2>1. m = [mem EXCEPT !.recoveries = mem.recoveries \cup {x}, !.recovered = x.release,
                          !.policy = [mem.policy EXCEPT ![x.release] = x.limit]]
        BY <1>1, <1>4 DEF Apply, Stores
    <2>2. [mem.policy EXCEPT ![x.release] = x.limit] \in [Releases -> Limits \cup {NoLimit}]
        BY <1>1 DEF Stores
    <2>3. mem.recoveries \cup {x} \in SUBSET [kind : {"recovery"}, id : Nat, release : Releases, limit : Limits]
        BY <1>2 DEF Stores
    <2> QED BY <1>1, <2>1, <2>2, <2>3 DEF Stores
<1> QED BY <1>3, <1>4

\* recordDecision settles.
LEMMA PersistKeeps ==
    ASSUME RInv, NEW e \in Ids, Persist(e)
    PROVE  RInv'
<1>1. PICK it : it = estimate[e]
    OBVIOUS
<1>2. it \in Estimates /\ Place(it) /\ it.phase = "persist"
    BY <1>1, EstimateFact DEF Persist
<1>3. CASE Throw(e) /\ UNCHANGED store
    BY <1>1, <1>2, <1>3, ThrowKeeps DEF Persist
<1>4. CASE store' = Apply(store, DecisionOfEstimate(e)) /\ Become(e, [phase |-> "recheck"])
    <2>1. PICK d : d = DecisionOfEstimate(e)
        OBVIOUS
    <2>2. d \in Decisions /\ d.kind = "decision" /\ d.id = e
        BY <1>1, <1>2, <2>1, DecisionFact
    <2>3. d \notin store.decisions
        BY <1>1, <1>2, <2>2 DEF RInv, DecisionsOK, Unfrozen
    <2>4. store \in Stores
        BY DEF RInv
    <2>5. PICK m : m = store'
        OBVIOUS
    <2>6. m = Apply(store, d)
        BY <1>4, <2>1, <2>5
    <2>7. /\ m \in Stores /\ m.decisions = store.decisions \cup {d} /\ m.outcomes = store.outcomes
          /\ m.recoveries = store.recoveries /\ m.rejected = store.rejected
        BY <2>2, <2>3, <2>4, <2>6, DecisionWritten
    <2>8. PICK k : k = Amend(it, [phase |-> "recheck"])
        OBVIOUS
    <2>9. /\ k \in Estimates /\ k.phase = "recheck" /\ k.options = it.options
          /\ k.snapshot = it.snapshot /\ k.selected = it.selected /\ k.status = it.status
          /\ k.attempt = it.attempt /\ k.observed = it.observed /\ k.observedAt = it.observedAt
        BY <1>2, <2>8 DEF Amend, Estimates, Phases
    <2>10. Place(k) /\ k.status # "simulation"
        BY <1>2, <2>9 DEF Place
    <2>11. estimate' = [estimate EXCEPT ![e] = k]
        BY <1>1, <1>4, <2>8 DEF Become
    <2>12. Grows /\ store' \in Stores /\ IsFiniteSet(store'.recoveries)
        <3>1. \A r \in Releases : store.rejected[r] >= store.rejected[r]
            BY <2>4, RejectedNumbers
        <3> QED BY <2>5, <2>7, <3>1 DEF Grows, RInv
    <2>13. ExcessIsRecordedFirst'
        BY <1>1, <2>9, <2>10, <2>11, <2>12, RecordedStays
    <2>14. /\ store'.decisions \subseteq store.decisions \cup {DecisionOfEstimate(e)}
           /\ store'.outcomes \ store.outcomes = {}
           /\ DecisionOfEstimate(e) \in store'.decisions
        BY <2>1, <2>5, <2>7
    <2>15. UNCHANGED <<live, now>>
        BY DEF Persist
    <2>16. /\ estimate[e].phase # "new" /\ k.phase \notin Unfrozen /\ k.snapshot = estimate[e].snapshot
           /\ k.options = estimate[e].options /\ k.selected = estimate[e].selected
        BY <1>1, <1>2, <2>9 DEF Unfrozen
    <2> QED BY <2>9, <2>10, <2>11, <2>12, <2>13, <2>14, <2>15, <2>16, WritesKeep
<1> QED BY <1>3, <1>4 DEF Persist

\* The decision under an outcome's id is the one its estimate froze.
LEMMA OutcomeFound ==
    ASSUME RInv, NEW e \in Ids, NEW o, o.id = e, NEW x \in store.decisions, x.id = e
    PROVE  /\ DecisionOf(store, o) = DecisionOfEstimate(e)
           /\ DecisionOfEstimate(e) \in store.decisions
<1>1. \A d \in store.decisions : d.id = e => d = DecisionOfEstimate(e)
    BY DEF RInv, DecisionsOK
<1>2. x = DecisionOfEstimate(e)
    BY <1>1
<1>3. DecisionOf(store, o) = CHOOSE d \in store.decisions : d.id = e
    BY DEF DecisionOf
<1>4. (CHOOSE d \in store.decisions : d.id = e) \in store.decisions
      /\ (CHOOSE d \in store.decisions : d.id = e).id = e
    OBVIOUS
<1> QED BY <1>1, <1>2, <1>3, <1>4

\* recordOutcome settles, and only then is the control answered.
LEMMA ReportKeeps ==
    ASSUME RInv, NEW e \in Ids, Report(e)
    PROVE  RInv'
<1>1. PICK it : it = estimate[e]
    OBVIOUS
<1>2. it \in Estimates /\ Place(it) /\ it.phase = "report" /\ it.selected /\ it.observed # "none"
    BY <1>1, EstimateFact DEF Report, Place
<1>3. CASE ~Accepts(store, NoLimit, OutcomeOf(e))
    BY <1>1, <1>2, <1>3, ThrowKeeps DEF Report
<1>4. CASE Accepts(store, NoLimit, OutcomeOf(e))
    <2>1. PICK o : o = OutcomeOf(e)
        OBVIOUS
    <2>2. PICK result : result = IF it.observed = "stale" THEN "failed" ELSE it.observed
        OBVIOUS
    <2>3. o = [kind |-> "outcome", id |-> e, slot |-> it.observedAt, result |-> result]
        BY <1>1, <2>1, <2>2 DEF OutcomeOf
    <2>4. /\ result \in Results /\ it.observedAt \in Slots \cup {NoSlot}
          /\ result # "failed" => it.observedAt \in Slots
        BY <1>2, <2>2 DEF Estimates, Observed, Place, Results
    <2>5. o \in OutcomeRecords /\ o.kind = "outcome" /\ o.id = e /\ o.result = result
          /\ o.slot = it.observedAt
        BY <2>3, <2>4, SlotNumbers DEF OutcomeRecords
    <2>6. PICK m : m = store'
        OBVIOUS
    <2>7. m = Apply(store, o)
        BY <1>4, <2>1, <2>6 DEF Report
    <2>8. store \in Stores /\ IsFiniteSet(store.recoveries)
        BY DEF RInv
    <2>9. PICK d : d = DecisionOfEstimate(e)
        OBVIOUS
    <2>10. d \in Decisions /\ d.release = it.snapshot.release /\ d.slot = it.options.slot
        BY <1>1, <1>2, <2>9, DecisionFact DEF DecisionOfEstimate
    <2>11. PICK r \in Releases : r = it.snapshot.release
        BY <1>1, EstimateFact
    <2>12. /\ m \in Stores /\ m.decisions = store.decisions /\ m.recoveries = store.recoveries
           /\ m.outcomes = store.outcomes \cup {o}
           /\ \A x \in Releases : m.rejected[x] >= store.rejected[x]
           /\ d \in m.decisions
           /\ Excess(result) => m.rejected[r] >= it.observedAt
        <3>1. CASE o \in store.outcomes
            <4>1. m = store
                BY <2>5, <2>7, <3>1 DEF Apply, Repeated, Held
            <4>2. d \in store.decisions /\ (Excess(result) => store.rejected[r] >= it.observedAt)
                BY <1>1, <2>5, <2>9, <2>11, <3>1 DEF RInv, OutcomesOK
            <4>3. \A x \in Releases : store.rejected[x] >= store.rejected[x]
                BY <2>8, RejectedNumbers
            <4>4. store.outcomes \cup {o} = store.outcomes
                BY <3>1
            <4> QED BY <2>8, <4>1, <4>2, <4>3, <4>4
        <3>2. CASE o \notin store.outcomes
            <4>1. ValidOutcome(store, o)
                BY <1>4, <2>1, <2>5, <3>2 DEF Accepts, Repeated, Held
            <4>2. PICK x \in store.decisions : x.id = e
                BY <2>5, <4>1 DEF ValidOutcome
            <4>3. DecisionOf(store, o) = d /\ d \in store.decisions
                BY <2>5, <2>9, <4>2, OutcomeFound
            <4>4. /\ m \in Stores /\ m.decisions = store.decisions /\ m.recoveries = store.recoveries
                  /\ m.outcomes = store.outcomes \cup {o}
                  /\ \A y \in Releases : m.rejected[y] >= store.rejected[y]
                  /\ Excess(o.result) => m.rejected[d.release] >= RejectedAt(d, o)
                BY <2>5, <2>7, <2>8, <2>10, <3>2, <4>3, OutcomeWritten
            <4>5. Excess(result) => RejectedAt(d, o) = it.observedAt
                BY <2>4, <2>5, SlotNumbers DEF RejectedAt, Excess
            <4> QED BY <2>5, <2>10, <2>11, <4>3, <4>4, <4>5
        <3> QED BY <3>1, <3>2
    <2>13. PICK status : status = IF Measured(it.observed) THEN "simulation" ELSE "unresolved"
        OBVIOUS
    <2>14. PICK k : k = Amend(it, [phase |-> "ended", status |-> status])
        OBVIOUS
    <2>15. /\ k \in Estimates /\ k.phase = "ended" /\ k.options = it.options
           /\ k.snapshot = it.snapshot /\ k.selected = it.selected /\ k.status = status
           /\ k.observed = it.observed /\ k.observedAt = it.observedAt
        BY <1>2, <2>13, <2>14 DEF Amend, Estimates, Phases, Statuses
    <2>16. Place(k)
        BY <1>2, <2>15 DEF Place
    <2>17. estimate' = [estimate EXCEPT ![e] = k]
        BY <1>1, <1>4, <2>13, <2>14 DEF Report, Become
    <2>18. Grows /\ store' \in Stores /\ IsFiniteSet(store'.recoveries)
        BY <2>6, <2>8, <2>12 DEF Grows
    <2>19. k.observed = "excess" => store'.rejected[k.snapshot.release] >= k.observedAt
        BY <2>2, <2>6, <2>11, <2>12, <2>15 DEF Excess
    <2>20. ExcessIsRecordedFirst'
        BY <1>1, <2>15, <2>17, <2>18, <2>19, RecordedStays
    <2>21. /\ store'.decisions \subseteq store.decisions \cup {DecisionOfEstimate(e)}
           /\ \A x \in store'.outcomes \ store.outcomes :
                  /\ x.id = e /\ DecisionOfEstimate(e) \in store'.decisions
                  /\ Excess(x.result) => store'.rejected[estimate[e].snapshot.release] >= x.slot
        BY <1>1, <2>5, <2>6, <2>9, <2>11, <2>12
    <2>22. UNCHANGED <<live, now>>
        BY DEF Report
    <2>23. /\ estimate[e].phase # "new" /\ k.phase \notin Unfrozen /\ k.snapshot = estimate[e].snapshot
           /\ k.options = estimate[e].options /\ k.selected = estimate[e].selected
           /\ k.phase # "recheck"
        BY <1>1, <1>2, <2>15 DEF Unfrozen
    <2> QED BY <2>15, <2>16, <2>17, <2>18, <2>20, <2>21, <2>22, <2>23, WritesKeep
<1> QED BY <1>3, <1>4

-----------------------------------------------------------------------------
(* The application, the operator and the clock.                            *)

\* No estimate moves, and the store keeps its decisions and rejections.
LEMMA OthersKeep ==
    ASSUME RInv, UNCHANGED estimate, live' \in Snapshots, now' \in 0..MaxTime,
           store' \in Stores, IsFiniteSet(store'.recoveries),
           store'.decisions = store.decisions, store'.outcomes = store.outcomes,
           store'.rejected = store.rejected
    PROVE  RInv'
<1>1. TypeOK'
    BY DEF RInv, TypeOK, Stores
<1>2. \A e \in Ids : Place(estimate'[e])
    BY DEF RInv
<1>3. DecisionsOK'
    BY DEF RInv, DecisionsOK, DecisionOfEstimate
<1>4. OutcomesOK'
    BY DEF RInv, OutcomesOK, DecisionOfEstimate
<1>5. FrozenOK'
    BY DEF RInv, FrozenOK, DecisionOfEstimate
<1>6. ExcessIsRecordedFirst'
    BY DEF RInv, ExcessIsRecordedFirst
<1> QED BY <1>1, <1>2, <1>3, <1>4, <1>5, <1>6 DEF RInv

LEMMA WorldKeeps ==
    ASSUME RInv, Refresh \/ Tick \/ (\E s \in Snapshots : Recover(s)) \/ UNCHANGED vars
    PROVE  RInv'
<1>1. store \in Stores /\ IsFiniteSet(store.recoveries) /\ live \in Snapshots /\ now \in 0..MaxTime
    BY DEF RInv, TypeOK
<1>2. CASE Refresh
    BY <1>1, <1>2, OthersKeep DEF Refresh
<1>3. CASE Tick
    <2>1. now + 1 \in 0..MaxTime
        BY <1>1, <1>3, RuntimeAssumption DEF Tick
    <2> QED BY <1>1, <1>3, <2>1, OthersKeep DEF Tick
<1>4. ASSUME NEW s \in Snapshots, Recover(s)
      PROVE  RInv'
    <2>1. PICK n : n = Cardinality(store.recoveries) + 1
        OBVIOUS
    <2>2. n \in Nat
        BY <1>1, <2>1, FS_CardinalityType
    <2>3. PICK r : r = [kind |-> "recovery", id |-> n, release |-> s.release, limit |-> s.limit]
        OBVIOUS
    <2>4. PICK m : m = store'
        OBVIOUS
    <2>5. m = Apply(store, r)
        BY <1>4, <2>1, <2>3, <2>4 DEF Recover
    <2>6. /\ m \in Stores /\ m.decisions = store.decisions /\ m.outcomes = store.outcomes
          /\ m.recoveries \subseteq store.recoveries \cup {r} /\ m.rejected = store.rejected
        BY <1>1, <2>2, <2>3, <2>5, RecoveryWritten
    <2>7. IsFiniteSet(m.recoveries)
        BY <1>1, <2>6, FS_AddElement, FS_Subset
    <2>8. UNCHANGED <<live, now, estimate>>
        BY <1>4 DEF Recover
    <2> QED BY <1>1, <2>4, <2>6, <2>7, <2>8, OthersKeep
<1>5. CASE UNCHANGED vars
    BY <1>1, <1>5, OthersKeep DEF vars
<1> QED BY <1>2, <1>3, <1>4, <1>5

-----------------------------------------------------------------------------

LEMMA StepKeeps ==
    ASSUME RInv, NEW e \in Ids, Step(e)
    PROVE  RInv'
<1>1. CASE Persist(e)
    BY <1>1, PersistKeeps
<1>2. CASE Recheck(e)
    BY <1>2, RecheckKeeps
<1>3. CASE Reply(e)
    <2>1. estimate[e].phase = "simulate"
        BY <1>3 DEF Reply
    <2>2. PICK at \in Slots : \/ Observe(e, "stale", at)
                              \/ \E observed \in Results : Observe(e, observed, at)
        BY <1>3 DEF Reply
    <2> QED BY <2>1, <2>2, ObserveKeeps DEF Results
<1>4. CASE Retry(e) \/ Resume(e)
    BY <1>4, RetriesKeep
<1>5. CASE GiveUp(e)
    BY <1>5, ObserveKeeps DEF GiveUp, Results
<1>6. CASE Cancel(e)
    BY <1>6, CancelKeeps
<1>7. CASE Report(e)
    BY <1>7, ReportKeeps
<1>8. CASE ReportFails(e)
    BY <1>8, ThrowKeeps DEF ReportFails
<1> QED BY <1>1, <1>2, <1>3, <1>4, <1>5, <1>6, <1>7, <1>8 DEF Step

LEMMA RInvInit == Init => RInv
<1> SUFFICES ASSUME Init
             PROVE  RInv
    OBVIOUS
<1>1. PICK s : s = CHOOSE x \in Snapshots : TRUE
    OBVIOUS
<1>2. s \in Snapshots
    BY <1>1 DEF Init
<1>3. Fresh = [phase |-> "new", options |-> NoOptions, snapshot |-> s, selected |-> FALSE,
               attempt |-> 0, observed |-> "none", observedAt |-> NoSlot, status |-> "none"]
    BY <1>1 DEF Fresh
<1>4. Fresh \in Estimates /\ Place(Fresh)
    BY <1>2, <1>3, RuntimeAssumption DEF Estimates, Place, Phases, Statuses, Observed, Results
<1>5. store \in Stores /\ store.decisions = {} /\ store.outcomes = {} /\ store.recoveries = {}
    BY DEF Init, EmptyMemory, Stores
<1>6. IsFiniteSet(store.recoveries)
    BY <1>5, FS_EmptySet
<1>7. TypeOK
    BY <1>4, <1>5, RuntimeAssumption DEF Init, TypeOK, Estimates, Stores
<1>8. \A e \in Ids : estimate[e] = Fresh
    BY DEF Init
<1>9. DecisionsOK /\ OutcomesOK
    BY <1>5 DEF DecisionsOK, OutcomesOK
<1>10. FrozenOK /\ ExcessIsRecordedFirst
    BY <1>3, <1>8 DEF FrozenOK, ExcessIsRecordedFirst
<1> QED BY <1>4, <1>5, <1>6, <1>7, <1>8, <1>9, <1>10 DEF RInv

LEMMA RInvHolds == Spec => []RInv
<1>1. RInv /\ [Next]_vars => RInv'
    BY StepKeeps, StartKeeps, WorldKeeps DEF Next
<1> QED BY <1>1, RInvInit, PTL DEF Spec

\* Types.
THEOREM TypeCorrect == Spec => []TypeOK
BY RInvHolds, PTL DEF RInv

\* recordOutcome before the answer: an application that acts on a simulated
\* excess finds the release quarantined, whatever its other estimates did.
THEOREM ExcessIsRecordedCorrect == Spec => []ExcessIsRecordedFirst
BY RInvHolds, PTL DEF RInv

-----------------------------------------------------------------------------
(* Predictions.                                                            *)

\* isQuarantined admits a release only with no rejection of its own.
LEMMA AdmittedIsUnrejected ==
    ASSUME RInv, NEW s \in Snapshots, ~Blocked(store, s.release)
    PROVE  store.rejected[s.release] = NoSlot
<1>1. s.release \in Releases
    BY SnapshotFact
<1> QED BY <1>1 DEF Blocked, Quarantined

\* So no excess in the store is its.
LEMMA AdmittedIsUnconvicted ==
    ASSUME RInv, NEW s \in Snapshots, ~Blocked(store, s.release)
    PROVE  ~Convicted(s.release)
<1> SUFFICES ASSUME NEW o \in store.outcomes, Excess(o.result),
                    DecisionOf(store, o).release = s.release
             PROVE  FALSE
    BY DEF Convicted
<1>1. o \in OutcomeRecords /\ o.id \in Ids
    BY DEF RInv, Stores, OutcomeRecords
<1>2. o.slot \in Slots
    BY <1>1 DEF OutcomeRecords, Excess
<1>3. DecisionOfEstimate(o.id) \in store.decisions
      /\ store.rejected[estimate[o.id].snapshot.release] >= o.slot
    BY DEF RInv, OutcomesOK
<1>4. DecisionOfEstimate(o.id).id = o.id
      /\ DecisionOfEstimate(o.id).release = estimate[o.id].snapshot.release
    BY DEF DecisionOfEstimate
<1>5. DecisionOf(store, o) = DecisionOfEstimate(o.id)
    BY <1>1, <1>3, <1>4, OutcomeFound
<1>6. store.rejected[s.release] >= o.slot
    BY <1>3, <1>4, <1>5
<1>7. store.rejected[s.release] = NoSlot
    BY AdmittedIsUnrejected
<1>8. o.slot \in Nat
    BY <1>2, SlotNumbers
<1>9. ~(NoSlot >= o.slot)
    BY <1>8 DEF NoSlot
<1> QED BY <1>6, <1>7, <1>9

\* Every other estimate than the one that moves stays as it is.
LEMMA BecomeMoves ==
    ASSUME RInv, NEW e \in Ids, NEW changes, Become(e, changes)
    PROVE  /\ estimate'[e] = Amend(estimate[e], changes)
           /\ \A x \in Ids : x # e => estimate'[x] = estimate[x]
BY DEF RInv, TypeOK, Become

\* The answers of every other step are those of simulations and errors.
LEMMA OthersPredictNothing ==
    ASSUME RInv, NEW e \in Ids,
           \/ \E o \in Requests : Start(e, o)
           \/ Persist(e) \/ Reply(e) \/ Retry(e) \/ Resume(e) \/ GiveUp(e) \/ Cancel(e)
           \/ Report(e) \/ ReportFails(e)
    PROVE  \A x \in Ids : estimate'[x].status = "prediction" => estimate[x].status = "prediction"
<1>1. PICK it : it = estimate[e]
    OBVIOUS
<1>2. it \in Estimates
    BY <1>1, EstimateFact
<1>3. ASSUME NEW changes, Become(e, changes),
             Amend(it, changes).status = "prediction" => it.status = "prediction"
      PROVE  \A x \in Ids : estimate'[x].status = "prediction" => estimate[x].status = "prediction"
    BY <1>1, <1>3, BecomeMoves
<1>4. ASSUME Throw(e)
      PROVE  \A x \in Ids : estimate'[x].status = "prediction" => estimate[x].status = "prediction"
    <2>1. Amend(it, [phase |-> "ended", status |-> "unresolved"]).status # "prediction"
        BY <1>2 DEF Amend, Estimates
    <2> QED BY <1>3, <1>4, <2>1 DEF Throw
<1>5. ASSUME NEW o \in Requests, Start(e, o)
      PROVE  \A x \in Ids : estimate'[x].status = "prediction" => estimate[x].status = "prediction"
    <2>1. PICK phase, selected, s :
              Become(e, [phase |-> phase, options |-> o, snapshot |-> s, selected |-> selected])
        BY <1>5 DEF Start
    <2>2. Amend(it, [phase |-> phase, options |-> o, snapshot |-> s, selected |-> selected]).status = it.status
        BY <1>2 DEF Amend, Estimates
    <2> QED BY <1>3, <2>1, <2>2
<1>6. CASE Persist(e)
    <2>1. Amend(it, [phase |-> "recheck"]).status = it.status
        BY <1>2 DEF Amend, Estimates
    <2> QED BY <1>3, <1>4, <1>6, <2>1 DEF Persist
<1>7. ASSUME NEW observed, NEW at, Observe(e, observed, at)
      PROVE  \A x \in Ids : estimate'[x].status = "prediction" => estimate[x].status = "prediction"
    <2>1. PICK n, phase, status :
              /\ Become(e, [attempt |-> n, observed |-> observed, observedAt |-> at,
                            phase |-> phase, status |-> status])
              /\ status \in {"none", "simulation", "unresolved"}
        BY <1>7 DEF Observe
    <2>2. Amend(it, [attempt |-> n, observed |-> observed, observedAt |-> at,
                     phase |-> phase, status |-> status]).status = status
        BY <1>2 DEF Amend, Estimates
    <2> QED BY <1>3, <2>1, <2>2
<1>8. CASE Reply(e) \/ GiveUp(e)
    BY <1>7, <1>8 DEF Reply, GiveUp
<1>9. CASE Retry(e)
    <2>1. Amend(it, [attempt |-> estimate[e].attempt + 1, phase |-> "backoff"]).status = it.status
        BY <1>2 DEF Amend, Estimates
    <2> QED BY <1>3, <1>9, <2>1 DEF Retry
<1>10. CASE Resume(e)
    <2>1. Amend(it, [phase |-> "simulate"]).status = it.status
        BY <1>2 DEF Amend, Estimates
    <2> QED BY <1>3, <1>10, <2>1 DEF Resume
<1>11. CASE Cancel(e)
    <2>1. PICK phase, status :
              /\ Become(e, [phase |-> phase, observed |-> "failed", status |-> status])
              /\ status \in {"none", "unresolved"}
        BY <1>11 DEF Cancel
    <2>2. Amend(it, [phase |-> phase, observed |-> "failed", status |-> status]).status = status
        BY <1>2 DEF Amend, Estimates
    <2> QED BY <1>3, <2>1, <2>2
<1>12. CASE Report(e)
    <2>1. \/ Throw(e)
          \/ \E status \in {"simulation", "unresolved"} : Become(e, [phase |-> "ended", status |-> status])
        BY <1>12 DEF Report
    <2>2. \A status : Amend(it, [phase |-> "ended", status |-> status]).status = status
        BY <1>2 DEF Amend, Estimates
    <2> QED BY <1>3, <1>4, <2>1, <2>2
<1>13. CASE ReportFails(e)
    BY <1>4, <1>13 DEF ReportFails
<1> QED BY <1>5, <1>6, <1>8, <1>9, <1>10, <1>11, <1>12, <1>13

\* estimateResources (575-583): a prediction is an answer of the release the
\* application holds, fresh by its clock, found at fault by no control, and
\* of a decision that is in the store.
LEMMA RecheckPredicts ==
    ASSUME RInv, NEW x \in Ids, Recheck(x), NEW e \in Ids,
           estimate'[e].status = "prediction", estimate[e].status # "prediction"
    PROVE  LET s == estimate'[e].snapshot
           IN  /\ live' = s
               /\ now' - s.exported \in 0..MaxAge
               /\ ~Convicted(s.release)
               /\ DecisionOfEstimate(e) \in store.decisions
               /\ ~estimate[e].selected
<1>1. PICK it : it = estimate[x]
    OBVIOUS
<1>2. it \in Estimates /\ it.phase = "recheck" /\ it.snapshot \in Snapshots
    BY <1>1, EstimateFact DEF Recheck
<1>3. CASE ~Answers(it)
    <2>1. Amend(it, [phase |-> "simulate"]).status = it.status
        BY <1>2 DEF Amend, Estimates
    <2>2. Become(x, [phase |-> "simulate"])
        BY <1>1, <1>3 DEF Recheck
    <2> QED BY <1>1, <2>1, <2>2, BecomeMoves
<1>4. CASE Answers(it)
    <2>1. Become(x, [phase |-> "ended", status |-> "prediction"])
        BY <1>1, <1>4 DEF Recheck
    <2>2. e = x
        BY <2>1, BecomeMoves
    <2>3. Amend(it, [phase |-> "ended", status |-> "prediction"]).snapshot = it.snapshot
        BY <1>2 DEF Amend, Estimates
    <2>4. estimate'[e].snapshot = it.snapshot
        BY <1>1, <2>1, <2>2, <2>3, BecomeMoves
    <2>5. live = it.snapshot /\ ~Risk(it.snapshot, it.options.slot)
          /\ ~Blocked(store, it.snapshot.release) /\ ~it.selected
        BY <1>4 DEF Answers, StillSafe
    <2>6. now - it.snapshot.exported \in 0..MaxAge
        <3>1. now \in Int /\ it.snapshot.exported \in Int
            BY <1>2, SnapshotFact DEF RInv, TypeOK
        <3> QED BY <2>5, <3>1, RuntimeAssumption DEF Risk
    <2>7. ~Convicted(it.snapshot.release)
        BY <1>2, <2>5, AdmittedIsUnconvicted
    <2>8. DecisionOfEstimate(e) \in store.decisions
        BY <1>1, <1>2, <2>2 DEF RInv, FrozenOK
    <2>9. UNCHANGED <<live, now>>
        BY DEF Recheck
    <2> QED BY <1>1, <2>2, <2>4, <2>5, <2>6, <2>7, <2>8, <2>9
<1> QED BY <1>3, <1>4

\* estimateResources (575-583): the answer of a prediction, across the await
\* of recordDecision.
THEOREM PredictionsCorrect == Spec => PredictionsAreCurrent
<1> DEFINE Current == \A e \in Ids :
               estimate'[e].status = "prediction" /\ estimate[e].status # "prediction" =>
                   LET s == estimate'[e].snapshot
                   IN  /\ live' = s
                       /\ now' - s.exported \in 0..MaxAge
                       /\ ~Convicted(s.release)
                       /\ DecisionOfEstimate(e) \in store.decisions
                       /\ ~estimate[e].selected
<1>1. RInv /\ [Next]_vars => [Current]_vars
    <2> SUFFICES ASSUME RInv, Next
                 PROVE  Current
        OBVIOUS
    <2>1. CASE \E x \in Ids : Recheck(x)
        BY <2>1, RecheckPredicts
    <2>2. CASE \E x \in Ids : \/ \E o \in Requests : Start(x, o)
                              \/ Persist(x) \/ Reply(x) \/ Retry(x) \/ Resume(x) \/ GiveUp(x)
                              \/ Cancel(x) \/ Report(x) \/ ReportFails(x)
        BY <2>2, OthersPredictNothing
    <2>3. CASE UNCHANGED estimate
        BY <2>3
    <2> QED BY <2>1, <2>2, <2>3 DEF Next, Step, Refresh, Tick, Recover
<1> QED BY <1>1, RInvHolds, PTL DEF Spec, PredictionsAreCurrent

-----------------------------------------------------------------------------
(* The store of the estimates implements ControlGate: estimates that run   *)
(* concurrently, fail, are cancelled or report late blame a release or     *)
(* leave the gate alone, and only an operator opens it again.              *)

Admitted(mem) == {r \in Releases : ~Blocked(mem, r)}

Gate == INSTANCE ControlGate WITH admitted <- Admitted(store), blamed <- Quarantined(store)

\* The gate is read off two maps of the store.
LEMMA GateStays ==
    ASSUME NEW mem, NEW m, m.rejected = mem.rejected, m.recovered = mem.recovered
    PROVE  Admitted(m) = Admitted(mem) /\ Quarantined(m) = Quarantined(mem)
<1>1. Quarantined(m) = Quarantined(mem)
    BY DEF Quarantined
<1>2. \A r : Blocked(m, r) <=> Blocked(mem, r)
    BY <1>1 DEF Blocked
<1> QED BY <1>1, <1>2 DEF Admitted

\* A decision moves neither.
LEMMA DecisionPasses ==
    ASSUME NEW mem \in Stores, NEW d, d.kind = "decision", NEW m, m = Apply(mem, d)
    PROVE  m.rejected = mem.rejected /\ m.recovered = mem.recovered
<1>1. CASE Repeated(mem, d)
    BY <1>1 DEF Apply
<1>2. CASE ~Repeated(mem, d)
    <2>1. m = [mem EXCEPT !.decisions = mem.decisions \cup {d},
                          !.policy = [mem.policy EXCEPT ![d.release] = d.limit]]
        BY <1>2 DEF Apply, Stores
    <2> QED BY <2>1 DEF Stores
<1> QED BY <1>1, <1>2

\* An outcome leaves the gate, or rejects the release of its decision and
\* closes the gate for all of them.
LEMMA OutcomeBlames ==
    ASSUME NEW mem \in Stores, NEW o, o.kind = "outcome", o.slot \in Slots \cup {NoSlot},
           NEW d \in Decisions, d = DecisionOf(mem, o), NEW m, m = Apply(mem, o)
    PROVE  \/ m.rejected = mem.rejected /\ m.recovered = mem.recovered
           \/ /\ Quarantined(m) = Quarantined(mem) \cup {d.release}
              /\ m.recovered = NoRelease
<1>1. PICK r, at : r = d.release /\ at = RejectedAt(d, o)
    OBVIOUS
<1>2. PICK n : n = IF Measured(o.result) THEN 0 ELSE mem.streak[r] + 1
    OBVIOUS
<1>3. r \in Releases /\ at \in Slots /\ at # NoSlot
    <2>1. r \in Releases /\ d.slot \in Slots
        BY <1>1 DEF Decisions
    <2> QED BY <1>1, <2>1, SlotNumbers DEF RejectedAt
<1>4. CASE Repeated(mem, o)
    BY <1>4 DEF Apply
<1>5. CASE ~Repeated(mem, o)
    <2>1. PICK noted : noted = [mem EXCEPT !.outcomes = mem.outcomes \cup {o},
                                           !.streak = [mem.streak EXCEPT ![r] = n]]
        OBVIOUS
    <2>2. noted.rejected = mem.rejected /\ noted.recovered = mem.recovered
        BY <2>1 DEF Stores
    <2>3. m = IF Excess(o.result) \/ n >= d.limit
              THEN [noted EXCEPT !.rejected[r] = IF @ > at THEN @ ELSE at, !.recovered = NoRelease]
              ELSE noted
        <3>1. m = ApplyOutcome(mem, o)
            BY <1>5 DEF Apply
        <3> QED BY <1>1, <1>2, <2>1, <3>1 DEF ApplyOutcome, Stores
    <2>4. CASE ~(Excess(o.result) \/ n >= d.limit)
        BY <2>2, <2>3, <2>4
    <2>5. CASE Excess(o.result) \/ n >= d.limit
        <3>1. PICK top : top = IF mem.rejected[r] > at THEN mem.rejected[r] ELSE at
            OBVIOUS
        <3>2. PICK rejected : rejected = [mem.rejected EXCEPT ![r] = top]
            OBVIOUS
        <3>3. m = [noted EXCEPT !.rejected = rejected, !.recovered = NoRelease]
            BY <2>2, <2>3, <2>5, <3>1, <3>2
        <3>4. m.rejected = rejected /\ m.recovered = NoRelease
            BY <2>1, <3>3 DEF Stores
        <3>5. top # NoSlot
            <4>1. mem.rejected[r] \in Int /\ at \in Nat
                BY <1>3, RejectedNumbers, SlotNumbers
            <4> QED BY <3>1, <4>1 DEF NoSlot
        <3>6. rejected[r] = top /\ \A x \in Releases : x # r => rejected[x] = mem.rejected[x]
            BY <1>3, <3>2 DEF Stores
        <3>7. Quarantined(m) = Quarantined(mem) \cup {r}
            BY <1>3, <3>4, <3>5, <3>6 DEF Quarantined
        <3> QED BY <1>1, <3>4, <3>7
    <2> QED BY <2>4, <2>5
<1> QED BY <1>4, <1>5

\* A recovery is of a release nobody has blamed, and admits it alone.
LEMMA RecoveryOpens ==
    ASSUME NEW mem \in Stores, NEW x, x.kind = "recovery", x.release \in Releases,
           Accepts(mem, NoLimit, x), NEW m, m = Apply(mem, x)
    PROVE  \/ m = mem
           \/ /\ Quarantined(mem) # {} /\ x.release \notin Quarantined(mem)
              /\ m.rejected = mem.rejected /\ m.recovered = x.release
<1>1. CASE Repeated(mem, x)
    BY <1>1 DEF Apply
<1>2. CASE ~Repeated(mem, x)
    <2>1. ValidRecovery(mem, x)
        BY <1>2 DEF Accepts
    <2>2. x.release.revision \in Nat
        BY RecordsAssumption
    <2>3. Quarantined(mem) # {} /\ x.release \notin Quarantined(mem)
        BY <2>1, <2>2 DEF ValidRecovery
    <2>4. m = [mem EXCEPT !.recoveries = mem.recoveries \cup {x}, !.recovered = x.release,
                          !.policy = [mem.policy EXCEPT ![x.release] = x.limit]]
        BY <1>2 DEF Apply, Stores
    <2> QED BY <2>3, <2>4 DEF Stores
<1> QED BY <1>1, <1>2

\* What the two moves are at the gate.
LEMMA BlameCloses ==
    ASSUME NEW m, NEW r \in Releases, r \in Quarantined(m), m.recovered = NoRelease
    PROVE  Admitted(m) = {}
BY RecordsAssumption DEF Admitted, Blocked

LEMMA RecoveryAdmits ==
    ASSUME NEW mem, NEW m, NEW r \in Releases, Quarantined(mem) # {}, r \notin Quarantined(mem),
           m.rejected = mem.rejected, m.recovered = r
    PROVE  Quarantined(m) = Quarantined(mem) /\ Admitted(m) = {r}
<1>1. Quarantined(m) = Quarantined(mem)
    BY DEF Quarantined
<1>2. m.rejected[r] = NoSlot
    BY DEF Quarantined
<1> QED BY <1>1, <1>2 DEF Admitted, Blocked

\* Who moves the gate: a report, an operator, nobody else.
LEMMA ReportAtGate ==
    ASSUME RInv, NEW e \in Ids, Accepts(store, NoLimit, OutcomeOf(e)), store' = Apply(store, OutcomeOf(e))
    PROVE  [Gate!Next]_(Gate!vars)
<1>1. PICK o, mem, m : o = OutcomeOf(e) /\ mem = store /\ m = store'
    OBVIOUS
<1>2. o.kind = "outcome" /\ o.id = e /\ o.slot \in Slots \cup {NoSlot}
    BY <1>1, EstimateFact DEF OutcomeOf, Estimates
<1>3. mem \in Stores /\ m = Apply(mem, o) /\ Accepts(mem, NoLimit, o)
    BY <1>1 DEF RInv
<1>4. CASE Repeated(mem, o)
    <2>1. m = mem
        BY <1>3, <1>4 DEF Apply
    <2> QED BY <1>1, <2>1 DEF Gate!vars
<1>5. CASE ~Repeated(mem, o)
    <2>1. PICK x \in mem.decisions : x.id = e
        BY <1>2, <1>3, <1>5 DEF Accepts, ValidOutcome
    <2>2. PICK d : d = DecisionOf(mem, o)
        OBVIOUS
    <2>3. d \in mem.decisions
        BY <1>1, <1>2, <2>1, <2>2, OutcomeFound
    <2>4. d \in Decisions /\ d.release \in Releases
        BY <1>3, <2>3 DEF Stores, Decisions
    <2>5. CASE m.rejected = mem.rejected /\ m.recovered = mem.recovered
        <3>1. Admitted(m) = Admitted(mem) /\ Quarantined(m) = Quarantined(mem)
            BY <2>5, GateStays
        <3> QED BY <1>1, <3>1 DEF Gate!vars
    <2>6. CASE Quarantined(m) = Quarantined(mem) \cup {d.release} /\ m.recovered = NoRelease
        <3>1. Admitted(m) = {}
            BY <2>4, <2>6, BlameCloses
        <3>2. Gate!Blame(d.release)
            BY <1>1, <2>6, <3>1 DEF Gate!Blame
        <3> QED BY <2>4, <3>2 DEF Gate!Next
    <2> QED BY <1>2, <1>3, <2>2, <2>4, <2>5, <2>6, OutcomeBlames
<1> QED BY <1>4, <1>5

LEMMA RecoverAtGate ==
    ASSUME RInv, NEW s \in Snapshots, Recover(s)
    PROVE  [Gate!Next]_(Gate!vars)
<1>1. PICK x, mem, m : /\ x = [kind |-> "recovery", id |-> Cardinality(store.recoveries) + 1,
                               release |-> s.release, limit |-> s.limit]
                       /\ mem = store /\ m = store'
    OBVIOUS
<1>2. x.kind = "recovery" /\ x.release = s.release /\ s.release \in Releases
    BY <1>1, SnapshotFact
<1>3. mem \in Stores /\ m = Apply(mem, x) /\ Accepts(mem, NoLimit, x)
    BY <1>1 DEF RInv, Recover
<1>4. CASE m = mem
    BY <1>1, <1>4 DEF Gate!vars
<1>5. CASE /\ Quarantined(mem) # {} /\ x.release \notin Quarantined(mem)
           /\ m.rejected = mem.rejected /\ m.recovered = x.release
    <2>1. Quarantined(m) = Quarantined(mem) /\ Admitted(m) = {x.release}
        BY <1>2, <1>5, RecoveryAdmits
    <2>2. Gate!Recover(x.release)
        BY <1>1, <1>5, <2>1 DEF Gate!Recover
    <2> QED BY <1>2, <2>2 DEF Gate!Next
<1> QED BY <1>2, <1>3, <1>4, <1>5, RecoveryOpens

LEMMA StepsAtGate ==
    ASSUME RInv, [Next]_vars
    PROVE  [Gate!Next]_(Gate!vars)
<1>1. CASE UNCHANGED store
    BY <1>1 DEF Gate!vars
<1>2. ASSUME NEW e \in Ids, Persist(e), store' = Apply(store, DecisionOfEstimate(e))
      PROVE  [Gate!Next]_(Gate!vars)
    <2>1. PICK d, mem, m : d = DecisionOfEstimate(e) /\ mem = store /\ m = store'
        OBVIOUS
    <2>2. d.kind = "decision" /\ mem \in Stores /\ m = Apply(mem, d)
        BY <1>2, <2>1 DEF DecisionOfEstimate, RInv
    <2>3. m.rejected = mem.rejected /\ m.recovered = mem.recovered
        BY <2>2, DecisionPasses
    <2>4. Admitted(m) = Admitted(mem) /\ Quarantined(m) = Quarantined(mem)
        BY <2>3, GateStays
    <2> QED BY <2>1, <2>4 DEF Gate!vars
<1>3. ASSUME NEW e \in Ids, Report(e)
      PROVE  [Gate!Next]_(Gate!vars)
    BY <1>1, <1>3, ReportAtGate DEF Report
<1>4. ASSUME NEW e \in Ids, Step(e)
      PROVE  [Gate!Next]_(Gate!vars)
    <2>1. CASE Persist(e)
        BY <1>1, <1>2, <2>1 DEF Persist
    <2>2. CASE Report(e)
        BY <1>3, <2>2
    <2>3. CASE Recheck(e) \/ Reply(e) \/ Retry(e) \/ Resume(e) \/ GiveUp(e) \/ Cancel(e) \/ ReportFails(e)
        BY <1>1, <2>3 DEF Recheck, Reply, Observe, Retry, Resume, GiveUp, Cancel, ReportFails
    <2> QED BY <1>4, <2>1, <2>2, <2>3 DEF Step
<1>5. CASE (\E e \in Ids : \E o \in Requests : Start(e, o)) \/ Refresh \/ Tick \/ UNCHANGED vars
    BY <1>1, <1>5 DEF Start, Refresh, Tick, vars
<1> QED BY <1>4, <1>5, RecoverAtGate DEF Next

\* ControlGate of the store in memory (isQuarantined), for any number of
\* concurrent estimates: once a control has convicted a release no release is
\* admitted, until an operator recovers one that was never convicted, and then
\* that one alone.
THEOREM RuntimeImplementsGate == Spec => Gate!Spec
<1>1. Init => Gate!Init
    <2> SUFFICES ASSUME Init PROVE Gate!Init
        OBVIOUS
    <2>1. \A r \in Releases : store.rejected[r] = NoSlot
        BY DEF Init, EmptyMemory
    <2>2. Quarantined(store) = {}
        BY <2>1 DEF Quarantined
    <2> QED BY <2>2 DEF Gate!Init, Admitted, Blocked
<1>2. RInv /\ [Next]_vars => [Gate!Next]_(Gate!vars)
    BY StepsAtGate
<1> QED BY <1>1, <1>2, RInvHolds, PTL DEF Spec, Gate!Spec

-----------------------------------------------------------------------------
(* No estimate goes round for ever.                                        *)

\* The steps an estimate may still take: an attempt costs a step and a delay.
StepsLeft(it) ==
    CASE it.phase = "new"      -> 2 * MaxAttempts + 3
      [] it.phase = "persist"  -> 2 * MaxAttempts + 2
      [] it.phase = "recheck"  -> 2 * MaxAttempts + 1
      [] it.phase = "simulate" -> 2 * (MaxAttempts - it.attempt)
      [] it.phase = "backoff"  -> 2 * (MaxAttempts - it.attempt) + 1
      [] it.phase = "report"   -> 1
      [] OTHER                 -> 0

LEMMA StepsFact ==
    ASSUME RInv, NEW e \in Ids
    PROVE  /\ StepsLeft(estimate[e]) \in Nat
           /\ estimate[e].phase \in {"new", "persist", "recheck", "simulate", "backoff", "report", "ended"}
           /\ estimate[e].attempt \in Nat /\ MaxAttempts \in Nat
           /\ estimate[e].phase \notin {"report", "ended"} => estimate[e].attempt < MaxAttempts
<1>1. PICK it : it = estimate[e]
    OBVIOUS
<1>2. it \in Estimates /\ Place(it)
    BY <1>1, EstimateFact
<1>3. /\ it.phase \in {"new", "persist", "recheck", "simulate", "backoff", "report", "ended"}
      /\ it.attempt \in Nat /\ MaxAttempts \in Nat
      /\ it.phase \notin {"report", "ended"} => it.attempt < MaxAttempts
    BY <1>2, RuntimeAssumption DEF Estimates, Phases, Place
<1>4. StepsLeft(it) \in Nat
    BY <1>3 DEF StepsLeft
<1> QED BY <1>1, <1>3, <1>4

\* What a step does to the phase and the attempts of an estimate.
LEMMA PhaseAfter ==
    ASSUME RInv, NEW e \in Ids, NEW changes, Become(e, changes), NEW k, k = estimate'[e]
    PROVE  /\ "phase" \in DOMAIN changes => k.phase = changes.phase
           /\ "attempt" \in DOMAIN changes => k.attempt = changes.attempt
           /\ "attempt" \notin DOMAIN changes => k.attempt = estimate[e].attempt
           /\ \A x \in Ids \ {e} : estimate'[x] = estimate[x]
<1>1. PICK it : it = estimate[e]
    OBVIOUS
<1>2. it \in Estimates
    BY <1>1, EstimateFact
<1>3. k = Amend(it, changes) /\ \A x \in Ids \ {e} : estimate'[x] = estimate[x]
    BY <1>1, BecomeMoves
<1>4. {"phase", "attempt"} \subseteq DOMAIN it
    BY <1>2 DEF Estimates
<1>5. /\ "phase" \in DOMAIN changes => k.phase = changes.phase
      /\ "attempt" \in DOMAIN changes => k.attempt = changes.attempt
      /\ "attempt" \notin DOMAIN changes => k.attempt = it.attempt
    BY <1>3, <1>4 DEF Amend
<1> QED BY <1>1, <1>3, <1>5

\* One step of an estimate, whichever it is.
OneFurther(e) == /\ StepsLeft(estimate'[e]) < StepsLeft(estimate[e])
                 /\ \A x \in Ids \ {e} : estimate'[x] = estimate[x]

LEMMA ThrowAdvances ==
    ASSUME RInv, NEW e \in Ids, Throw(e), estimate[e].phase \in {"persist", "report"}
    PROVE  OneFurther(e)
<1>1. PICK k : k = estimate'[e]
    OBVIOUS
<1>2. k.phase = "ended" /\ \A x \in Ids \ {e} : estimate'[x] = estimate[x]
    BY <1>1, PhaseAfter DEF Throw
<1>3. StepsLeft(k) = 0 /\ StepsLeft(estimate[e]) > 0
    BY <1>2, StepsFact DEF StepsLeft
<1> QED BY <1>1, <1>2, <1>3 DEF OneFurther

LEMMA StartAdvances ==
    ASSUME RInv, NEW e \in Ids, NEW o \in Requests, Start(e, o)
    PROVE  OneFurther(e)
<1>1. PICK k : k = estimate'[e]
    OBVIOUS
<1>2. PICK changes :
          /\ Become(e, changes)
          /\ changes.phase \in {"persist", "simulate"}
          /\ DOMAIN changes = {"phase", "options", "snapshot", "selected"}
    <2> DEFINE eligible == ~Risk(live, o.slot) /\ ~Blocked(store, live.release) /\ ~o.forced
               made == [phase |-> IF eligible THEN "persist" ELSE "simulate",
                        options |-> o, snapshot |-> live, selected |-> eligible /\ o.drawn]
    <2>1. Become(e, made)
        BY DEF Start
    <2>2. /\ made.phase \in {"persist", "simulate"}
          /\ DOMAIN made = {"phase", "options", "snapshot", "selected"}
        OBVIOUS
    <2> HIDE DEF made
    <2> QED BY <2>1, <2>2
<1>3. /\ k.phase \in {"persist", "simulate"} /\ k.attempt = estimate[e].attempt
      /\ \A x \in Ids \ {e} : estimate'[x] = estimate[x]
    BY <1>1, <1>2, PhaseAfter
<1>4. estimate[e].phase = "new"
    BY DEF Start
<1>5. StepsLeft(k) < StepsLeft(estimate[e])
    BY <1>3, <1>4, StepsFact DEF StepsLeft
<1> QED BY <1>1, <1>3, <1>5 DEF OneFurther

LEMMA ObserveAdvances ==
    ASSUME RInv, NEW e \in Ids, NEW observed, NEW at, Observe(e, observed, at),
           estimate[e].phase = "simulate"
    PROVE  OneFurther(e)
<1>1. PICK k : k = estimate'[e]
    OBVIOUS
<1>2. PICK changes :
          /\ Become(e, changes)
          /\ changes.phase \in {"report", "ended"} /\ "phase" \in DOMAIN changes
    <2> DEFINE it == estimate[e]
               made == [attempt |-> it.attempt + 1, observed |-> observed, observedAt |-> at,
                        phase |-> IF it.selected THEN "report" ELSE "ended",
                        status |-> IF it.selected THEN "none"
                                   ELSE IF Measured(observed) THEN "simulation" ELSE "unresolved"]
    <2>1. Become(e, made)
        BY DEF Observe
    <2>2. made.phase \in {"report", "ended"} /\ "phase" \in DOMAIN made
        OBVIOUS
    <2> HIDE DEF made
    <2> QED BY <2>1, <2>2
<1>3. k.phase \in {"report", "ended"} /\ \A x \in Ids \ {e} : estimate'[x] = estimate[x]
    BY <1>1, <1>2, PhaseAfter
<1>4. StepsLeft(estimate[e]) > 1
    BY StepsFact DEF StepsLeft
<1>5. StepsLeft(k) <= 1 /\ StepsLeft(k) \in Int
    BY <1>3 DEF StepsLeft
<1>6. StepsLeft(k) < StepsLeft(estimate[e])
    BY <1>4, <1>5, StepsFact
<1> QED BY <1>1, <1>3, <1>6 DEF OneFurther

LEMMA StepAdvances ==
    ASSUME RInv, NEW e \in Ids, Step(e)
    PROVE  OneFurther(e)
<1>1. PICK k : k = estimate'[e]
    OBVIOUS
<1>2. ASSUME NEW phase, Become(e, [phase |-> phase]),
             \/ estimate[e].phase = "persist" /\ phase = "recheck"
             \/ estimate[e].phase = "recheck" /\ phase = "simulate"
             \/ estimate[e].phase = "backoff" /\ phase = "simulate"
      PROVE  OneFurther(e)
    <2>1. /\ k.phase = phase /\ k.attempt = estimate[e].attempt
          /\ \A x \in Ids \ {e} : estimate'[x] = estimate[x]
        BY <1>1, <1>2, PhaseAfter
    <2>2. StepsLeft(k) < StepsLeft(estimate[e])
        BY <1>2, <2>1, StepsFact DEF StepsLeft
    <2> QED BY <1>1, <2>1, <2>2 DEF OneFurther
<1>3. ASSUME NEW phase, NEW status, phase \in {"report", "ended"}, estimate[e].phase = "backoff",
             Become(e, [phase |-> phase, observed |-> "failed", status |-> status])
      PROVE  OneFurther(e)
    <2>1. k.phase = phase /\ \A x \in Ids \ {e} : estimate'[x] = estimate[x]
        BY <1>1, <1>3, PhaseAfter
    <2>2. StepsLeft(k) < StepsLeft(estimate[e])
        BY <1>3, <2>1, StepsFact DEF StepsLeft
    <2> QED BY <1>1, <2>1, <2>2 DEF OneFurther
<1>4. ASSUME NEW status, estimate[e].phase \in {"recheck", "report"},
             Become(e, [phase |-> "ended", status |-> status])
      PROVE  OneFurther(e)
    <2>1. k.phase = "ended" /\ \A x \in Ids \ {e} : estimate'[x] = estimate[x]
        BY <1>1, <1>4, PhaseAfter
    <2>2. StepsLeft(k) < StepsLeft(estimate[e])
        BY <1>4, <2>1, StepsFact DEF StepsLeft
    <2> QED BY <1>1, <2>1, <2>2 DEF OneFurther
<1>5. CASE Persist(e)
    BY <1>2, <1>5, ThrowAdvances DEF Persist
<1>6. CASE Recheck(e)
    BY <1>2, <1>4, <1>6 DEF Recheck
<1>7. CASE Reply(e) \/ GiveUp(e)
    BY <1>7, ObserveAdvances DEF Reply, GiveUp
<1>8. CASE Retry(e)
    <2>1. Become(e, [attempt |-> estimate[e].attempt + 1, phase |-> "backoff"])
          /\ estimate[e].phase = "simulate"
        BY <1>8 DEF Retry
    <2>2. /\ k.phase = "backoff" /\ k.attempt = estimate[e].attempt + 1
          /\ \A x \in Ids \ {e} : estimate'[x] = estimate[x]
        BY <1>1, <2>1, PhaseAfter
    <2>3. StepsLeft(k) < StepsLeft(estimate[e])
        BY <2>1, <2>2, StepsFact DEF StepsLeft
    <2> QED BY <1>1, <2>2, <2>3 DEF OneFurther
<1>9. CASE Resume(e)
    BY <1>2, <1>9 DEF Resume
<1>10. CASE Cancel(e)
    BY <1>3, <1>10 DEF Cancel
<1>11. CASE Report(e)
    BY <1>4, <1>11, ThrowAdvances DEF Report
<1>12. CASE ReportFails(e)
    BY <1>12, ThrowAdvances DEF ReportFails
<1> QED BY <1>5, <1>6, <1>7, <1>8, <1>9, <1>10, <1>11, <1>12 DEF Step

\* The safety half of EstimatesEnd: whatever the store, the node and the other
\* estimates do, an estimate never goes back, and each of its steps uses up one
\* of at most 2 * MaxAttempts + 3 (the loop of simulate, and no step without it).
EstimatesAdvance ==
    [][\A e \in Ids : /\ StepsLeft(estimate[e]) \in 0..(2 * MaxAttempts + 3)
                      /\ Step(e) \/ estimate'[e] # estimate[e] =>
                             StepsLeft(estimate'[e]) < StepsLeft(estimate[e])]_vars

THEOREM EstimatesAdvanceCorrect == Spec => EstimatesAdvance
<1> DEFINE Advance == \A e \in Ids : /\ StepsLeft(estimate[e]) \in 0..(2 * MaxAttempts + 3)
                                     /\ Step(e) \/ estimate'[e] # estimate[e] =>
                                            StepsLeft(estimate'[e]) < StepsLeft(estimate[e])
<1>1. RInv /\ [Next]_vars => [Advance]_vars
    <2> SUFFICES ASSUME RInv, Next, NEW e \in Ids
                 PROVE  /\ StepsLeft(estimate[e]) \in 0..(2 * MaxAttempts + 3)
                        /\ Step(e) \/ estimate'[e] # estimate[e] =>
                               StepsLeft(estimate'[e]) < StepsLeft(estimate[e])
        OBVIOUS
    <2>1. StepsLeft(estimate[e]) \in 0..(2 * MaxAttempts + 3)
        BY StepsFact DEF StepsLeft
    <2>2. ASSUME Step(e)
          PROVE  StepsLeft(estimate'[e]) < StepsLeft(estimate[e])
        <3>1. OneFurther(e)
            BY <2>2, StepAdvances
        <3> QED BY <3>1 DEF OneFurther
    <2>3. ASSUME estimate'[e] # estimate[e]
          PROVE  StepsLeft(estimate'[e]) < StepsLeft(estimate[e])
        <3>1. CASE Refresh \/ Tick \/ (\E s \in Snapshots : Recover(s))
            BY <2>3, <3>1 DEF Refresh, Tick, Recover
        <3>2. ASSUME NEW x \in Ids, Step(x) \/ \E o \in Requests : Start(x, o)
              PROVE  StepsLeft(estimate'[e]) < StepsLeft(estimate[e])
            <4>1. OneFurther(x)
                BY <3>2, StepAdvances, StartAdvances
            <4>2. x = e
                BY <2>3, <4>1 DEF OneFurther
            <4> QED BY <4>1, <4>2 DEF OneFurther
        <3> QED BY <3>1, <3>2 DEF Next
    <2> QED BY <2>1, <2>2, <2>3
<1> QED BY <1>1, RInvHolds, PTL DEF Spec, EstimatesAdvance
===============================================================================
