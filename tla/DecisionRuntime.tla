--------------------------- MODULE DecisionRuntime ---------------------------
(***************************************************************************)
(* estimateResources (typescript/src/runtime.ts): concurrent estimates of  *)
(* one JavaScript process over one control store (ControlRecords) and one  *)
(* release object that the application refreshes while they run.  Code     *)
(* between two awaits is one action; every await lets the others in.       *)
(*                                                                         *)
(* A release snapshot is the release it names, whether what releaseRisk    *)
(* compares without a clock is in order (state, quarantine, force, watcher,*)
(* artifact, context, workload, dependencies, deployments), the time it    *)
(* was exported and the slot of its evidence.  checked_at moves with       *)
(* exported_at.  Binding a message either throws at the start or is left   *)
(* out; measured resources are their result in ControlRecords.             *)
(***************************************************************************)
EXTENDS ControlRecords, FiniteSets

CONSTANTS
    Snapshots,      \* release objects the application holds over time
    Requests,       \* the options callers pass
    MaxAge,         \* max_deployment_age_seconds
    MaxAgeSlots,    \* max_observation_age_slots
    MaxAttempts,    \* maxAttempts of simulate
    MaxTime         \* bound on the clock

\* The caller's options: forceSimulation or a workload that is not budget
\* independent, shadow, whether the draw falls below control_probability, and
\* the current slot.
Options == [forced : BOOLEAN, shadow : BOOLEAN, drawn : BOOLEAN, slot : Slots]

ASSUME RuntimeAssumption ==
    /\ Requests \subseteq Options
    /\ Snapshots \subseteq [release : Releases, limit : Limits, trusted : BOOLEAN,
                            exported : 0..MaxTime, slot : Slots]
    /\ MaxAge \in Nat /\ MaxAgeSlots \in Nat /\ MaxTime \in Nat
    /\ MaxAttempts \in 1..5

VARIABLES
    live,           \* the release object of the application
    now,            \* Date.now
    store,          \* the control store's maps
    estimate        \* one estimate per observation id (randomUUID)

vars == <<live, now, store, estimate>>

Phases == {"new", "persist", "recheck", "simulate", "backoff", "report", "ended"}
Statuses == {"none", "prediction", "simulation", "unresolved"}

\* Of the failures, "stale" is the one whose answer carries an old slot.
Observed == Results \cup {"none", "stale"}

NoOptions == [forced |-> FALSE, shadow |-> FALSE, drawn |-> FALSE, slot |-> NoSlot]
Fresh == [phase |-> "new", options |-> NoOptions, snapshot |-> CHOOSE s \in Snapshots : TRUE,
          selected |-> FALSE, attempt |-> 0, observed |-> "none", observedAt |-> NoSlot,
          status |-> "none"]

Init == /\ live \in Snapshots
        /\ now = 0
        /\ store = EmptyMemory
        /\ estimate = [e \in Ids |-> Fresh]

\* Some fields of a record change.
Amend(record, changes) ==
    [f \in DOMAIN record |-> IF f \in DOMAIN changes THEN changes[f] ELSE record[f]]

Become(e, changes) == estimate' = [estimate EXCEPT ![e] = Amend(@, changes)]

\* releaseRisk: the clock moves under a snapshot, the caller's slot does not.
Risk(s, slot) ==
    \/ ~s.trusted
    \/ now < s.exported \/ now - s.exported > MaxAge
    \/ slot < s.slot \/ slot - s.slot > MaxAgeSlots

DecisionOfEstimate(e) ==
    LET it == estimate[e]
    IN  [kind |-> "decision", id |-> e, release |-> it.snapshot.release, slot |-> it.options.slot,
         selected |-> it.selected, limit |-> it.snapshot.limit]

\* The release is cloned and judged, the control drawn; an eligible estimate
\* goes on to freeze its decision, any other one is simulated.
Start(e, o) ==
    /\ estimate[e].phase = "new"
    /\ LET eligible == ~Risk(live, o.slot) /\ ~Blocked(store, live.release) /\ ~o.forced
       IN  Become(e, [phase |-> IF eligible THEN "persist" ELSE "simulate",
                      options |-> o, snapshot |-> live, selected |-> eligible /\ o.drawn])
    /\ UNCHANGED <<live, now, store>>

\* An error anywhere is caught: the estimate ends unresolved.
Throw(e) == Become(e, [phase |-> "ended", status |-> "unresolved"])

\* recordDecision writes, or refuses a release that is quarantined by now,
\* or fails.
Persist(e) ==
    /\ estimate[e].phase = "persist"
    /\ LET d == DecisionOfEstimate(e)
       IN  \/ /\ Accepts(store, NoLimit, d) /\ ~Blocked(store, d.release)
              /\ store' = Apply(store, d)
              /\ Become(e, [phase |-> "recheck"])
           \/ Throw(e) /\ UNCHANGED store
    /\ UNCHANGED <<live, now>>

\* Mutant: the release is not compared with the live object after the await.
StillSafeSnapshot(it) == ~Risk(it.snapshot, it.options.slot) /\ ~Blocked(store, it.snapshot.release)

\* What must hold after the await for the prediction to stand.
StillSafe(it) == /\ live = it.snapshot
                 /\ ~Risk(it.snapshot, it.options.slot)
                 /\ ~Blocked(store, it.snapshot.release)

Answers(it) == StillSafe(it) /\ ~it.options.shadow /\ ~it.selected

\* The continuation of recordDecision: answer by the prediction or simulate.
Recheck(e) ==
    /\ estimate[e].phase = "recheck"
    /\ IF Answers(estimate[e])
       THEN Become(e, [phase |-> "ended", status |-> "prediction"])
       ELSE Become(e, [phase |-> "simulate"])
    /\ UNCHANGED <<live, now, store>>

\* simulate returns: a selected control is reported, another one just ends.
Observe(e, observed, at) ==
    /\ LET it == estimate[e]
           measured == Measured(observed)
       IN  Become(e, [attempt |-> it.attempt + 1, observed |-> observed, observedAt |-> at,
                      phase |-> IF it.selected THEN "report" ELSE "ended",
                      status |-> IF it.selected THEN "none"
                                 ELSE IF measured THEN "simulation" ELSE "unresolved"])
    /\ UNCHANGED <<live, now, store>>

\* The answer of simulateTransaction, at its context slot.
Reply(e) ==
    /\ estimate[e].phase = "simulate"
    /\ \E at \in Slots :
           IF at < estimate[e].options.slot THEN Observe(e, "stale", at)
           ELSE \E observed \in Results : Observe(e, observed, at)

\* Mutant: an aborted delay starts over instead of returning.
CancelIgnored(e) == /\ estimate[e].phase = "backoff"
                    /\ Become(e, [phase |-> "simulate", attempt |-> 0])
                    /\ UNCHANGED <<live, now, store>>

\* A transport error or timeout that may be retried, after a delay.
Retry(e) == /\ estimate[e].phase = "simulate"
            /\ estimate[e].attempt + 1 < MaxAttempts
            /\ Become(e, [attempt |-> estimate[e].attempt + 1, phase |-> "backoff"])
            /\ UNCHANGED <<live, now, store>>
Resume(e) == /\ estimate[e].phase = "backoff"
             /\ Become(e, [phase |-> "simulate"])
             /\ UNCHANGED <<live, now, store>>

\* No answer: the last attempt or an error nobody retries, or the caller
\* aborts the wait.
GiveUp(e) == /\ estimate[e].phase = "simulate"
             /\ Observe(e, "failed", NoSlot)
Cancel(e) == /\ estimate[e].phase = "backoff"
             /\ Become(e, [phase |-> IF estimate[e].selected THEN "report" ELSE "ended",
                           observed |-> "failed",
                           status |-> IF estimate[e].selected THEN "none" ELSE "unresolved"])
             /\ UNCHANGED <<live, now, store>>

OutcomeOf(e) ==
    [kind |-> "outcome", id |-> e, slot |-> estimate[e].observedAt,
     result |-> IF estimate[e].observed = "stale" THEN "failed" ELSE estimate[e].observed]

\* Mutant: an excess is answered before recordOutcome settles.
ReportLater(e) ==
    /\ estimate[e].phase = "report"
    /\ Become(e, [phase |-> "ended", status |-> IF Measured(estimate[e].observed)
                                              THEN "simulation" ELSE "unresolved"])
    /\ UNCHANGED <<live, now, store>>

\* recordOutcome writes what the simulation came to, or throws.
Report(e) ==
    /\ estimate[e].phase = "report"
    /\ IF Accepts(store, NoLimit, OutcomeOf(e))
       THEN /\ store' = Apply(store, OutcomeOf(e))
            /\ Become(e, [phase |-> "ended",
                          status |-> IF Measured(estimate[e].observed)
                                     THEN "simulation" ELSE "unresolved"])
       ELSE Throw(e) /\ UNCHANGED store
    /\ UNCHANGED <<live, now>>

\* The store cannot be written, or the onControl callback throws.
ReportFails(e) == /\ estimate[e].phase = "report"
                  /\ Throw(e)
                  /\ UNCHANGED <<live, now, store>>

\* The application refreshes its release object; an operator recovers the
\* profile; time passes.
Refresh == /\ live' \in Snapshots \ {live}
           /\ UNCHANGED <<now, store, estimate>>
Recover(s) ==
    LET r == [kind |-> "recovery", id |-> Cardinality(store.recoveries) + 1,
              release |-> s.release, limit |-> s.limit]
    IN  /\ ~Risk(s, s.slot)
        /\ ~\E p \in store.recoveries : p.release = s.release
        /\ Accepts(store, NoLimit, r)
        /\ store' = Apply(store, r)
        /\ UNCHANGED <<live, now, estimate>>
Tick == /\ now < MaxTime
        /\ now' = now + 1
        /\ UNCHANGED <<live, store, estimate>>

Step(e) == \/ Persist(e) \/ Recheck(e)
           \/ Reply(e) \/ Retry(e) \/ Resume(e) \/ GiveUp(e) \/ Cancel(e)
           \/ Report(e) \/ ReportFails(e)

Next == \/ \E e \in Ids : Step(e) \/ \E o \in Requests : Start(e, o)
        \/ Refresh \/ Tick
        \/ \E s \in Snapshots : Recover(s)

Spec == Init /\ [][Next]_vars

\* The event loop runs every continuation; a store settles its promises and
\* a simulation ends by its timeout at the latest.
FairSpec == Spec /\ \A e \in Ids : WF_vars(Step(e))

-----------------------------------------------------------------------------
TypeOK ==
    /\ live \in Snapshots
    /\ now \in 0..MaxTime
    /\ store.rejected \in [Releases -> Slots \cup {NoSlot}]
    /\ store.recovered \in Releases \cup {NoRelease}
    /\ estimate \in [Ids -> [phase : Phases, options : Options \cup {NoOptions}, snapshot : Snapshots,
                             selected : BOOLEAN, attempt : 0..MaxAttempts,
                             observed : Observed, observedAt : Slots \cup {NoSlot},
                             status : Statuses]]

Ended(e) == estimate[e].phase = "ended"
Convicted(r) == \E o \in store.outcomes :
                    /\ Excess(o.result)
                    /\ DecisionOf(store, o).release = r

\* A prediction is returned (575-583) only while the application's release
\* object is the one that was judged, its evidence is current by the clock,
\* and no control in the store has found that release over its limits,
\* whatever happened between the first check and the answer; and it was frozen
\* in the store as the decision of no control.
PredictionsAreCurrent ==
    [][\A e \in Ids :
          estimate'[e].status = "prediction" /\ estimate[e].status # "prediction" =>
              LET s == estimate'[e].snapshot
              IN  /\ live' = s
                  /\ now' - s.exported \in 0..MaxAge
                  /\ ~Convicted(s.release)
                  /\ DecisionOfEstimate(e) \in store.decisions
                  /\ ~estimate[e].selected]_vars

\* A control whose simulation succeeded with an excess is returned as a
\* simulated answer only after the store has quarantined its release.
ExcessIsRecordedFirst ==
    \A e \in Ids :
        estimate[e].selected /\ estimate[e].observed = "excess" /\ estimate[e].status = "simulation"
            => store.rejected[estimate[e].snapshot.release] >= estimate[e].observedAt

\* An estimate that was started is answered or fails.
EstimatesEnd == \A e \in Ids : estimate[e].phase # "new" ~> Ended(e)
==============================================================================
