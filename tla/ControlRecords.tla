--------------------------- MODULE ControlRecords ----------------------------
(***************************************************************************)
(* The memory of FileControlStore (typescript/src/control-store.ts) for    *)
(* one profile id, and what one record of the journal does to it.  A       *)
(* payload is reduced to what the store compares: its id, the release it   *)
(* names, the slot it is about, and for an outcome what was measured.      *)
(* The checks of a single payload by itself (number ranges, digests that   *)
(* are hexadecimal, a non-empty actor) hold of every record built here.    *)
(***************************************************************************)
EXTENDS Integers

CONSTANTS
    Releases,       \* records [revision, digest]; releaseKey without the profile
    Ids,            \* observation ids, chosen by callers
    Slots,
    Limits,         \* maxControlFailureStreak values
    Calibration     \* calibration_min_slot of a digest

NoSlot == -1
NoLimit == 0
NoRelease == [revision |-> 0, digest |-> "none"]

ASSUME RecordsAssumption ==
    /\ \A r \in Releases : r.revision \in Nat \ {0}
    /\ NoRelease \notin Releases
    /\ Slots \subseteq Nat
    /\ Limits \subseteq Nat \ {NoLimit}
    /\ Calibration \in [{r.digest : r \in Releases} -> Slots]

\* What the control simulation of an outcome came to: "partial" measured one
\* resource only; the excess results measured one over its predicted limit.
Results == {"success", "excess", "partial", "partial_excess", "failed"}
Excess(result) == result \in {"excess", "partial_excess"}
Measured(result) == result \in {"success", "excess"}

Decisions == [kind : {"decision"}, id : Ids, release : Releases, slot : Slots,
              selected : BOOLEAN, limit : Limits]
OutcomeRecords == {o \in [kind : {"outcome"}, id : Ids, result : Results,
                          slot : Slots \cup {NoSlot}] :
                       o.result # "failed" => o.slot # NoSlot}

\* The maps of the store.  decisions, outcomes and recoveries hold what was
\* ingested; rejected holds the releases in quarantines with rejectedSlot.
EmptyMemory == [decisions |-> {}, outcomes |-> {}, recoveries |-> {},
                rejected |-> [r \in Releases |-> NoSlot],
                recovered |-> NoRelease,
                streak |-> [r \in Releases |-> 0],
                policy |-> [r \in Releases |-> NoLimit]]

Quarantined(mem) == {r \in Releases : mem.rejected[r] # NoSlot}

\* isQuarantined for one release: once anything of the profile was rejected,
\* only the release recovered since then is admitted.
Blocked(mem, r) ==
    /\ Quarantined(mem) # {}
    /\ mem.rejected[r] # NoSlot \/ mem.recovered # r

\* The map a record belongs to, and the record it already holds under that id.
Held(mem, e) == CASE e.kind = "decision" -> mem.decisions
                  [] e.kind = "outcome"  -> mem.outcomes
                  [] OTHER               -> mem.recoveries
Repeated(mem, e) == e \in Held(mem, e)
Conflicting(mem, e) == \E f \in Held(mem, e) : f.id = e.id /\ f # e

\* The frozen decision an outcome is about.
DecisionOf(mem, o) == CHOOSE d \in mem.decisions : d.id = o.id

\* validateFailurePolicy; pin is expectedMaxFailureStreak.
PolicyAgrees(mem, pin, r, limit) ==
    /\ pin \in {NoLimit, limit}
    /\ mem.policy[r] \in {NoLimit, limit}

ValidOutcome(mem, o) ==
    \E d \in mem.decisions : /\ d.id = o.id
                             /\ d.selected
                             /\ o.slot = NoSlot \/ o.slot >= d.slot

\* Mutant: a recovery is compared with some rejection, not with all of them.
ValidRecoverySome(mem, e) ==
    \E q \in Quarantined(mem) :
           /\ e.release.revision > q.revision
           /\ e.release.digest # q.digest
           /\ Calibration[e.release.digest] > mem.rejected[q]

\* A recovery names a newer revision with another artifact, calibrated after
\* the latest slot of every rejection.
ValidRecovery(mem, e) ==
    /\ Quarantined(mem) # {}
    /\ \A q \in Quarantined(mem) :
           /\ e.release.revision > q.revision
           /\ e.release.digest # q.digest
           /\ Calibration[e.release.digest] > mem.rejected[q]

\* ingest throws nothing: a record held already, or a new and valid one.
Accepts(mem, pin, e) ==
    \/ Repeated(mem, e)
    \/ /\ ~Conflicting(mem, e)
       /\ CASE e.kind = "decision" -> PolicyAgrees(mem, pin, e.release, e.limit)
            [] e.kind = "outcome"  -> ValidOutcome(mem, e)
            [] OTHER               -> /\ PolicyAgrees(mem, pin, e.release, e.limit)
                                      /\ ValidRecovery(mem, e)

RejectedAt(d, o) == IF o.slot = NoSlot THEN d.slot ELSE o.slot

\* Mutant: a partial measurement counts as a successful control.
ApplyOutcomePartialResets(mem, o) ==
    LET d == DecisionOf(mem, o)
        r == d.release
        streak == IF o.result # "failed" THEN 0 ELSE mem.streak[r] + 1
        noted == [mem EXCEPT !.outcomes = @ \cup {o}, !.streak[r] = streak]
    IN  IF Excess(o.result) \/ streak >= d.limit
        THEN [noted EXCEPT !.rejected[r] = IF @ > RejectedAt(d, o) THEN @ ELSE RejectedAt(d, o),
                           !.recovered = NoRelease]
        ELSE noted

\* An outcome convicts the release of its decision by an excess or by the
\* last of a run of unmeasured controls; any conviction ends a recovery.
ApplyOutcome(mem, o) ==
    LET d == DecisionOf(mem, o)
        r == d.release
        streak == IF Measured(o.result) THEN 0 ELSE mem.streak[r] + 1
        noted == [mem EXCEPT !.outcomes = @ \cup {o}, !.streak[r] = streak]
    IN  IF Excess(o.result) \/ streak >= d.limit
        THEN [noted EXCEPT !.rejected[r] = IF @ > RejectedAt(d, o) THEN @ ELSE RejectedAt(d, o),
                           !.recovered = NoRelease]
        ELSE noted

\* ingest of an accepted record.
Apply(mem, e) ==
    IF Repeated(mem, e) THEN mem
    ELSE CASE e.kind = "decision" ->
                  [mem EXCEPT !.decisions = @ \cup {e}, !.policy[e.release] = e.limit]
           [] e.kind = "outcome" -> ApplyOutcome(mem, e)
           [] OTHER ->
                  [mem EXCEPT !.recoveries = @ \cup {e}, !.recovered = e.release,
                              !.policy[e.release] = e.limit]
==============================================================================
