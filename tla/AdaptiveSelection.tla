-------------------------- MODULE AdaptiveSelection ---------------------------
(***************************************************************************)
(* Application._adaptive_selection (examples/payouts/app.py): one bounded  *)
(* decision per candidate batch, from the largest to the smallest.  A      *)
(* candidate's options (its accounts' state, its shape, the limits of an   *)
(* eligible prediction, its control draw) were frozen before the first     *)
(* probe and are read once each, so a probe chooses them.  execute_decision *)
(* is Estimation.tla's; here it either returns the frozen prediction or    *)
(* simulates, and may find its plan out of date.                           *)
(***************************************************************************)
EXTENDS RpcClient, Sequences, FiniteSets

CONSTANTS
    Remaining,      \* payments left in the queue
    ComputeCap, DataCap,    \* the application's resource policy
    Fitted          \* [compute, data] limits eligible predictions carry

ASSUME CapsAssumption == ComputeCap \in 1..MaxComputeUnits /\ DataCap \in 1..MaxLoadedBytes
ASSUME RemainingAssumption == Remaining \in 1..16
ASSUME FittedAssumption == Fitted \subseteq [compute : Nat \ {0}, data : Nat \ {0}]

VARIABLES
    sel,            \* the selection of the step in progress; it owes the registry
                    \* the outcome of a drawn control until that is recorded
    learned         \* history: the malformed candidates and the measured demands

selVars == <<sel, learned>>

NoLimits == [compute |-> 0, data |-> 0]
NoTrial == [status |-> "none", reason |-> "none", success |-> FALSE, limits |-> NoLimits]

\* planning.eligible_counts, and step's own copy of it.
EligibleCounts == {n \in {1, 2, 4, 8} : n <= Remaining}
                  \cup (IF Remaining <= 8 THEN {Remaining} ELSE {})

Options == [supported : BOOLEAN, wellFormed : BOOLEAN, limits : Fitted \cup {NoLimits},
            control : BOOLEAN]
NoOption == [supported |-> FALSE, wellFormed |-> FALSE, limits |-> NoLimits, control |-> FALSE]

NoSelection == [phase |-> "none", count |-> 0, option |-> NoOption, trial |-> NoTrial,
                owed |-> FALSE, status |-> "none"]
Nothing == [malformed |-> {}, demand |-> {}]

SelInit == sel = NoSelection /\ learned = Nothing

Fits(limits) == limits.compute <= ComputeCap /\ limits.data <= DataCap
UsePrediction(o) == o.limits # NoLimits /\ Fits(o.limits)

Largest(counts) == CHOOSE n \in counts : \A other \in counts : other <= n
Smaller == {n \in EligibleCounts : n < sel.count}

\* The row of payout_planning_attempts goes from planning to its last status.
Stop == sel' = [sel EXCEPT !.phase = "over", !.status = "stopped"]
NextCandidate == IF Smaller = {} THEN Stop
                  ELSE sel' = [sel EXCEPT !.phase = "probe", !.count = Largest(Smaller)]

\* The first candidate: the bounded, descending menu has been checked.
Begin == /\ sel' = [NoSelection EXCEPT !.phase = "probe", !.status = "planning",
                                       !.count = Largest(EligibleCounts)]
         /\ learned' = Nothing
         /\ rpc' = Quiet

\* Unsupported accounts stop the selection; a message of the wrong version, too
\* large or with too many accounts is passed over; else the current slot is read.
Probe(o) ==
    /\ sel.phase = "probe"
    /\ IF ~o.supported THEN Stop /\ UNCHANGED learned /\ UNCHANGED rpc
       ELSE IF ~o.wellFormed
       THEN /\ learned' = [learned EXCEPT !.malformed = @ \cup {sel.count}]
            /\ NextCandidate
            /\ UNCHANGED rpc
       ELSE /\ sel' = [sel EXCEPT !.phase = "slot", !.option = o]
            /\ Issue("getSlot")
            /\ UNCHANGED learned

SlotRead ==
    /\ sel.phase = "slot"
    /\ \/ rpc.phase = "failed" /\ Stop /\ UNCHANGED rpc
       \/ rpc.phase = "answered" /\ UNCHANGED rpc
          /\ sel' = [sel EXCEPT !.phase = "execute", !.owed = sel.option.control]
    /\ UNCHANGED learned

Unresolved(reason, success) ==
    [status |-> "unresolved", reason |-> reason, success |-> success, limits |-> NoLimits]

\* execute_decision up to its answer or its simulation.  The plan may no longer
\* bind at this slot, and the registry may no longer grant the prediction.
Execute(binds, granted) ==
    /\ sel.phase = "execute"
    /\ IF ~binds
       THEN /\ sel' = [sel EXCEPT !.phase = "finish",
                                  !.trial = Unresolved("invalid_bound_plan", FALSE)]
            /\ UNCHANGED rpc
       ELSE IF UsePrediction(sel.option) /\ granted /\ ~sel.option.control
       THEN /\ sel' = [sel EXCEPT !.phase = "finish",
                                  !.trial = [status |-> "accepted", reason |-> "prediction",
                                             success |-> FALSE, limits |-> sel.option.limits]]
            /\ UNCHANGED rpc
       ELSE /\ sel' = [sel EXCEPT !.phase = "simulate"]
            /\ Issue("simulateTransaction")
    /\ UNCHANGED learned

\* The application's limit of a measured demand is whole hundreds of units.
Whole(limits) == [limits EXCEPT !.compute = ((@ + 99) \div 100) * 100]

\* The transaction's own error, a stale slot or a missing measurement, or a
\* successful measurement whose padded demand the runtime does or does not allow.
Simulated ==
    /\ sel.phase = "simulate"
    /\ \/ /\ rpc.phase = "failed"
          /\ sel' = [sel EXCEPT !.phase = "finish", !.trial = Unresolved("rpc_failure", FALSE)]
          /\ UNCHANGED learned
       \/ /\ rpc.phase = "answered"
          /\ \E reason \in {"transaction_error", "missing_measurement"} :
                sel' = [sel EXCEPT !.phase = "finish",
                                   !.trial = Unresolved(reason, reason = "missing_measurement")]
          /\ UNCHANGED learned
       \/ /\ rpc.phase = "answered"
          /\ \E m \in Measurements :
                LET limits == MeasuredLimits(m)
                IN  /\ sel' = [sel EXCEPT !.phase = "finish", !.trial =
                                  IF ExceedsRuntime(limits)
                                  THEN Unresolved("resource_cap_exceeded", TRUE)
                                  ELSE [status |-> "simulated", reason |-> "simulation",
                                        success |-> TRUE, limits |-> Whole(limits)]]
                    /\ learned' = [learned EXCEPT !.demand = @ \cup {<<sel.count, m>>}]
    /\ UNCHANGED rpc

\* store.finish, a transaction of its own.
Finish == /\ sel.phase = "finish"
          /\ sel' = [sel EXCEPT !.phase = "record"]
          /\ UNCHANGED <<rpc, learned>>

\* record_control_outcome: the outcome of a selected control, whatever it was.
Record == /\ sel.phase = "record"
          /\ sel' = [sel EXCEPT !.phase = "judge", !.owed = FALSE]
          /\ UNCHANGED <<rpc, learned>>

\* Mutant: any unresolved candidate makes room for a smaller one.
JudgeShrinks ==
    /\ sel.phase = "judge"
    /\ IF sel.trial.status = "unresolved" \/ ~Fits(sel.trial.limits)
       THEN NextCandidate
       ELSE sel' = [sel EXCEPT !.phase = "over", !.status = "selected"]
    /\ UNCHANGED <<rpc, learned>>

\* Only a successful measurement permits a smaller batch.
Judge ==
    /\ sel.phase = "judge"
    /\ CASE sel.trial.status = "unresolved" ->
              IF sel.trial.reason = "resource_cap_exceeded" /\ sel.trial.success
              THEN NextCandidate ELSE Stop
         [] sel.trial.status # "unresolved" /\ ~Fits(sel.trial.limits) ->
              IF sel.trial.status = "simulated" THEN NextCandidate ELSE Stop
         [] OTHER -> sel' = [sel EXCEPT !.phase = "over", !.status = "selected"]
    /\ UNCHANGED <<rpc, learned>>

SelStep == \/ \E o \in Options : Probe(o)
           \/ SlotRead
           \/ \E binds, granted \in BOOLEAN : Execute(binds, granted)
           \/ Simulated \/ Finish \/ Record \/ Judge
           \/ RpcStep /\ UNCHANGED selVars

(***************************************************************************)
(* Properties.                                                             *)
(***************************************************************************)

\* A demand that no limit within the policy covers with its margin: compute
\* limits are whole hundreds and data limits whole pages, at least one of each.
TooLarge(m) == \/ ComputeCap < 100 \/ DataCap < Page
               \/ 1000 * (ComputeCap \div 100) < 11 * m.units
               \/ 10 * Page * (DataCap \div Page) < 11 * m.data

\* The batch selected is the largest that can be: each larger candidate was
\* malformed or was measured, successfully, to need more than the policy allows.
\* A failed or incomplete simulation, an unreachable node or a prediction never
\* makes an approved payment wait for the next batch, and no batch is passed over,
\* refused or selected before the outcome of the control it executed is recorded.
LargestVerified ==
    /\ sel.phase \in {"probe", "over"} => ~sel.owed
    /\ sel.status = "selected" =>
        \A n \in EligibleCounts : n > sel.count =>
            \/ n \in learned.malformed
            \/ \E d \in learned.demand : d[1] = n /\ TooLarge(d[2])

\* The limits selected respect both caps, and cover with their margin the demand
\* measured for this very candidate, if it was measured.
LimitsCover ==
    sel.status = "selected" =>
        LET limits == sel.trial.limits
        IN  /\ limits.compute \in 1..ComputeCap /\ limits.data \in 1..DataCap
            /\ \A d \in learned.demand : d[1] = sel.count =>
                   10 * limits.compute >= 11 * d[2].units /\ 10 * limits.data >= 11 * d[2].data
            /\ sel.trial.status = "accepted" => limits \in Fitted

==============================================================================
