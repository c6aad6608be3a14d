------------------------- MODULE OutcomeReconciliation -------------------------
(***************************************************************************)
(* attach_signature and reconcile (src/cu_pilot/shadow.py): signed         *)
(* transactions of completed observations and what became of them, over    *)
(* the store that collectors are filling.  Signature and message checks    *)
(* only refuse; a transaction is its signature.  reconcile reads the       *)
(* latest outcome, reports to the registry and inserts in three steps, so  *)
(* reconcilers interleave.                                                 *)
(***************************************************************************)
EXTENDS ShadowCollection

CONSTANTS
    Reconcilers,
    Signatures,
    Bodies,         \* outcome bodies [status, excess] that a cluster reports
    MaxCalls        \* bound on the calls of attach_signature and reconcile

Commitments == {"confirmed", "finalized"}

ASSUME ReconciliationAssumption ==
    /\ Bodies \subseteq [status : {"unavailable", "confirmed", "finalized"}, excess : BOOLEAN]
    /\ \A b \in Bodies : b.status = "unavailable" => ~b.excess
    /\ MaxCalls \in Nat

VARIABLES
    signatures,     \* the observation and commitment of an attached signature
    outcomes,       \* the outcome rows of a signature, oldest first
    executions,     \* the registry's executions: observation and body
    convicted,      \* plans whose artifact an execution has quarantined
    reconciler, calls

rvars == <<signatures, outcomes, executions, convicted, reconciler, calls>>

NoSignature == [id |-> "none", commitment |-> "none"]
NoBody == [status |-> "none", excess |-> FALSE]
Away == [step |-> "idle", signature |-> "none", body |-> NoBody, seen |-> NoBody]

NothingSent == /\ signatures = [s \in Signatures |-> NoSignature]
               /\ outcomes = [s \in Signatures |-> <<>>]
               /\ executions = {} /\ convicted = {}
               /\ reconciler = [k \in Reconcilers |-> Away]

RInit == Init /\ NothingSent /\ calls = 0

Latest(s) == IF outcomes[s] = <<>> THEN NoBody ELSE outcomes[s][Len(outcomes[s])]
Attached(s) == signatures[s] # NoSignature
PlanOf(s) == row[signatures[s].id].plan
Turn(k, changes) == reconciler' = [reconciler EXCEPT ![k] = Amend(@, changes)]
Doing(k, step) == reconciler[k].step = step

\* attach_signature: the observation has a final message and a frozen plan;
\* a known signature keeps its observation and commitment.
Attach(i, s, commitment) ==
    /\ row[i].result.plan # None
    /\ ~Attached(s) /\ calls < MaxCalls
    /\ calls' = calls + 1
    /\ signatures' = [signatures EXCEPT ![s] = [id |-> i, commitment |-> commitment]]
    /\ UNCHANGED <<vars, outcomes, executions, convicted, reconciler>>

\* Mutant: a finalized outcome is replaced like any other.
ReadUnchecked(k, s, body) ==
    /\ Doing(k, "idle") /\ Attached(s) /\ calls < MaxCalls
    /\ Turn(k, [step |-> "report", signature |-> s, body |-> body, seen |-> Latest(s)])
    /\ calls' = calls + 1
    /\ UNCHANGED <<vars, signatures, outcomes, executions, convicted>>

\* The latest outcome is read; another one than a finalized one conflicts.
Read(k, s, body) ==
    /\ Doing(k, "idle") /\ Attached(s) /\ calls < MaxCalls
    /\ ~(Latest(s).status = "finalized" /\ Latest(s) # body)
    /\ Turn(k, [step |-> "report", signature |-> s, body |-> body, seen |-> Latest(s)])
    /\ calls' = calls + 1
    /\ UNCHANGED <<vars, signatures, outcomes, executions, convicted>>

\* Mutant: only a finalized outcome is reported to the registry.
ReportFinalized(k) ==
    /\ Doing(k, "report")
    /\ LET it == reconciler[k]
           plan == PlanOf(it.signature)
       IN  IF it.body.status = "finalized" /\ plan.draw # "none"
           THEN /\ executions' = executions \cup {[plan |-> plan, body |-> it.body]}
                /\ convicted' = IF it.body.excess THEN convicted \cup {plan} ELSE convicted
           ELSE UNCHANGED <<executions, convicted>>
    /\ Turn(k, [step |-> "store"])
    /\ UNCHANGED <<vars, signatures, outcomes, calls>>

\* record_execution, for a plan that rests on a granted prediction and an
\* outcome that was found; the registry's record of it is idempotent.
Report(k) ==
    /\ Doing(k, "report")
    /\ LET it == reconciler[k]
           plan == PlanOf(it.signature)
       IN  IF it.body.status # "unavailable" /\ plan.draw # "none"
           THEN /\ executions' = executions \cup {[plan |-> plan, body |-> it.body]}
                /\ convicted' = IF it.body.excess THEN convicted \cup {plan} ELSE convicted
           ELSE UNCHANGED <<executions, convicted>>
    /\ Turn(k, [step |-> "store"])
    /\ UNCHANGED <<vars, signatures, outcomes, calls>>

Has(s, body) == \E n \in DOMAIN outcomes[s] : outcomes[s][n] = body

\* INSERT OR IGNORE: a body the signature had before is not inserted again.
StoreOutcome(k) ==
    /\ Doing(k, "store")
    /\ LET s == reconciler[k].signature
           body == reconciler[k].body
       IN  outcomes' = [outcomes EXCEPT ![s] = IF Has(s, body) THEN @ ELSE Append(@, body)]
    /\ Turn(k, Away)
    /\ UNCHANGED <<vars, signatures, executions, convicted, calls>>

\* The process dies, or the registry raises.
Abandon(k) == /\ ~Doing(k, "idle")
              /\ Turn(k, Away)
              /\ UNCHANGED <<vars, signatures, outcomes, executions, convicted, calls>>

Reconcile == \/ \E k \in Reconcilers :
                   \/ \E s \in Signatures, b \in Bodies : Read(k, s, b)
                   \/ Report(k) \/ StoreOutcome(k) \/ Abandon(k)
             \/ \E i \in Ids, s \in Signatures, c \in Commitments : Attach(i, s, c)

RNext == (Next /\ UNCHANGED rvars) \/ Reconcile

RSpec == RInit /\ [][RNext]_<<vars, rvars>>

-----------------------------------------------------------------------------
(* _aggregate_outcome: the strongest of the latest outcomes.               *)

Ranked == <<"missing", "unavailable", "pending", "pending_finality", "confirmed", "finalized">>
Standing(s) ==
    CASE outcomes[s] = <<>> -> "pending"
      [] Latest(s).status = "confirmed" /\ signatures[s].commitment = "finalized" -> "pending_finality"
      [] OTHER -> Latest(s).status
Rank(status) == CHOOSE n \in DOMAIN Ranked : Ranked[n] = status
Aggregate(i) ==
    LET found == {Rank(Standing(s)) : s \in {x \in Signatures : signatures[x].id = i}} \cup {1}
    IN  Ranked[CHOOSE n \in found : \A x \in found : x <= n]

-----------------------------------------------------------------------------
\* Every outcome the store has of a transaction that relied on a prediction
\* was reported to the registry before, and an excess among them keeps the
\* artifact quarantined, whatever later revisions of the outcome say.
OutcomesAreReported ==
    \A s \in Signatures : \A n \in DOMAIN outcomes[s] :
        LET body == outcomes[s][n]
        IN  body.status # "unavailable" /\ PlanOf(s).draw # "none" =>
                /\ [plan |-> PlanOf(s), body |-> body] \in executions
                /\ body.excess => PlanOf(s) \in convicted

\* An observation with finalized evidence loses that standing only to a
\* reconciler that had read the outcomes before the finalized one was stored:
\* none that has seen it replaces it, and no other attempt erases it.
FinalityStands ==
    [][\A i \in Ids :
          Aggregate(i) = "finalized" /\ Aggregate(i)' # "finalized" =>
              \E k \in Reconcilers : /\ StoreOutcome(k)
                                     /\ reconciler[k].seen.status # "finalized"
                                     /\ Latest(reconciler[k].signature).status = "finalized"]_<<vars, rvars>>
==============================================================================
