---------------------------- MODULE PayoutExecutor ----------------------------
(***************************************************************************)
(* The payout worker (examples/payouts/app.py, Application.step and        *)
(* reconcile_pending) for one queue, composed with the on-chain program of *)
(* PayoutQueue and the network between them.                               *)
(*                                                                         *)
(* One step of the worker is a sequence of chain reads, journal commits    *)
(* and sends; everything else interleaves with it, and it can be cut short *)
(* anywhere by a crash, a failed call or a raised error, which loses its   *)
(* local variables and nothing else.  A step is started again by the loop  *)
(* of run, by the server's worker, or by an operator.                      *)
(*                                                                         *)
(* Abstractions.  A journal row appears when it is signed: a planned row   *)
(* is never read again.  A transaction is its row's index, so a            *)
(* rebroadcast sends the same transaction.  Of an estimate only its origin *)
(* (prediction or simulation) matters, and any transaction may exhaust its *)
(* budget.  The SOL allowance and the profile check before signing can     *)
(* only end the step, as a crash does.  One worker at a time: the server   *)
(* refuses to start a second one.                                          *)
(***************************************************************************)
EXTENDS PayoutQueue

CONSTANTS
    MaxAttempts,      \* MAX_ATTEMPTS, of failed batches and of rebroadcasts
    Hostile,          \* any number of faults, and accepted transactions may expire
    MaxFaults         \* otherwise: crashes, failed calls and lost submissions

ASSUME ExecutorAssumption ==
    /\ MaxAttempts \in Nat /\ MaxFaults \in Nat /\ Hostile \in BOOLEAN
    /\ 1..(MaxPayments + MaxAttempts) \subseteq Decisions

VARIABLES
    journal,          \* payout_steps rows from the signed phase on, by rowid
    forced,           \* payout_settings "force_simulation:<queue>"
    inflight,         \* transactions the network still carries
    landed,           \* the chain's outcome of each row's transaction
    pc,               \* where the worker's step stands
    plan,             \* the step's chosen batch
    row,              \* the row the step works on
    resent,           \* this step has rebroadcast
    seen,             \* getTransaction's answer
    faults            \* faults so far, unless Hostile

worker == <<pc, plan, row, resent, seen>>
chain == <<queue, tokens, now>>
systemVars == <<chain, journal, forced, inflight, landed, worker, faults>>

Outcome == {"none", "ok", "err", "budget"}
Modes == {"prediction", "simulation"}
Phases == {"signed", "uncertain", "confirmed", "failed"}
Row == [cursor : Nat, count : Nat, mode : Modes, phase : Phases, resends : Nat]

NoPlan == [cursor |-> 0, count |-> 0, mode |-> "prediction", snapshot |-> <<>>]

Rows == 1..Len(journal)

\* Mutant: only a send that failed leaves something to reconcile.
PendingUncertain == {i \in Rows : journal[i].phase = "uncertain"}

Pending == {i \in Rows : journal[i].phase \in {"signed", "uncertain"}}
Failed == {i \in Rows : journal[i].phase = "failed"}
Confirmed == {i \in Rows : journal[i].phase = "confirmed"}
Landed == {i \in Rows : landed[i] # "none"}
First(S) == CHOOSE i \in S : \A j \in S : i <= j

ExecutorTypeOK ==
    /\ journal \in Seq(Row) /\ landed \in Seq(Outcome) /\ Len(landed) = Len(journal)
    /\ forced \in BOOLEAN /\ resent \in BOOLEAN /\ seen \in Outcome
    /\ inflight \subseteq Rows
    /\ pc \in {"idle", "plan", "sign", "send", "sent", "record", "lookup", "judge",
               "resend", "fail"}
    /\ row \in 0..Len(journal)
    /\ faults \in 0..MaxFaults

SystemInit ==
    /\ Init
    /\ journal = <<>> /\ forced = FALSE
    /\ inflight = {} /\ landed = <<>>
    /\ pc = "idle" /\ plan = NoPlan /\ row = 0 /\ resent = FALSE /\ seen = "none"
    /\ faults = 0

-----------------------------------------------------------------------------
\* What the worker reads from the chain.

\* bridge verify: balances and cursor match the approved list exactly.
Correct ==
    /\ paidCount = cursor
    /\ vault = IF status = "refunded" THEN 0 ELSE Total(terms) - totalPaid
    /\ \A i \in 1..Length :
         received[terms.recipients[i]] = IF i <= cursor THEN Amount(terms, i) ELSE 0

\* bridge snapshot of a candidate: the accounts its digest covers.
Snapshot(count) ==
    <<queue, vault, {i \in (cursor + 1)..(cursor + count) : terms.recipients[i] \in opened}>>

\* The counts step offers.
Counts(remaining) == {n \in Menu \cup {remaining} : n <= remaining /\ n <= MaxBatch}

-----------------------------------------------------------------------------
\* Application.step

Ended == pc' = "idle" /\ plan' = NoPlan /\ row' = 0 /\ resent' = FALSE /\ seen' = "none"

\* A step begins with reconcile_pending.
Begin ==
    /\ pc = "idle" /\ Pending # {}
    /\ pc' = "lookup" /\ row' = First(Pending)
    /\ UNCHANGED <<chain, journal, forced, inflight, landed, plan, resent, seen, faults>>

\* Mutant: only a failure of the batch now to be retried counts.
RecoversAtCursor == \E i \in Failed : landed[i] = "budget" /\ journal[i].cursor = cursor

\* Simulate from now on: the setting, or a journalled budget failure that a
\* crash kept from setting it.
Recovers == forced \/ \E i \in Failed : landed[i] = "budget"

\* Mutant: the last attempt is not used.
AttemptsLeftButOne == Cardinality(Failed) + 1 < MaxAttempts

AttemptsLeft == Cardinality(Failed) < MaxAttempts

\* Nothing is pending: verify the queue and decide whether to plan.
Inspect ==
    /\ pc = "idle" /\ Pending = {}
    /\ status = "open" /\ Correct /\ ~paused
    /\ AttemptsLeft
    /\ forced' = Recovers
    /\ plan' = [NoPlan EXCEPT !.cursor = cursor]
    /\ pc' = "plan"
    /\ UNCHANGED <<chain, journal, inflight, landed, row, resent, seen, faults>>

\* Choose a count and an estimate, and keep the snapshot they were made from.
\* A simulation succeeds only where the program would; a prediction needs an
\* open, unpaused queue.
Plan ==
    /\ pc = "plan"
    /\ IF cursor = plan.cursor
       THEN \E count \in Counts(Length - cursor), mode \in Modes :
              /\ IF mode = "simulation" THEN Executable(cursor, count)
                 ELSE ~forced /\ status = "open" /\ ~paused
              /\ plan' = [cursor |-> cursor, count |-> count, mode |-> mode,
                          snapshot |-> Snapshot(count)]
              /\ pc' = "sign" /\ UNCHANGED <<row, resent, seen>>
       ELSE Ended
    /\ UNCHANGED <<chain, journal, forced, inflight, landed, faults>>

\* No candidate could be verified.
NoCandidate ==
    /\ pc = "plan" /\ cursor = plan.cursor
    /\ \A count \in Counts(Length - cursor) : ~Executable(cursor, count)
    /\ Ended
    /\ UNCHANGED <<chain, journal, forced, inflight, landed, faults>>

\* Compare the snapshot again, sign, and journal the signed bytes.
Sign ==
    /\ pc = "sign"
    /\ IF plan.snapshot = Snapshot(plan.count)
       THEN /\ journal' = Append(journal, [cursor |-> plan.cursor, count |-> plan.count,
                                           mode |-> plan.mode, phase |-> "signed",
                                           resends |-> 0])
            /\ landed' = Append(landed, "none")
            /\ pc' = "send" /\ row' = Len(journal) + 1
            /\ plan' = NoPlan /\ UNCHANGED <<resent, seen>>
       ELSE Ended /\ UNCHANGED <<journal, landed>>
    /\ UNCHANGED <<chain, forced, inflight, faults>>

Fault == IF Hostile THEN UNCHANGED faults
         ELSE faults < MaxFaults /\ faults' = faults + 1

\* The network accepts the row's transaction, unless its signature has landed
\* and is a duplicate; or it is lost.
Submit ==
    \/ inflight' = inflight \cup ({row} \ Landed) /\ UNCHANGED faults
    \/ Fault /\ UNCHANGED inflight

\* bridge send answers, or fails (whatever became of the transaction): the
\* row is uncertain and the step reconciles it at once.
Send ==
    /\ pc = "send"
    /\ Submit
    /\ \/ pc' = "sent" /\ UNCHANGED journal
       \/ pc' = "lookup" /\ journal' = [journal EXCEPT ![row].phase = "uncertain"]
    /\ UNCHANGED <<chain, forced, landed, plan, row, resent, seen>>

\* The outcome that send returns with its answer; without one the step ends.
Sent ==
    /\ pc = "sent"
    /\ IF landed[row] = "none" THEN Ended
       ELSE /\ seen' = landed[row] /\ pc' = "record" /\ UNCHANGED <<plan, row, resent>>
    /\ UNCHANGED <<chain, journal, forced, inflight, landed, faults>>

\* A settled row's rebroadcast count is never read again.
Settle(i, phase) == [journal EXCEPT ![i].phase = phase, ![i].resends = 0]

\* A confirmed outcome is recorded if the queue verifies; otherwise the row
\* stays as it is and the step ends.
Confirm(verified) ==
    /\ seen = "ok"
    /\ journal' = IF Correct /\ verified
                  THEN Settle(row, "confirmed") ELSE journal
    /\ Ended
    /\ UNCHANGED forced

\* A failed outcome: a budget failure first forces simulation.
NoteFailure ==
    /\ seen \in {"err", "budget"}
    /\ forced' = (forced \/ seen = "budget")
    /\ pc' = "fail"
    /\ UNCHANGED <<journal, plan, row, resent, seen>>

\* The outcome of a transaction the step has just sent.
Record ==
    /\ pc = "record"
    /\ \/ Confirm(cursor = journal[row].cursor + journal[row].count /\ lastDecision = row)
       \/ NoteFailure
    /\ UNCHANGED <<chain, inflight, landed, faults>>

Fail ==
    /\ pc = "fail"
    /\ journal' = Settle(row, "failed")
    /\ Ended
    /\ UNCHANGED <<chain, forced, inflight, landed, faults>>

-----------------------------------------------------------------------------
\* reconcile_pending

Lookup ==
    /\ pc = "lookup"
    /\ seen' = landed[row] /\ pc' = "judge"
    /\ UNCHANGED <<chain, journal, forced, inflight, landed, plan, row, resent, faults>>

\* Mutant: an unchanged cursor is taken for a lost submission.
GiveUp == Settle(row, "failed")

\* An unchanged cursor does not disprove an in-flight submission.
Unresolved == [journal EXCEPT ![row].phase = "uncertain"]

\* Mutant: the last rebroadcast is not made.
ResendsLeftButOne(i) == journal[i].resends + 1 < MaxAttempts

ResendsLeft(i) == journal[i].resends < MaxAttempts

\* No outcome yet: rebroadcast once per step, and MaxAttempts times in all,
\* while the cursor has not moved; otherwise pause.
AwaitOutcome ==
    /\ seen = "none"
    /\ IF ~resent /\ cursor = journal[row].cursor /\ ResendsLeft(row)
       THEN /\ journal' = [journal EXCEPT ![row].resends = @ + 1]
            /\ pc' = "resend" /\ UNCHANGED <<plan, row, resent, seen>>
       ELSE journal' = Unresolved /\ Ended
    /\ UNCHANGED forced

\* The verification read of reconcile, and what follows from it.
Judge ==
    /\ pc = "judge"
    /\ \/ AwaitOutcome
       \/ Confirm(cursor >= journal[row].cursor + journal[row].count)
       \/ NoteFailure
    /\ UNCHANGED <<chain, inflight, landed, faults>>

\* The same signed bytes again; a failed send is ignored.
Resend ==
    /\ pc = "resend"
    /\ Submit
    /\ resent' = TRUE /\ pc' = "lookup"
    /\ UNCHANGED <<chain, journal, forced, landed, plan, row, seen>>

-----------------------------------------------------------------------------
\* Faults and the network.

\* The process dies, or a call fails and the step raises.
Crash ==
    /\ pc # "idle"
    /\ Fault
    /\ Ended
    /\ UNCHANGED <<chain, journal, forced, inflight, landed>>

\* A transaction reaches the chain: it executes, exhausts its budget, or the
\* program rejects it.
Deliver(i) ==
    LET entry == journal[i] IN
    /\ i \in inflight
    /\ inflight' = inflight \ {i}
    /\ \/ /\ ExecuteBatch(entry.cursor, entry.count, i)
          /\ landed' = [landed EXCEPT ![i] = "ok"]
       \/ /\ landed' = [landed EXCEPT ![i] = IF Executable(entry.cursor, entry.count)
                                             THEN "budget" ELSE "err"]
          /\ UNCHANGED chain
    /\ UNCHANGED <<journal, forced, worker, faults>>

\* A transaction whose blockhash expired is dropped.
Expire(i) ==
    /\ Hostile /\ i \in inflight
    /\ inflight' = inflight \ {i}
    /\ UNCHANGED <<chain, journal, forced, landed, worker, faults>>

-----------------------------------------------------------------------------
Step == \/ Begin \/ Inspect \/ Plan \/ NoCandidate \/ Sign \/ Send \/ Sent \/ Record
        \/ Fail \/ Lookup \/ Judge \/ Resend

Deliveries == \E i \in inflight : Deliver(i)

SystemNext ==
    \/ Step
    \/ Crash
    \/ Deliveries
    \/ \E i \in inflight : Expire(i)
    \/ (Owner \/ Environment) /\ UNCHANGED <<journal, forced, inflight, landed, worker, faults>>

SystemSpec == SystemInit /\ [][SystemNext]_systemVars

\* Somebody calls step again whenever it may do something, and what the
\* network accepted arrives.
FairSpec == SystemSpec /\ WF_systemVars(Step) /\ WF_systemVars(Deliveries)

-----------------------------------------------------------------------------
\* Properties.

Settled(i) == journal[i].phase \in {"confirmed", "failed"}

\* Nothing is signed while an earlier transaction could still land, and what
\* the journal says of a settled one is what the chain did, through crashes,
\* lost answers and rebroadcasts (reconcile_pending comes first in step).
OneInFlight ==
    /\ \A i \in Rows : i < Len(journal) => Settled(i)
    /\ \A i \in Rows : Settled(i) => (journal[i].phase = "confirmed" <=> landed[i] = "ok")
                                     /\ landed[i] # "none"

\* The books are complete: every payment the queue has made belongs to exactly
\* one journalled signature, and once nothing is pending the confirmed rows
\* are those signatures (the journal is written before a send).  Restarts do not
\* make it forget its limits: of failed rows and of rebroadcasts of one row.
Covers(i, k) == journal[i].cursor < k /\ k <= journal[i].cursor + journal[i].count
BooksComplete ==
    /\ \A k \in 1..cursor :
          /\ Cardinality({i \in Rows : landed[i] = "ok" /\ Covers(i, k)}) = 1
          /\ Pending = {} => \E i \in Confirmed : Covers(i, k)
    /\ Cardinality(Failed) <= MaxAttempts
    /\ \A i \in Rows : journal[i].resends <= MaxAttempts

\* After a confirmed budget failure every later batch of the queue is
\* simulated, also when a crash separated the outcome from the setting
\* (docs/payouts.md: it "forces subsequent estimates for that queue through
\* simulation").
SimulatesAfterExhaustion ==
    \A i, j \in Rows : i < j /\ landed[i] = "budget" => journal[j].mode = "simulation"

\* Every signed row is settled in the end (FairSpec; at most MaxAttempts
\* faults, no expiry and no deposit into the vault: with them the worker may
\* pause for good, as its errors say).
SignaturesSettle == []<>(Pending = {})

\* The worker is never stuck: again and again the queue is done, paused,
\* expired or not yet there, or the attempts are used up.
WorkerFinishes ==
    []<>(status # "open" \/ paused \/ now >= expiry \/ Cardinality(Failed) >= MaxAttempts)
===============================================================================
