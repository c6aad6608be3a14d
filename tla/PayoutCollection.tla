--------------------------- MODULE PayoutCollection ----------------------------
(***************************************************************************)
(* Application.collect (examples/payouts/app.py): the collection of        *)
(* training rows on the local chain.  For one queue of the schedule the    *)
(* token accounts of Count recipients are opened one by one, and before    *)
(* each the same batch is snapshotted, planned and simulated.  A queue of  *)
(* every third group has a payment more, which is first executed for real. *)
(* Nothing keeps two runs apart: they meet in the store, in the journal    *)
(* payout_steps and on the chain.  A run may die anywhere, and the run     *)
(* that resumes it is another of Runs.  Each command to the bridge is one  *)
(* step, because the bridge takes them one at a time.  Queues have         *)
(* recipients of their own, so one queue is modelled.                      *)
(***************************************************************************)
EXTENDS Integers, FiniteSets

CONSTANTS
    Runs,           \* processes that run collect, each once
    Count           \* recipients of the batch

ASSUME CountAssumption == Count \in 1..8

VARIABLES
    scheduled,      \* the queue's address is in the collection_schedule setting
    chain,          \* the queue, its cursor and the payments whose accounts are open
    record,         \* the observations of the store, one for each number of accounts
    payment,        \* the row of payout_steps that a run has written, if any
    run             \* where each run stands

collectionVars == <<scheduled, chain, record, payment, run>>

Records == 0..Count
NoInput == [cursor |-> -1, accounts |-> {}]
NoLabel == [found |-> FALSE, measured |-> FALSE, cursor |-> -1, accounts |-> {}]
EmptyRecord == [input |-> NoInput, planned |-> FALSE, label |-> NoLabel]
NoPayment == [cursor |-> 0, phase |-> "none"]
NotRunning == [at |-> "idle", cursor |-> 0, existing |-> 0, found |-> FALSE,
               input |-> NoInput, label |-> NoLabel]
Over == [NotRunning EXCEPT !.at = "ended"]

\* Payments are counted from 0.  The batch follows the payments made first.
Base == IF chain.warmed THEN 1 ELSE 0
QueueEnd == Base + Count
\* The batch at the cursor, as the chain shows it.
Batch == [cursor |-> chain.cursor,
          accounts |-> chain.accounts \cap (chain.cursor..(chain.cursor + Count - 1))]

CollectionInit == /\ scheduled = FALSE
                  /\ chain \in [created : {FALSE}, cursor : {0}, accounts : {{}},
                                warmed : BOOLEAN]
                  /\ record = [e \in Records |-> EmptyRecord]
                  /\ payment = [r \in Runs |-> NoPayment]
                  /\ run = [r \in Runs |-> NotRunning]

Stands(r, place) == run[r].at = place
Goes(r, place) == run' = [run EXCEPT ![r].at = place]
Dies(r) == run' = [run EXCEPT ![r] = Over]
Existing(r) == run[r].existing

\* A run reads the schedule once.  An entry may be gone again: a run that enters
\* another queue writes back the schedule it has read.
StartRun(r) == /\ Stands(r, "idle")
               /\ Goes(r, "create") \/ (scheduled /\ Goes(r, "read"))
               /\ UNCHANGED <<scheduled, chain, record, payment>>

\* create: a queue of the same identity and terms is taken as it stands; a new one
\* of a third group has the account of its first recipient opened.
TakeQueue(r) ==
    /\ Stands(r, "create")
    /\ chain' = IF chain.created THEN chain
                ELSE [chain EXCEPT !.created = TRUE, !.accounts = @ \cup (0..(Base - 1))]
    /\ Goes(r, "book")
    /\ UNCHANGED <<scheduled, record, payment>>

Book(r) == /\ Stands(r, "book")
           /\ scheduled' = TRUE
           /\ Goes(r, "read")
           /\ UNCHANGED <<chain, record, payment>>

\* The cursor a run works with is read once; only one that has not moved is acted on.
ReadCursor(r) ==
    /\ Stands(r, "read")
    /\ run' = [run EXCEPT ![r].at = IF chain.warmed /\ chain.cursor = 0 THEN "step" ELSE "look",
                          ![r].cursor = chain.cursor]
    /\ UNCHANGED <<scheduled, chain, record, payment>>

(***************************************************************************)
(* step(queue, "always_simulate", count_cap=1), by runs that read 0.       *)
(***************************************************************************)
\* The row's transaction is signed, and its outcome not yet in the row.
Pending(p) == payment[p].phase \in {"signed", "paid", "refused"}

\* reconcile_pending takes a pending row of any run, before a run plans its own and
\* when its own could not be sent: with an outcome the step is over.  So it is with
\* the outcome of its own send.  Without an outcome it raises.
StepRecovers(r) ==
    /\ Stands(r, "step") \/ Stands(r, "sent")
    /\ \E p \in Runs : /\ payment[p].phase \in {"paid", "refused"}
                       /\ payment' = [payment EXCEPT ![p].phase = "settled"]
    /\ Goes(r, "check")
    /\ UNCHANGED <<scheduled, chain, record>>

StepFindsNone(r) == /\ Stands(r, "step")
                    /\ ~\E p \in Runs : Pending(p)
                    /\ Goes(r, "plan")
                    /\ UNCHANGED <<scheduled, chain, record, payment>>

\* The step reads the cursor for itself, and plans one payment there unless the
\* queue is complete.
PlanPayment(r) ==
    /\ Stands(r, "plan")
    /\ \/ /\ chain.cursor = QueueEnd
          /\ Goes(r, "check")
          /\ UNCHANGED payment
       \/ /\ chain.cursor < QueueEnd
          /\ payment' = [payment EXCEPT ![r] = [cursor |-> chain.cursor, phase |-> "planned"]]
          /\ Goes(r, "sign")
    /\ UNCHANGED <<scheduled, chain, record>>

\* The snapshot is compared again before the message is signed.
SignPayment(r) ==
    /\ Stands(r, "sign")
    /\ IF chain.cursor = payment[r].cursor
       THEN /\ payment' = [payment EXCEPT ![r].phase = "signed"]
            /\ Goes(r, "sent")
       ELSE UNCHANGED payment /\ Dies(r)
    /\ UNCHANGED <<scheduled, chain, record>>

\* The signed bytes reach the chain by their own send, late, or sent again by
\* another run.  The program refuses them at any cursor but theirs; a payment opens
\* the account it goes to.
ExecutePayment(p) ==
    /\ payment[p].phase = "signed"
    /\ \/ /\ chain.cursor = payment[p].cursor
          /\ chain' = [chain EXCEPT !.cursor = @ + 1, !.accounts = @ \cup {payment[p].cursor}]
          /\ payment' = [payment EXCEPT ![p].phase = "paid"]
       \/ /\ payment' = [payment EXCEPT ![p].phase = "refused"]
          /\ UNCHANGED chain
    /\ UNCHANGED <<scheduled, record, run>>

\* The run goes on only if exactly the one payment has been made.
CheckCursor(r) ==
    /\ Stands(r, "check")
    /\ IF chain.cursor = 1
       THEN run' = [run EXCEPT ![r].at = "look", ![r].cursor = 1]
       ELSE Dies(r)
    /\ UNCHANGED <<scheduled, chain, record, payment>>

(***************************************************************************)
(* The observations.                                                       *)
(***************************************************************************)
NextRecord(r) ==
    IF Existing(r) < Count
    THEN run' = [run EXCEPT ![r] = [NotRunning EXCEPT !.at = "look", !.cursor = run[r].cursor,
                                                      !.existing = Existing(r) + 1]]
    ELSE Dies(r)

Collected(e) == record[e].label # NoLabel

\* The row is looked up once, before the account is opened.
LookUp(r) ==
    /\ Stands(r, "look")
    /\ IF Collected(Existing(r)) THEN NextRecord(r)
       ELSE run' = [run EXCEPT ![r].at = IF Existing(r) > 0 THEN "open" ELSE "snapshot",
                               ![r].found = record[Existing(r)].input # NoInput]
    /\ UNCHANGED <<scheduled, chain, record, payment>>

\* create_ata is idempotent on the chain, and raises beyond the last payment.
OpenNext(r) ==
    /\ Stands(r, "open")
    /\ LET index == run[r].cursor + Existing(r) - 1
       IN  IF index < QueueEnd
           THEN chain' = [chain EXCEPT !.accounts = @ \cup {index}] /\ Goes(r, "snapshot")
           ELSE UNCHANGED chain /\ Dies(r)
    /\ UNCHANGED <<scheduled, record, payment>>

\* Mutant: a batch that runs over the end of the queue is not refused.
SnapshotAnyBatch(r) ==
    /\ Stands(r, "snapshot")
    /\ IF run[r].found THEN Goes(r, "freeze")
       ELSE run' = [run EXCEPT ![r].at = "ingest", ![r].input = Batch]
    /\ UNCHANGED <<scheduled, chain, record, payment>>

\* candidate and envelope: the state the message is built from, wherever the cursor
\* now is, as long as the queue still has a whole batch.
Snapshot(r) ==
    /\ Stands(r, "snapshot")
    /\ \/ chain.cursor + Count > QueueEnd /\ Dies(r)
       \/ /\ chain.cursor + Count <= QueueEnd
          /\ IF run[r].found THEN Goes(r, "freeze")
             ELSE run' = [run EXCEPT ![r].at = "ingest", ![r].input = Batch]
    /\ UNCHANGED <<scheduled, chain, record, payment>>

\* ingest keeps the first input.  Another one is a conflict, and one taken of
\* the same state may be one because it carries its own slot.
IngestRow(r) ==
    /\ Stands(r, "ingest")
    /\ LET e == Existing(r)
       IN  \/ /\ record[e].input \in {NoInput, run[r].input}
              /\ record' = [record EXCEPT ![e].input = run[r].input]
              /\ run' = [run EXCEPT ![r].at = "freeze", ![r].input = NoInput]
           \/ record[e].input # NoInput /\ Dies(r) /\ UNCHANGED record
    /\ UNCHANGED <<scheduled, chain, payment>>

\* A plan is prepared from the stored message unless one is stored; a row found
\* missing at first does not look for one, and conflicts with it.
FreezeRow(r) ==
    /\ Stands(r, "freeze")
    /\ record' = [record EXCEPT ![Existing(r)].planned = TRUE]
    /\ IF ~record[Existing(r)].planned \/ run[r].found
       THEN run' = [run EXCEPT ![r].at = "execute", ![r].found = FALSE]
       ELSE Dies(r)
    /\ UNCHANGED <<scheduled, chain, payment>>

\* Mutant: the program does not compare the cursor.
ExecuteAnyCursor(r) ==
    /\ Stands(r, "execute")
    /\ \E measured \in BOOLEAN :
           run' = [run EXCEPT ![r].at = "finish",
                              ![r].label = [found |-> TRUE, measured |-> measured,
                                            cursor |-> Batch.cursor,
                                            accounts |-> Batch.accounts]]
    /\ UNCHANGED <<scheduled, chain, record, payment>>

\* execute_decision in shadow: a simulation of the stored message on the chain as it
\* is now, which the program refuses at another cursor than the message's, or an
\* unresolved answer.
ExecuteRow(r) ==
    /\ Stands(r, "execute")
    /\ \E measured \in {FALSE, chain.cursor = record[Existing(r)].input.cursor} :
           run' = [run EXCEPT ![r].at = "finish",
                              ![r].label = [found |-> TRUE, measured |-> measured,
                                            cursor |-> Batch.cursor,
                                            accounts |-> Batch.accounts]]
    /\ UNCHANGED <<scheduled, chain, record, payment>>

\* finish keeps the first label; another one is a conflict.
FinishRow(r) ==
    /\ Stands(r, "finish")
    /\ LET e == Existing(r)
       IN  IF record[e].label = NoLabel
           THEN record' = [record EXCEPT ![e].label = run[r].label] /\ NextRecord(r)
           ELSE Dies(r) /\ UNCHANGED record
    /\ UNCHANGED <<scheduled, chain, payment>>

\* The process dies, or the bridge, the node or the store raises.
Interrupt(r) == /\ ~Stands(r, "idle") /\ ~Stands(r, "ended")
                /\ Dies(r)
                /\ UNCHANGED <<scheduled, chain, record, payment>>

CollectionNext ==
    \E r \in Runs : \/ StartRun(r) \/ TakeQueue(r) \/ Book(r) \/ ReadCursor(r)
                    \/ StepRecovers(r) \/ StepFindsNone(r) \/ PlanPayment(r) \/ SignPayment(r)
                    \/ ExecutePayment(r) \/ CheckCursor(r) \/ LookUp(r) \/ OpenNext(r)
                    \/ Snapshot(r) \/ IngestRow(r) \/ FreezeRow(r) \/ ExecuteRow(r)
                    \/ FinishRow(r) \/ Interrupt(r)

CollectionSpec == CollectionInit /\ [][CollectionNext]_collectionVars

\* The rows that are written: the frozen state with the label of the record.
WrittenRows == {[existing |-> e, state |-> record[e].input, label |-> record[e].label] :
                    e \in {x \in Records : record[x].label # NoLabel}}

(***************************************************************************)
(* Properties.                                                             *)
(***************************************************************************)
\* The demand of a training row was measured in the state the row describes: the
\* batch after the payment made first, with exactly the accounts its identity names.
\* The state is frozen and the measurement taken at different times, by different
\* runs, with other runs opening accounts meanwhile; and two runs that both read a
\* cursor of 0 may both pay, so that the queue moves on under a third.
RowsDescribeTheirLabels ==
    \A row \in WrittenRows :
        /\ row.state.cursor = Base
        /\ row.state.accounts = Base..(Base + row.existing - 1)
        /\ row.label.measured => /\ row.label.accounts = row.state.accounts
                                 /\ row.label.cursor = row.state.cursor
==============================================================================
