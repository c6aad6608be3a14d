# A verification project for CU Pilot

CU Pilot predicts the resources a Solana transaction needs from measured
evidence, releases such predictions under a lifecycle that can withdraw them,
and falls back to simulation. Its reference application pays approved queues of
token payments through an on-chain program with a crash-tolerant worker.

This directory holds TLA+ models of that code, TLC configurations that check
them on small instances, and TLAPS proofs for all values of the constants.
`PROJECT.json` maps every definition to source lines and lists the hazards.

To use it:

    tlc -config MCProfileRegistry.cfg MCProfileRegistry.tla
    tlapm ProfileRegistryProofs.tla

## 1. The system

| Component | Source | State | Operations | Module |
|---|---|---|---|---|
| Profile registry | `src/cu_pilot/lifecycle.py` | SQLite tables `profiles`, `active`, `evidence`, `audit`, `controls`, `executions`, `quarantine`, `settings` | register, transition, activate, rollback, suspend, check, revision_risk, record_deployments, watcher_failed, force_simulation, select_control, record_control, record_execution | `ProfileRegistry` |
| Deployment watcher | `lifecycle.py` refresh_deployments, deployment_identity | none of its own | two account reads at one slot, then a record or a failure | `DeploymentWatcher` |
| Estimation pipeline | `src/cu_pilot/integration.py` | none; plans and decisions are values | prepare_decision, execute_decision, record_control_outcome, estimate_resources | `Estimation` |
| Observation store | `src/cu_pilot/shadow.py` | `observations`, `signatures`, `outcomes`, `checkpoints` | ingest, freeze_plan, finish, attach_signature, reconcile, collect_shadow | `ShadowCollection`, `OutcomeReconciliation` |
| On-chain payout program | `programs/payout_queue/src/lib.rs` | one account and one vault per queue | create_queue, execute_batch, set_paused, refund | `PayoutQueue` |
| Payout worker | `examples/payouts/app.py` | `payout_steps`, `payout_settings`, on top of store and registry | step, reconcile_pending, collect, the adaptive selection; run, qualify | `PayoutExecutor`, `AdaptiveSelection`, `PayoutCollection` |
| Bridge to the local chain | `apps/payout-demo/bridge.mjs` | the emulated chain | verify, snapshot, candidates, sign, submit, transaction, fixtures | in `PayoutExecutor` |
| Demo server | `examples/payouts/server.py` | one lock, one stop event, the worker's record | start, stop, step; create, pause, ata, drafts | `PayoutServer` |
| TypeScript control journal | `typescript/src/control-store.ts` | an append-only file and its replay | refresh, ingest, append, recover, isSuspended | `ControlRecords`, `ControlJournal` |
| TypeScript runtime | `typescript/src/runtime.ts` | none | releaseRisk, simulate, estimateResources | `DecisionRuntime` |
| RPC client | `src/cu_pilot/rpc.py` | rate limit, counters | bounded retries, validated answers | `RpcClient` |
| Artifacts and estimators | `resources.py`, `estimator.py` | immutable artifacts | fit, predict, limits | `Resources`, `ProfileTraining` |
| Payout statistics | `model.py`, `planning.py`, `baselines.py` | artifacts | grouped_split, fit_bundle, eligible counts; baselines | `ProfileTraining`, `AdaptiveSelection` |
| Binding and parsing | `binding.py`, `parsing.py`, `message.ts`, ... | none | decode, normalise, bind | not modelled |
| Command lines, API, benchmarks | the rest | reports | printing and measuring | not modelled |

How they interact. Every estimation reads the registry (`check`), draws a
control (`select_control`) and later reports what happened (`record_control`,
`record_execution`); those reports can withdraw the artifact that other
processes are using. The watcher and operators write to the same database from
processes of their own. Collectors freeze plans and labels in the observation
store, and reconcilers report the fate of sent transactions from it. The worker
reads the chain through the bridge, plans, journals the signed bytes, sends, and
reconciles; the chain, the queue's owner, depositors and recipients move between
its reads. In TypeScript the registry's release arrives as an object the
application refreshes, and the controls live in a journal file.

What is hard. Registry and store methods are transactions, but sequences of
them are not: a late conviction, an alias of a quarantined artifact, a plan
frozen after the label, a half-refreshed watcher all come from the order of
calls. Collectors, callers and the worker are cut by crashes between any two
commits. A file write may be torn, or fail after it happened. The release a
TypeScript decision rests on changes at every `await`. The network loses,
delays and duplicates. Training splits data that interleaves in time.

What makes each correct:

* registry: nothing withdrawn is ever granted again, under any revision number;
  a grant rests on current evidence;
* watcher: cached evidence is code that was executed, whatever upgrade falls
  between the reads;
* pipeline: a prediction replaces a simulation only if the registry would grant
  it, and a selected control is simulated and counted;
* store: evidence and finalised outcomes are final, and the registry hears of
  all the store holds and of nothing else;
* journal: what was appended replays, and every instance answers by it;
* runtime: an excess is on record before its caller knows, and a prediction
  answers only for the standing decision;
* program: the approved amounts, in order, each once; no token lost;
* worker: no payment signed twice, no payment unaccounted for, and everything
  signed is settled when the network allows it;
* server: one stepper, stops that are honoured, runs that end;
* training: splits without leaks, limits that cover, labels that belong to
  their rows.

## 2. Modules

### The Python library

`ReleaseGate` - abstract: one released artifact, a growing set of rejected
ones, and never both.

`ProfileRegistry` - the registry for one profile id. Each table is a variable
and each writing method one action, because each is one `BEGIN IMMEDIATE`
transaction; a method that raises is no step. `Withdraw` is `_suspend`, which
five methods call. `Eligible`, `CheckWithdraws` and `Permitted` are the answers
of `check` and `revision_risk`. Of the audit only the highest slot of a
`suspend` row is kept, since only that is read back. A fingerprint hashes the
deployment slot, so `Deployed` is a function of it. The wall-clock bound on
evidence moves with the slot bound and is left out.

`DeploymentWatcher` - watchers over `ProfileRegistry` and a chain. `history` is
the fingerprint of every program at every slot. `ReadPrograms`,
`ReadProgramData`, then `Record` (which is `RecordDeployments`) or `Refuse`;
`Raise` and `Signal` are an exception and its `watcher_failed`; `Crash` is the
death of the process, which signals nothing. A node answers from any slot it
still has, not older than was asked for.

`Estimation` - callers over `ProfileRegistry`, one registry transaction per
action: `PrepareCheck`, `PrepareSelect`, `ExecuteCheck`, `LoadActive`,
`Compare`, `Simulate`, `RecordUsable`, `Record`. Everything the registry module
lets others do happens between them. `caller` holds what a plan holds.

`ShadowCollection` - `collect_shadow`. Each store method is an action; `row` is
the observation row with its trace. Plans and results are new objects each time
they are made, known by a serial number, so a second simulation is visible.

`OutcomeReconciliation` - extends it with `attach_signature` and `reconcile`,
which reads the latest outcome, reports to the registry and inserts, in three
steps.

`RpcClient`, `Resources` - a call as a bounded loop of posted requests, and the
padded, paged limits of a measurement against the two ceilings.

`ProfileTraining` - rows arrive in time, the split is frozen (`Freeze`,
`grouped_split`), labels are read, `Trained` is `fit_bundle` with
`ResourceEstimator.fit`, and `ValidStats`, `ValidArtifact` and `ValidBundle` are
the validators of what is stored. `Predicts` is the answer of `predict`. One
cell of one message shape is modelled. The Wilson bound is the set `Acceptable`
of pairs it accepts. Each group has one queue here, which others may share; the
collection gives a group eight (model.py 296-306), so groups chained through
different queues are not modelled.

### TypeScript

`ControlGate` - abstract: every release is admitted until one is blamed, then
none is until an unblamed one is recovered, and then that one alone.

`ControlRecords` - the memory of one store and what a record does to it:
`Accepts` is the validation against what is held, `Apply` the effect.

`ControlJournal` - `FileControlStore` instances of one process over one file.
A call is synchronous, so other instances wait, but it ingests line by line and
may throw in the middle: `IngestLine`, `Refused`, `Write`, `WriteFails` (with
a part or all of the line in the file; when nothing got there the call is a
refused one), `Return`, `Crash`.

`DecisionRuntime` - `estimateResources`. The code between two awaits is one
action: `Start`, `Persist`, `Recheck`, `Observe` with retries and back-off,
`Reply`, `Report`. `Refresh`, `Recover` and `Tick` are the application, the
operator and the clock.

### The payout application

`PayoutLedger` - abstract: obligations met in order, each once; complete when
all are; refunded at most once.

`PayoutQueue` - the program for one queue address. Instructions are atomic.
Terms are recipients with running totals, so a batch's sum is a difference.
Deposits, account creation by others and the clock are external actions. A
recipient's balance counts only what the vault paid it.

`PayoutExecutor` - the worker for one queue, composed with `PayoutQueue` and a
network. `pc` says where `step` or `reconcile_pending` stands; each action is
one chain read, one journal commit or one send, so everything else interleaves
between them.

| action | `app.py` |
|---|---|
| Begin | 845, 563-569: the oldest signed or uncertain row |
| Inspect | 848-877: verify, stop conditions, attempt limit, recovery |
| Plan, NoCandidate | 878-1089: candidates and their estimates |
| Sign | 1155-1222: journal, snapshot again, sign, journal the bytes |
| Send, Sent, Record, Fail | 1230-1298 |
| Lookup, Judge, Resend | 570-655: the outcome, verification, a rebroadcast |

`Crash` ends a step anywhere and stands for every raised error too. A pending
row's transaction may be in flight, landed or lost; `Deliver` executes it on
the queue, exhausts its budget or rejects it; other failures of a batch that
could be executed are rejections too. The payer's allowance, the
profile check and the deployment check before signing can only end a step,
which `Crash` already does.

`AdaptiveSelection` - what `Plan` abstracts: one bounded decision per candidate
batch, largest first, over `RpcClient`. `Probe`, `SlotRead`, `Execute`,
`Simulated`, `Finish`, `Record`, `Judge`.

`PayoutServer` - handler threads, the worker thread, the lock and the stop
event, composed with `AdaptiveSelection` for the step in progress.

`PayoutCollection` - `Application.collect`: runs that open recipients' accounts
one by one and freeze, simulate and store the same batch in each state. Nothing
keeps two runs apart. They meet in the store, in `payout_steps` and on the chain.

| action | code |
|---|---|
| StartRun, TakeQueue, Book, ReadCursor | app.py 366-393, bridge.mjs 111-139 |
| StepRecovers, StepFindsNone, PlanPayment, SignPayment | `step` and `reconcile_pending`, for runs that read a cursor of 0 |
| ExecutePayment | `execute_batch` (lib.rs 385-492), which refuses another cursor than the one signed for |
| CheckCursor | app.py 394-397 |
| LookUp, OpenNext, Snapshot, IngestRow, FreezeRow, ExecuteRow, FinishRow | app.py 398-455, the bridge's snapshot (bridge.mjs 141-161) |

The paying step is a read, a step with a read of its own, and a read. Two runs
that both find 0 may both pay: the second plans at cursor 1, as the queue has
it by then. The cursor is 2, the second run raises at 396, and a third may have
opened an account in between. From then on the bridge refuses every
snapshot (`cursor+count>q.length`, bridge.mjs 144), the program fails every
simulation of a row frozen before ("Expected-cursor enforcement rejects stale
concurrent decisions", docs/payouts.md 304), and the queue yields no row with a
measurement any more: rows may be lost, but not wrong. The verification of
`step` (848) and the candidate's snapshot are one read here; a payment between
them has the effect of one before both, except that the run then raises at 1264
instead of 396. Queues of sixteen payments that need no first payment differ
only in having more room behind the batch. A `collection_schedule` entry may be
lost when another run writes back an older schedule; the next run then takes the
queue again by its identity.

`MC*.tla` with the `.cfg` files give the constants. `*Proofs.tla` hold the
theorems. Operators marked "Mutant" in a comment are plausible bugs of the
definition below them; no specification uses them. Each was tried in the place
of that definition, and the property it is for was then violated.

## 3. Runs

| Run | Question | Instance | States |
|---|---|---|---|
| profile_registry | does any order of transactions let a withdrawn artifact back? | 2 revisions, 2 artifacts, 3 manifests, 1 program with 2 deployments, 2 slots; releases with one control and one execution, or one revision with 3 controls and limit 2 | 994,950 |
| deployment_watcher | is cached evidence true across upgrades, lag, failures and deaths? | 2 watchers, an upgradeable and a native program, 4 slots | 188,344 |
| registry_recovery | a violation, see below | 2 revisions, no controls | |
| payout_queue | two scenarios: are the terms paid exactly, and is a label of the state its row describes? | 3, 11 and 16 payments, refused submissions, deposits, pauses, three instants around the expiry (5,928 states); 3 overlapping runs of the collection, 2 recipients, with and without a first payment | 1,536,857 |
| payout_executor | do journal and chain agree under any fault? | 3 payments, any number of faults, 2 attempts | 1,165,240 |
| executor_liveness | is everything signed settled? | 2 payments, 2 faults | 152,732 |
| control_journal | what survives torn lines and failing writes? | 2 instances, 2 releases, 3 ids, 6 lines | 213,119 |
| decision_runtime | what may change at an await? | 2 estimates, 3 snapshots, 2 attempts, 2 ticks | 407,466 |
| estimation | what may change between registry transactions? | 2 callers, 2 revisions, 1 shared id | 879,510 |
| observation_store | is evidence final, and is it reported? | 2 collectors with 2 streams and 3 starts, or 2 reconcilers with 2 signatures and 5 calls | 413,038 |
| shadow_restart | a violation, see below | as observation_store | |
| payout_application | two scenarios: server, trainer | 2 handlers, 2 steps, 2 requests per call; 5 rows of 4 groups | 228,919 |

What they show, besides that the types are kept:

* *profile_registry*: `ExcessQuarantines`, `DeteriorationQuarantines` - every
  conviction reaches the quarantine; `EligibleIsSound`, `PermittedIsNewer` -
  what a grant rests on; `GateSpec` - the refinement of `ReleaseGate`.
* *deployment_watcher*: `EvidenceWasExecuted` - no evidence mixes the two sides
  of an upgrade; `GrantsSeeTheChain` - a grant rests on programs unchanged since
  the calibration; `RecoveryIsCoherent` - only one batch with all that is cached
  ends a failure.
* *control_journal*: `JournalReplays` - a new instance accepts whatever was
  appended; `AnswersAreCurrent` - isSuspended says what the whole file says, by a
  definition that does not replay it; `DecisionsAreAdmitted`, `OneLinePerRecord`;
  `GateSpec` - the refinement of `ControlGate`.
* *decision_runtime*: `PredictionsAreCurrent`, `ExcessIsRecordedFirst`,
  `EstimatesEnd`.
* *estimation*: `SkipsAreCurrent` - a simulation is skipped only on a standing
  artifact; `SelectedControlsCount` - a drawn control is simulated, recorded and
  counted.
* *observation_store*: `EvidenceIsFinal`, `FinalityStands` - nothing replaces the
  first label or a finalised outcome; `StoreIsAhead`, `PassedIsAudited`,
  `OutcomesAreReported` - the registry hears of everything, after the store.
* *payout_queue*: `PaidExactly`, `OwnerMadeWhole`, `LedgerSpec`;
  `RowsDescribeTheirLabels` - what a row was labelled with was measured at the
  cursor and the accounts it was frozen with, after exactly one first payment,
  whatever other runs pay or open.
* *payout_executor*: `OneInFlight`, `BooksComplete`, `SimulatesAfterExhaustion`;
  *executor_liveness*: `SignaturesSettle`, `WorkerFinishes`.
* *payout_application*: `LargestVerified` - a smaller batch is chosen only past
  larger ones measured too large; `LimitsCover` - a signed limit covers what was
  measured; `OneStepper`, `StopIsHonoured`, `RunsEnd`;
  `SplitIsLeakProof`, `TrainingIsAccepted`, `PredictionsAreAnchored`.

Why these bounds. Two revisions suffice for an alias, a rollback and a recovery;
two artifacts whose calibrations lie before and after an upgrade exercise every
comparison of slots in both directions. The streak needs more controls than its
limit, and only that: it has its own scenario. Four slots are one before, one
of, and two after an upgrade, the least for a reading that lags behind both.
Two estimates, callers, collectors or reconcilers race in every way that pairs
can; three starts are a crash and a restart beside a running one. Three runs of
the collection are two that both pay and one that collects meanwhile or after;
a run that is resumed is another run, so none needs a restart. Six lines hold
a decision, its outcomes, a recovery and what comes after it. Five rows of four
groups fill the three parts of a split with two groups that share a queue. The
measured demands lie exactly at and one unit beyond the policy. Sixteen payments
reach the program's own limits, eleven a tail that is not on the menu, three
every interleaving. In the worker, journal rows are bounded by
`MaxPayments + MaxAttempts`, so the model puts no bound of its own on the
journal. `MaxTime` stops the clock after the last expiry, when nothing depends
on it any more. The scenarios of a run share no state; `scenario` and `process`
choose one at the start. Symmetry is used where no liveness is checked.

`CHECK_DEADLOCK FALSE` is set where the system really stops: a finished queue, a
finished training, callers, collectors, collection runs and estimates that have
all ended at their bounds.

### Fairness

`PayoutExecutor.FairSpec`: `WF(Step)`, somebody calls `step` again, as `run`,
the server's worker and operators do; `WF(Deliveries)`, what the network
accepted is executed, which commitment levels promise while blockhashes are
valid. Faults are then limited to `MaxFaults = 2 = MAX_ATTEMPTS`. This is tight:
with three lost copies a row stays uncertain until the owner's refund, and
`reconcile_pending` says so by pausing ("uncertain signature; worker paused").
Likewise an expired blockhash or a deposit into the vault stops the worker for
good; the liveness run excludes both, the safety run includes both.

More stops the worker for good, whoever calls `step` again: a recipient that
spends its tokens, since the bridge's `correct` compares balances (bridge.mjs
184) where `Correct` compares what the vault paid; no candidate that fits the
caps (app.py 821, 1083-1084) or an unsupported account among the recipients
(728-730); a spent SOL allowance (859-860). In the model these are a `Crash`
among others: the safety run allows any number of those, the liveness run
`MaxFaults`. So `SignaturesSettle` and `WorkerFinishes` say nothing of a queue
on which one of them has come to stay.

`DecisionRuntime.FairSpec`: `WF` of each estimate's next continuation. The event
loop resumes every settled await, requests carry a timeout and delays end.

`PayoutServer.ServerFairness`: threads are scheduled and requests to the node
time out. `RunsEnd` then needs no stop request and no co-operative node.

### The violations

*registry_recovery.* `docs/lifecycle.md` (37-39) says that recovery means
"fitting a new revision whose calibration begins after the latest suspension
slot". `register` (328-338) enforces it against `profiles.suspended_slot`, which
`_suspend` (577-582) leaves unset for a retired row. Retire a revision, let a
late execution or an operator suspend it, and a revision calibrated before that
suspension is admitted (and can be activated). `revision_risk` (734-746) knows
this case and reads the audit instead. `RecoveryEvidenceIsNewer` states the
documented rule. What still holds is proved: the suspended artifact itself stays
quarantined.

*shadow_restart.* `docs/lifecycle.md` (171-172) says that a "Shadow restart
reuses the frozen evidence, including observation slot and elapsed time, so
replay neither repeats the simulation nor increments its failure streak".
`freeze_plan` (shadow.py 195-198) asks only whether there is a plan. If one
collector prepares a plan while another, which could not, completes the
observation with the fallback, the freeze moves the complete row back to
`planned`. Every later collector simulates it again (536-558) and then fails in
`finish` with a conflict (215-217), for ever. `RestartReusesEvidence` states the
documented rule. The label itself is safe: `EvidenceIsFinal` holds.

Two more observations are no violations. A release withdrawn between `check` and
`select_control` (integration.py 250) gives the caller an unresolved answer, not
a simulation. A selected control answered at a slot older than its decision
(runtime.ts 349) becomes a failed outcome that the store refuses as too old, so
it never counts.

## 4. Proofs

`ProfileRegistryProofs` proves for any numbers of revisions, artifacts,
programs, slots, controls and executions, from `RegistryAssumption` alone:
`TypeCorrect`, `TablesCorrect`, `OneReleaseCorrect`, `ExcessCorrect`,
`EligibleCorrect`, `PermittedCorrect`, `WithdrawalCorrect` and `ImplementsGate`.
The inductive invariant `IInv` joins the type invariant, `TablesAgree`,
`OneRelease`, `ExcessQuarantines` and what they need of each other: a conviction
is stable only because the revision it names stays registered with the same
manifest, and `Withdraw` covers it only because a retired row still gets its
artifact quarantined. `WithdrawFact` says once what `_suspend` does; each action
has a lemma. The refinement splits a step by what it does to the released
artifact: nothing, release, rejection or retirement. `TablesAgree`, `OneRelease`
and `WithdrawalIsFinal` are no longer in a run, since they are proved.

It also proves `RecoveryCoherent`, and `DeteriorationCorrect` on top of `IInv`.
The latter counts records, the code counts in a column; `StreakCounts` says that
while no outcome was complete the column is the cardinality of the records, and
at the limit the artifact is quarantined. It needs no bound on the controls: the
set of those heard is finite because each step adds one.

`DeploymentWatcherProofs` proves `WatchedRegistry` (the registry among watchers
and upgrades is `ProfileRegistry`, so all of the above holds there too),
`EvidenceCorrect` and `GrantsCorrect` for any programs, upgrades and watchers.
`WatchInv` adds to `IInv` that a fingerprint which differs from an earlier one
of its program was deployed since then (`Dated`), that cached evidence was on
the chain at its slot and deployed before it, and that the readings of a
watcher between its steps are the chain's at their own slots. So
`WatchersKeepGate`: no upgrade and no refresh breaks the release gate. The proof needed
one assumption the model had not stated: the last slot is one of `Slots`.

`PayoutExecutorProofs` first proves about the queue, for any terms, menu, limits
and deposits, from `QueueAssumption`: `TypeCorrect`, `LoadableCorrect`,
`PaidExactlyCorrect`, `SolventCorrect`, `CompleteCorrect`,
`OwnerMadeWholeCorrect`, `TombstoneCorrect` and `ImplementsLedger`. The
invariant needs that the terms on the account were validated (distinct
recipients, positive amounts) and, for solvency, that the vault holds at least
what is still owed: `terms.due` makes both sums differences, so no induction
over the payments is needed. `MetFact` gives the refinement mapping its value,
`1..cursor`.

It then proves `OneInFlightCorrect`, `BooksCorrect` and `SimulationCorrect` of
the worker's `SystemSpec`, for any terms, limits, faults and interleaving, and
`SystemImplementsQueue`: the chain under the worker is `PayoutQueue`, so that
`PaidOnce` follows from the queue's theorem. Everything rests on one fact: only
the last row of the journal can be pending and only it can be in flight. Hence
nobody but the worker moves the cursor while it plans or signs, what it read
stays true, and a settled row can no longer change. `JournalIsKeptCorrect` says
so of every step: no row is removed or rewritten, none is opened again, and an
outcome is final. `SystemImplementsLedger` carries the ledger over to the queue
under the worker. `SignaturesBoundedCorrect` counts what a queue can cost: at most
`MaxPayments + MaxAttempts` rows are ever signed, because a finalized row moved
the cursor and any other settled row is one of the failures that `step` counts
before it plans again, over any crashes and losses.

`PayoutApplicationProofs` proves `OneStepperCorrect` and `StopCorrect` of
`ServerSpec`, for any number of threads and any length of a run. Being in a step
is not inductive; holding the record is: at most one thread is anywhere between
the lock and the release, and the record is taken while it is. The selection of
a batch only stutters here, so nothing is assumed of the node. The specification
of the run conjoins fairness and the other scenarios to `ServerSpec`.

It also proves `LargestVerifiedCorrect` and `LimitsCoverCorrect`, for any queue,
caps, demands and predictions. `SelInv` says that every larger candidate is
malformed or has a demand on record that is too large (`Descends`), that the one
on trial has no demand before its simulation, and that afterwards the trial is
what that one demand leads to (`TrialOK`). That limits above a cap mean a demand
that is too large is arithmetic with padding, hundreds and pages
(`MeasuredCovers`). It does not hold for a cap below one hundred units or one
page, which no padded limit can meet whatever the demand; trying to prove it
showed that, and `TooLarge` says so now. Likewise fitted limits are positive, as
their validator demands (resources.py 84-85).

`SelectionAdvancesCorrect` is the safety half of `RunsEnd`: with at most
`4 * Attempts + 7` steps left to decide about a candidate, every step of a selection
goes on to a smaller batch of the menu or lowers that number. It needs that the
call belongs to the selection and the selection to a thread inside its step
(`CallInv`), hence `OneStepper`'s invariant: a thread that ends its step never drops
the call of another.

Then it proves `RowsCorrect` of `CollectionSpec`, for any number of recipients
and of overlapping and failed runs, those included that pay more than once.
While the cursor is at its base, two facts meet in the middle: an observation
without a label bounds the open accounts from above (nobody goes on before it
has one), and a run that works on an observation bounds them from below (it
opened them). Whatever was read or measured between the two, and is still
wanted, was read at exactly the accounts of its observation. Beyond the base
there is no snapshot and no measurement, so what is stored by then stays true
and nothing is added but labels without one. Before the base nobody
works on an observation, and the first payment opens no account of the batch.

Finally it proves `SplitCorrect`, `TrainingCorrect`, `AnchorCorrect` and
`CoverCorrect` of `TrainingSpec`, for any rows, groups, queues, gaps and labels. Families whose
windows overlap are chained into blocks; two chains lie one wholly before the
other (`ChainsApart`), so the order of the blocks by first slot is that of their
windows, and their ranks fill `0..n-1`: by counting, no rank can be missing
(`PartFact`), hence no part is empty. From there each clause of the validators
compares the extremes of two sets of rows (`ExtremesFact`). `MaxAge` is assumed
to be a natural number, as a `PortableSlot` is. That limits cover what they were
fitted to needs only that the nearest rank has ninety-nine hundredths of the
windows at or below it (`QuantileFact`) and that rounding never lowers an amount
(`RoundedFact`). `LimitsCoverFitted` is in no run: with the few windows a run can
have, the quantile is the largest peak, and only the theorem reaches the rank.

`ObservationStoreProofs` proves `StoreIsAheadCorrect`, `PassedIsAuditedCorrect`
and `EvidenceIsFinalCorrect` for any collectors, streams and crashes, and, with
`ReconcilingCollects` (the collectors beside reconcilers are the same
collectors), `OutcomesAreReportedCorrect` and `FinalityStandsCorrect`. What the
store has of an observation only grows, so what a collector read of it is still
so when it is used; `StoreInv` says for each step a collector can stand at what
it has read, and what the requests it passed have left in the store. It is
assumed that a stream is a sequence and that no input is the empty one.

`ControlJournalProofs` proves `OneLineCorrect`, `DecisionsCorrect`,
`ReplayCorrect`, `AnswersCorrect` and `JournalImplementsGate` for any releases,
instances, payloads and length. An instance's maps are what a prefix of the
lines says, read as a whole (`Mirror`, which does not replay). A call that
throws half way, or ingests lines again, leaves them the maps of the same or a
longer prefix, because a line it has is held already. The maps an append is
judged by are those of all the lines, so each line fits those before it
(`JournalOK`), and then every reader accepts it.

`EstimationProofs` proves `SkipsAreCurrentCorrect` and
`SelectedControlsCorrect` of `ESpec`, from the registry's initial state and for
any callers, ids and revisions, and `EstimatedRegistry`: the registry among its
callers is `ProfileRegistry`, so its theorems hold there too. A caller holds what
it read across transactions of others, so `EInv` adds to `IInv` what each phase
of a call may still rely on (`Sound`), all of it of a kind that no transaction
takes back (`Kept`): a drawn selection, a recorded outcome, a quarantine.
`EstimationKeepsGate` is the release gate among the callers. The run
starts from a registry with a released revision, which keeps it small; the
theorem covers that history as well.

`DecisionRuntimeProofs` proves `ExcessIsRecordedCorrect` and
`PredictionsCorrect` of `DecisionRuntime`, for any estimates, snapshots, refreshes
and recoveries. `RInv` says that what the store holds under an id is what that
id's estimate froze, past its first await (`DecisionsOK`), that every excess in
it has moved the rejected slot of its release to its own slot or later
(`OutcomesOK`), and that an estimate about to recheck has its decision in the
store (`FrozenOK`). A rejection only moves on, so a recovery of another release
never admits a convicted one again, and a release that passes the recheck has no
excess in the store (`AdmittedIsUnconvicted`). Ids are fresh (randomUUID): each
belongs to one estimate.

`RuntimeImplementsGate` shows that the runtime's store implements `ControlGate`, the
specification the journal implements as well: what concurrent estimates report
blames a release for good until a newer recovery, in whatever order they are heard.
`EstimatesAdvanceCorrect` is the safety half of `EstimatesEnd`: an estimate has at
most `2 * MaxAttempts + 3` steps left, and each of its own takes one away; a failed
recheck costs an attempt, and no other estimate, refresh or recovery gives it back.

Only model-checked: that things eventually happen (`SignaturesSettle`,
`WorkerFinishes`, `EstimatesEnd`, `RunsEnd`), since fairness and `ENABLED` are beyond
the prover; the two ranks above are the part of it that is proved. Every
invariant, action property and refinement that a passing run checks is proved. No module uses a `RECURSIVE`
operator.

## 5. Not modelled, and the plan

To model next: the server's create, pause and ata handlers, and a command line
worker beside the server's on one journal.

Left out for good: byte-level encoding and parsing (a transaction is an
identity), signature cryptography, feature extraction, the first-generation
`PatternEstimator`, bundle qualification and the fixed baselines (statistics
over finished artifacts), the RPC client's rate limit and cancellation (they
only delay or end a call, which a refused call already does), exports and the
state page (they only read), argument parsing, presentation and benchmarks.
They keep no state that the others depend on, or say nothing a state machine
would express.
