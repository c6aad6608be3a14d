--------------------------- MODULE ProfileTraining ----------------------------
(***************************************************************************)
(* From recorded observations to a candidate profile: grouped_split and    *)
(* fit_bundle (examples/payouts/model.py), ResourceEstimator.fit and       *)
(* predict with their validators (src/cu_pilot/resources.py).              *)
(*                                                                         *)
(* Rows arrive in the order of their slots.  The split is frozen before    *)
(* any label is looked at, so the labels are chosen when training reads    *)
(* them.  One cell (batch size and accounts' state) of one message shape   *)
(* is modelled, so support ranges never exclude a row; a snapshot that two *)
(* groups share joins them as a shared queue does.  Slots are 64-bit in    *)
(* the code and bounded here.                                              *)
(***************************************************************************)
EXTENDS Resources, Sequences, FiniteSets, FiniteSetsExt

CONSTANTS
    Groups,         \* queue groups of the collector, numbered as they appear
    QueueOf,        \* the queue each group's rows are about
    Demands,        \* [compute, data] of a successful simulation
    Gaps,           \* slots between a row and the next
    MaxRows,        \* bound on the collection
    Window,         \* independence_window_slots
    MaxAge,         \* max_age_slots
    MinSamples, MinCalibration,     \* evidence windows a prediction needs
    Acceptable      \* <<exceedances, windows>> whose Wilson bound is within the policy

ASSUME GapsAssumption == Gaps \subseteq Nat
ASSUME WindowAssumption == Window \in Nat \ {0}
ASSUME MaxAgeAssumption == MaxAge \in Nat
ASSUME DemandsAssumption == Demands \subseteq [compute : Nat, data : Nat]

VARIABLES
    rows,           \* the observations, by slot
    split,          \* the frozen SplitManifest, or Unsplit
    label,          \* what training reads of each row it may read
    bundle          \* the trained candidate, or Untrained

tvars == <<rows, split, label, bundle>>
Unsplit == [frozen |-> FALSE]
Untrained == [trained |-> FALSE]

\* A label is a demand, or says that the simulation failed or lacked a measurement,
\* or that the profile does not support the accounts' state.
Failed == [compute |-> -1, data |-> -1]
Unsupported == [compute |-> -2, data |-> -2]
Labels == Demands \cup {Failed, Unsupported}
Usable(i) == label[i] \in Demands

SlotOf(i) == rows[i].slot
WindowOf(slot) == slot \div Window
Windows(ids) == {WindowOf(SlotOf(i)) : i \in ids}
First(ids) == Min({SlotOf(i) : i \in ids})
Last(ids) == Max({SlotOf(i) : i \in ids})

(***************************************************************************)
(* grouped_split.                                                          *)
(***************************************************************************)
\* Rows of one group or one queue belong together, through any chain of them.
Related == {p \in (DOMAIN rows) \X (DOMAIN rows) :
                \/ rows[p[1]].group = rows[p[2]].group
                \/ QueueOf[rows[p[1]].group] = QueueOf[rows[p[2]].group]}

\* The classes of S under the chains of a symmetric relation: of each member,
\* what no closed set that has it can leave out.
Closed(c, relation, S) == \A x \in c, y \in S : <<x, y>> \in relation => y \in c
Classes(relation, S) ==
    LET closed == {c \in SUBSET S : Closed(c, relation, S)}
    IN  {{y \in S : \A c \in closed : x \in c => y \in c} : x \in S}
Families == Classes(Related, DOMAIN rows)

\* Mutant: the spans are of slots, not of windows.
OverlapsInSlots == {p \in Families \X Families :
                       First(p[1]) <= Last(p[2]) /\ First(p[2]) <= Last(p[1])}

\* Families whose spans of windows overlap are merged into one block.
Overlaps == {p \in Families \X Families :
                /\ Min(Windows(p[1])) <= Max(Windows(p[2]))
                /\ Min(Windows(p[2])) <= Max(Windows(p[1]))}
Blocks == {UNION chain : chain \in Classes(Overlaps, Families)}

Clamp(low, value, high) == Max({low, Min({high, value})})

\* Mutant: the boundary is the last fitted slot.
LastFitted(fitting, calibrating) == Last(fitting)
BoundarySlot(fitting, calibrating) == First(calibrating)

\* Half of the blocks are fitted, three tenths calibrate, the rest is held out.
FitEnd(n) == Clamp(1, (5 * n) \div 10, n - 2)
CalibrationEnd(n) == Max({FitEnd(n) + 1, Min({n - 1, (8 * n) \div 10})})

\* The rows of the blocks from one place to another, in the order of the blocks.
Rank(b, blocks) == Cardinality({other \in blocks : First(other) < First(b)})
Part(blocks, from, to) == UNION {b \in blocks : from <= Rank(b, blocks) /\ Rank(b, blocks) < to}

Split(blocks) ==
    LET n == Cardinality(blocks)
        fitting == Part(blocks, 0, FitEnd(n))
        calibrating == Part(blocks, FitEnd(n), CalibrationEnd(n))
    IN  [frozen |-> TRUE, fitting |-> fitting, calibrating |-> calibrating,
         heldOut |-> Part(blocks, CalibrationEnd(n), n),
         boundary |-> BoundarySlot(fitting, calibrating)]

(***************************************************************************)
(* ResourceEstimator.fit of the development rows the cell supports.        *)
(***************************************************************************)
Development == split.fitting \cup split.calibrating
Cell == {i \in Development : label[i] # Unsupported}
Earlier == {i \in Cell : SlotOf(i) < split.boundary}
Later == {i \in Cell : SlotOf(i) >= split.boundary}
Divided == Windows(Earlier) \cap Windows(Later) # {}
FittedRows == {i \in Earlier : Usable(i)}

\* The largest demand of each resource in a window.
Peak(ids, w) == LET within == {i \in ids : WindowOf(SlotOf(i)) = w}
                IN  [compute |-> Max({label[i].compute : i \in within}),
                     data |-> Max({label[i].data : i \in within})]

\* The nearest-rank p99 of one number per window.
Quantile(demand, ws) ==
    Min({demand[w] : w \in {v \in ws : 100 * Cardinality({u \in ws : demand[u] <= demand[v]})
                                       >= 99 * Cardinality(ws)}})

\* rounded_limit, a tenth of margin in whole steps.
Rounded(amount, step) == Max({step, ((amount * 11000 + 10000 * step - 1) \div (10000 * step)) * step})

NearLimit(limits) == \/ 10 * limits.compute >= 9 * MaxComputeUnits
                     \/ 10 * (limits.data \div 1024) >= 9 * (MaxLoadedBytes \div 1024)

Limits == LET ws == Windows(FittedRows)
              compute == [w \in ws |-> Peak(FittedRows, w).compute]
              data == [w \in ws |-> Peak(FittedRows, w).data]
          IN  [compute |-> Rounded(Quantile(compute, ws), 100),
               data |-> Rounded(Quantile(data, ws), 1024)]

\* Mutant: late labels count however old the fit is.
AnyLater(limits) == {i \in Later : /\ Usable(i)
                                   /\ ~NearLimit(limits)
                                   /\ Cardinality(Windows(FittedRows)) >= MinSamples}

\* Only rows that a prediction of this fit could still have served calibrate it.
Eligible(limits) == {i \in Later : /\ Usable(i)
                                   /\ ~NearLimit(limits)
                                   /\ Cardinality(Windows(FittedRows)) >= MinSamples
                                   /\ SlotOf(i) - Last(FittedRows) <= MaxAge}

\* The windows of the calibration in which either resource exceeds its limit.
Exceeded(eligible, limits) == {w \in Windows(eligible) :
                                  LET peak == Peak(eligible, w)
                                  IN  peak.compute > limits.compute \/ peak.data > limits.data}

\* The artifact of the cell, from its fitted and its eligible rows.
Trained ==
    LET limits == Limits
        eligible == Eligible(limits)
    IN  [trained |-> TRUE,
         limits |-> limits,
         samples |-> Cardinality(Windows(FittedRows)),
         calibrated |-> Cardinality(Windows(eligible)),
         exceeded |-> Cardinality(Exceeded(eligible, limits)),
         fitSlot |-> Last(FittedRows),
         calibrationSlot |-> IF eligible = {} THEN {} ELSE {First(eligible)},
         patternSlot |-> Last(FittedRows \cup eligible),
         boundary |-> IF Later = {} THEN {} ELSE {split.boundary},
         maxSlot |-> Last(Cell)]

(***************************************************************************)
(* The collection grows, is split and is trained on.                       *)
(***************************************************************************)
TrainingInit == rows = <<>> /\ split = Unsplit /\ label = <<>> /\ bundle = Untrained

Collect(row) == /\ ~split.frozen
                /\ Len(rows) < MaxRows
                /\ row.group <= 1 + Cardinality({rows[i].group : i \in DOMAIN rows})
                /\ IF rows = <<>> THEN TRUE ELSE row.slot - rows[Len(rows)].slot \in Gaps
                /\ rows' = Append(rows, row)
                /\ UNCHANGED <<split, label, bundle>>

\* A collection of fewer than three blocks is refused.
Freeze == /\ ~split.frozen
          /\ LET blocks == Blocks
             IN  Cardinality(blocks) >= 3 /\ split' = Split(blocks)
          /\ UNCHANGED <<rows, label, bundle>>

\* The development labels are read; the held-out ones never are.
Read(labels) == /\ split.frozen
                /\ label = <<>>
                /\ label' = labels
                /\ UNCHANGED <<rows, split, bundle>>

\* fit refuses a boundary that divides a window, and a cell without a usable
\* fitted row.
Train == /\ label # <<>>
         /\ ~bundle.trained
         /\ FittedRows # {}
         /\ ~Divided
         /\ bundle' = Trained
         /\ UNCHANGED <<rows, split, label>>

TrainingNext(candidates) == \/ \E row \in candidates : Collect(row)
                            \/ Freeze
                            \/ split.frozen /\ \E labels \in [Development -> Labels] : Read(labels)
                            \/ Train

\* Any rows may arrive.
TrainingSpec == TrainingInit /\ [][TrainingNext([slot : Nat, group : Groups])]_tvars

\* ResourceEstimator.predict at a slot.
Predicts(slot) ==
    /\ bundle.trained
    /\ slot >= bundle.maxSlot
    /\ slot - bundle.patternSlot <= MaxAge
    /\ bundle.samples >= MinSamples
    /\ bundle.calibrated >= MinCalibration
    /\ <<bundle.exceeded, bundle.calibrated>> \in Acceptable
    /\ ~NearLimit(bundle.limits)

(***************************************************************************)
(* The validators that guard a stored artifact and bundle.                 *)
(***************************************************************************)
ValidStats ==
    /\ bundle.fitSlot <= bundle.patternSlot
    /\ bundle.exceeded <= bundle.calibrated
    /\ \A c \in bundle.calibrationSlot : bundle.fitSlot < c /\ c <= bundle.patternSlot
    /\ (bundle.calibrationSlot = {}) = (bundle.calibrated = 0)

ValidArtifact ==
    /\ bundle.patternSlot <= bundle.maxSlot
    /\ \A b \in bundle.boundary : bundle.fitSlot < b /\ b <= bundle.maxSlot
    /\ \A c \in bundle.calibrationSlot :
         /\ \E b \in bundle.boundary : b <= c
         /\ WindowOf(bundle.fitSlot) < WindowOf(c)

ValidBundle ==
    /\ split.boundary < First(split.heldOut)
    /\ First(Cell) <= bundle.fitSlot
    /\ bundle.maxSlot < First(split.heldOut)
    /\ bundle.fitSlot < split.boundary

(***************************************************************************)
(* Properties.                                                             *)
(***************************************************************************)
\* The three parts of a frozen split share no group, no queue and no evidence
\* window, and follow one another in time, even when queues interleave.
SplitIsLeakProof ==
    split.frozen =>
        \A pair \in {<<split.fitting, split.calibrating>>, <<split.calibrating, split.heldOut>>,
                     <<split.fitting, split.heldOut>>} :
            \A i \in pair[1], j \in pair[2] :
                <<i, j>> \notin Related /\ WindowOf(SlotOf(i)) < WindowOf(SlotOf(j))

\* Training never fails half-way: the boundary the split freezes divides no window
\* of the cell, and the artifact passes the validators of ResourceStats,
\* ResourceArtifact and PayoutModelBundle that guard a stored one.
TrainingIsAccepted ==
    /\ label # <<>> => ~Divided
    /\ bundle.trained => ValidStats /\ ValidArtifact /\ ValidBundle

\* Fitted limits cover the evidence they were fitted to: of a hundred windows one at
\* most has a row that used more of a resource than its limit, although the limit
\* was taken from the peaks of the windows, by rank, and rounded.
LimitsCoverFitted ==
    bundle.trained =>
        \A resource \in {"compute", "data"} :
            LET above == {i \in FittedRows : label[i][resource] > bundle.limits[resource]}
            IN  100 * Cardinality(Windows(above)) <= Cardinality(Windows(FittedRows))

\* A prediction is anchored to fitted evidence: no amount of later calibration
\* keeps limits in use beyond two ages of their last fitted row, and nothing is
\* predicted for a slot that the cell's own evidence has already passed.
PredictionsAreAnchored ==
    bundle.trained =>
        \A slot \in 0..(2 * MaxAge + SlotOf(Len(rows)) + 1) : Predicts(slot) =>
            /\ slot - Last({i \in split.fitting : Usable(i)}) <= 2 * MaxAge
            /\ \A i \in Development : Usable(i) => SlotOf(i) <= slot
==============================================================================
