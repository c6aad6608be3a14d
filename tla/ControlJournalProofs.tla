------------------------- MODULE ControlJournalProofs --------------------------
(***************************************************************************)
(* The journal and its readers (typescript/src/control-store.ts), for any  *)
(* releases, instances, payloads and length.                               *)
(*                                                                         *)
(* The argument: an instance's maps are what a prefix of the lines says,   *)
(* read as a whole.  A call that throws half way or ingests lines again    *)
(* leaves them the maps of the same or a longer prefix, because a line it  *)
(* has is held already.  The maps an append is judged by are those of all  *)
(* the lines, so each line fits those before it, and then every reader     *)
(* accepts it.                                                             *)
(***************************************************************************)
EXTENDS ControlJournal, FiniteSetTheorems, TLAPS

MapTypes == [decisions : SUBSET Decisions, outcomes : SUBSET OutcomeRecords,
             recoveries : SUBSET Recoveries,
             rejected : [Releases -> Slots \cup {NoSlot}],
             recovered : Releases \cup {NoRelease},
             streak : [Releases -> Nat], policy : [Releases -> Limits \cup {NoLimit}]]

Releasing == {"decision", "recovery"}

\* A decision that an outcome may be about.
Decides(d, o) == /\ d.kind = "decision" /\ d.id = o.id /\ d.selected
                 /\ o.slot = NoSlot \/ o.slot >= d.slot

\* A record that fits the first n lines.
Fits(e, n) ==
    /\ \A j \in 1..n : lines[j].kind = e.kind => lines[j].id # e.id
    /\ e.kind \in Releasing =>
           \A j \in 1..n : lines[j].kind \in Releasing /\ lines[j].release = e.release =>
                               lines[j].limit = e.limit
    /\ e.kind = "decision" => e.release \in AdmittedUpTo(n)
    /\ e.kind = "outcome" => \E j \in 1..n : Decides(lines[j], e)
    /\ e.kind = "recovery" =>
           /\ ConvictionsUpTo(n) # {}
           /\ \A k \in ConvictionsUpTo(n) :
                  /\ e.release.revision > ReleaseAt(k).revision
                  /\ e.release.digest # ReleaseAt(k).digest
                  /\ Calibration[e.release.digest] > Slot(k)

JournalOK == /\ lines \in Seq(Records)
             /\ Len(lines) <= MaxLines
             /\ \A k \in 1..Len(lines) : Fits(lines[k], k - 1)

\* The controls of a release since its last measured one, in the first n lines.
Run(r, n) == {j \in 1..n : /\ IsOutcome(j) /\ ReleaseAt(j) = r
                           /\ \A x \in j..n : IsOutcome(x) /\ ReleaseAt(x) = r
                                                  => ~Measured(lines[x].result)}
\* The recoveries that stand after the first n lines.
RecoveredUpTo(n) ==
    {ReleaseAt(k) : k \in {j \in 1..n :
        /\ lines[j].kind = "recovery"
        /\ \A x \in (j + 1)..n : lines[x].kind # "recovery" /\ ~Convicts(x)}}

\* What each map says of the first n lines.
Holds(mem, n) ==
    /\ mem.decisions = {lines[k] : k \in {j \in 1..n : lines[j].kind = "decision"}}
    /\ mem.outcomes = {lines[k] : k \in {j \in 1..n : lines[j].kind = "outcome"}}
    /\ mem.recoveries = {lines[k] : k \in {j \in 1..n : lines[j].kind = "recovery"}}
Rejects(mem, n, r) ==
    /\ mem.rejected[r] # NoSlot =>
           \E k \in ConvictionsUpTo(n) : ReleaseAt(k) = r /\ Slot(k) = mem.rejected[r]
    /\ \A k \in ConvictionsUpTo(n) : ReleaseAt(k) = r => mem.rejected[r] >= Slot(k)
Limited(mem, n, r) ==
    /\ mem.policy[r] # NoLimit =>
           \E j \in 1..n : /\ lines[j].kind \in Releasing /\ lines[j].release = r
                           /\ lines[j].limit = mem.policy[r]
    /\ \A j \in 1..n : lines[j].kind \in Releasing /\ lines[j].release = r =>
           mem.policy[r] = lines[j].limit
Recovers(mem, n) ==
    /\ {mem.recovered} \ {NoRelease} = RecoveredUpTo(n)
    /\ mem.recovered # NoRelease =>
           ConvictionsUpTo(n) # {} /\ mem.rejected[mem.recovered] = NoSlot

\* The maps are what the first n lines say.
Mirrors(mem, n) ==
    /\ mem \in MapTypes
    /\ Holds(mem, n)
    /\ \A r \in Releases : /\ Rejects(mem, n, r)
                           /\ mem.streak[r] = Cardinality(Run(r, n))
                           /\ Limited(mem, n, r)
    /\ Recovers(mem, n)

CallOK == \/ call = Idle
          \/ /\ call \in Calls /\ call # Idle
             /\ Me \in open
             /\ call.at <= Len(lines)
             /\ call.entry = Opening => consumed[Me] = 0

\* An instance has read some prefix, at least what it has consumed and what
\* the call it is in has come to.
InstanceOK(i) ==
    /\ \E n \in 0..Len(lines) : /\ consumed[i] <= n /\ Mirrors(memory[i], n)
                                /\ Busy /\ Me = i => call.at <= n
    /\ i \notin open => memory[i] = EmptyMemory /\ consumed[i] = 0

JournalInv == /\ JournalOK /\ CallOK
              /\ open \subseteq Instances
              /\ consumed \in [Instances -> Nat]
              /\ memory \in [Instances -> MapTypes]
              /\ \A i \in Instances : InstanceOK(i)

-----------------------------------------------------------------------------
(* What a line is, and what it says of earlier ones.                       *)

LEMMA RecordTypes ==
    ASSUME NEW e \in Records
    PROVE  /\ e.kind \in {"decision", "outcome", "recovery"}
           /\ e.kind = "decision" => e \in Decisions
           /\ e.kind = "outcome" => e \in OutcomeRecords
           /\ e.kind = "recovery" => e \in Recoveries
           /\ e # Query /\ e # Opening
<1>1. CASE e \in Decisions
    BY <1>1 DEF Decisions, Query, Opening
<1>2. CASE e \in OutcomeRecords
    BY <1>2 DEF OutcomeRecords, Query, Opening
<1>3. CASE e \in Recoveries
    BY <1>3 DEF Recoveries, Query, Opening
<1> QED BY <1>1, <1>2, <1>3, JournalAssumption DEF Records

LEMMA LineTypes ==
    ASSUME JournalOK
    PROVE  /\ Len(lines) \in Nat
           /\ \A k \in 1..Len(lines) :
                  /\ lines[k] \in Records
                  /\ lines[k].kind \in {"decision", "outcome", "recovery"}
                  /\ lines[k].kind = "decision" => lines[k] \in Decisions
                  /\ lines[k].kind = "outcome" => lines[k] \in OutcomeRecords
                  /\ lines[k].kind = "recovery" => lines[k] \in Recoveries
<1>1. Len(lines) \in Nat /\ \A k \in 1..Len(lines) : lines[k] \in Records
    BY DEF JournalOK
<1> QED BY <1>1, RecordTypes

\* An id names one line of its kind.
LEMMA OneLine ==
    ASSUME JournalOK, NEW j \in 1..Len(lines), NEW k \in 1..Len(lines),
           lines[j].kind = lines[k].kind, lines[j].id = lines[k].id
    PROVE  j = k
<1>1. ASSUME NEW x \in 1..Len(lines), NEW y \in 1..Len(lines), x < y
      PROVE  ~(lines[x].kind = lines[y].kind /\ lines[x].id = lines[y].id)
    <2>1. Fits(lines[y], y - 1)
        BY DEF JournalOK
    <2>2. x \in 1..(y - 1)
        BY <1>1
    <2> QED BY <2>1, <2>2 DEF Fits
<1>2. j \in Int /\ k \in Int
    OBVIOUS
<1> QED BY <1>1, <1>2

\* The decision of an outcome is the one line it fits.
LEMMA DecisionFound ==
    ASSUME JournalOK, NEW k \in 1..Len(lines), IsOutcome(k)
    PROVE  /\ \E j \in 1..(k - 1) : Decides(lines[j], lines[k]) /\ DecisionAt(k) = lines[j]
           /\ DecisionAt(k) \in Decisions /\ DecisionAt(k).release \in Releases
           /\ DecisionAt(k).limit \in Limits
           /\ ReleaseAt(k) = DecisionAt(k).release
           /\ Slot(k) \in Slots /\ Slot(k) \in Nat
<1>1. k \in Nat /\ Len(lines) \in Nat /\ lines[k].kind = "outcome" /\ lines[k] \in OutcomeRecords
    BY LineTypes DEF IsOutcome
<1>2. PICK j \in 1..(k - 1) : Decides(lines[j], lines[k])
    BY <1>1 DEF JournalOK, Fits
<1>3. j \in 1..k /\ j \in 1..Len(lines) /\ lines[j] \in Decisions
    BY <1>1, <1>2, LineTypes DEF Decides
<1>4. ASSUME NEW x \in 1..k, lines[x].kind = "decision", lines[x].id = lines[k].id
      PROVE  lines[x] = lines[j]
    <2>1. x \in 1..Len(lines)
        BY <1>1
    <2> QED BY <1>2, <1>3, <1>4, <2>1, OneLine DEF Decides
<1>5. DecisionAt(k) = lines[j]
    BY <1>2, <1>3, <1>4 DEF DecisionAt, Decides
<1>6. /\ lines[j].release \in Releases /\ lines[j].limit \in Limits /\ lines[j].slot \in Slots
    BY <1>3 DEF Decisions
<1>7. Slot(k) \in Slots
    BY <1>1, <1>5, <1>6 DEF Slot, RejectedAt, OutcomeRecords
<1> QED BY <1>1, <1>2, <1>3, <1>5, <1>6, <1>7, RecordsAssumption DEF ReleaseAt, IsOutcome

\* What the first lines say stays when lines are added.
LEMMA Prefix ==
    ASSUME JournalOK,
           \/ lines' = lines
           \/ \E e : lines' = Append(lines, e)
    PROVE  /\ \A k \in 1..Len(lines) :
                  /\ lines'[k] = lines[k]
                  /\ IsOutcome(k)' = IsOutcome(k) /\ DecisionAt(k)' = DecisionAt(k)
                  /\ ReleaseAt(k)' = ReleaseAt(k) /\ Convicts(k)' = Convicts(k)
                  /\ Slot(k)' = Slot(k)
           /\ \A n \in 0..Len(lines) :
                  /\ ConvictionsUpTo(n)' = ConvictionsUpTo(n)
                  /\ BlamedUpTo(n)' = BlamedUpTo(n)
                  /\ AdmittedUpTo(n)' = AdmittedUpTo(n)
                  /\ RecoveredUpTo(n)' = RecoveredUpTo(n)
                  /\ \A r : Run(r, n)' = Run(r, n)
<1>1. Len(lines) \in Nat /\ \A k \in 1..Len(lines) : lines'[k] = lines[k]
    BY DEF JournalOK
<1>2. ASSUME NEW k \in 1..Len(lines)
      PROVE  DecisionAt(k)' = DecisionAt(k)
    <2>1. {lines'[j] : j \in 1..k} = {lines[j] : j \in 1..k}
        BY <1>1
    <2> QED BY <1>1, <2>1 DEF DecisionAt
<1>3. \A k \in 1..Len(lines) : IsOutcome(k)' = IsOutcome(k)
    BY <1>1 DEF IsOutcome
<1>4. \A k \in 1..Len(lines) : ReleaseAt(k)' = ReleaseAt(k)
    BY <1>1, <1>2, <1>3 DEF ReleaseAt
<1>5. \A k \in 1..Len(lines) : Slot(k)' = Slot(k)
    BY <1>1, <1>2 DEF Slot
<1>6. \A k \in 1..Len(lines) : RunUpTo(k)' = RunUpTo(k)
    <2> TAKE k \in 1..Len(lines)
    <2>1. ASSUME NEW j \in 1..k
          PROVE  (/\ IsOutcome(j)' /\ ReleaseAt(j)' = ReleaseAt(k)'
                  /\ \A x \in j..k : IsOutcome(x)' /\ ReleaseAt(x)' = ReleaseAt(k)'
                                         => ~Measured(lines'[x].result))
                 <=> (/\ IsOutcome(j) /\ ReleaseAt(j) = ReleaseAt(k)
                      /\ \A x \in j..k : IsOutcome(x) /\ ReleaseAt(x) = ReleaseAt(k)
                                             => ~Measured(lines[x].result))
        <3>1. j \in 1..Len(lines) /\ \A x \in j..k : x \in 1..Len(lines)
            BY <1>1
        <3> QED BY <1>1, <1>3, <1>4, <3>1
    <2> QED BY <2>1 DEF RunUpTo
<1>7. \A k \in 1..Len(lines) : Convicts(k)' = Convicts(k)
    BY <1>1, <1>2, <1>3, <1>6 DEF Convicts
<1>8. ASSUME NEW n \in 0..Len(lines)
      PROVE  /\ ConvictionsUpTo(n)' = ConvictionsUpTo(n)
             /\ BlamedUpTo(n)' = BlamedUpTo(n)
             /\ RecoveredUpTo(n)' = RecoveredUpTo(n)
             /\ AdmittedUpTo(n)' = AdmittedUpTo(n)
             /\ \A r : Run(r, n)' = Run(r, n)
    <2>1. \A k \in 1..n : k \in 1..Len(lines) /\ \A x \in k..n : x \in 1..Len(lines)
        BY <1>1
    <2>2. ConvictionsUpTo(n)' = ConvictionsUpTo(n)
        BY <1>7, <2>1 DEF ConvictionsUpTo
    <2>3. BlamedUpTo(n)' = BlamedUpTo(n)
        BY <1>4, <2>1, <2>2 DEF BlamedUpTo, ConvictionsUpTo
    <2>4. {j \in 1..n : /\ lines[j].kind = "recovery"
                        /\ \A x \in (j + 1)..n : lines[x].kind # "recovery" /\ ~Convicts(x)}'
          = {j \in 1..n : /\ lines[j].kind = "recovery"
                          /\ \A x \in (j + 1)..n : lines[x].kind # "recovery" /\ ~Convicts(x)}
        BY <1>1, <1>7, <2>1
    <2>5. RecoveredUpTo(n)' = RecoveredUpTo(n)
        BY <1>4, <2>1, <2>4 DEF RecoveredUpTo
    <2>6. AdmittedUpTo(n)' = AdmittedUpTo(n)
        BY <2>2, <2>5 DEF AdmittedUpTo, RecoveredUpTo
    <2>7. ASSUME NEW r PROVE Run(r, n)' = Run(r, n)
        BY <1>1, <1>3, <1>4, <2>1 DEF Run
    <2> QED BY <2>2, <2>3, <2>5, <2>6, <2>7
<1> QED BY <1>1, <1>2, <1>3, <1>4, <1>5, <1>7, <1>8

-----------------------------------------------------------------------------
(* What one more line adds.                                                *)

LEMMA MoreLines ==
    ASSUME JournalOK, NEW n \in 0..Len(lines), n < Len(lines)
    PROVE  /\ n \in Nat /\ n + 1 \in 1..Len(lines) /\ 1..(n + 1) = 1..n \cup {n + 1}
           /\ \A j \in 1..n : j \in 1..Len(lines) /\ j # n + 1
           /\ \A kind : {lines[k] : k \in {j \in 1..(n + 1) : lines[j].kind = kind}} =
                  {lines[k] : k \in {j \in 1..n : lines[j].kind = kind}} \cup
                      (IF lines[n + 1].kind = kind THEN {lines[n + 1]} ELSE {})
<1>1. /\ n \in Nat /\ n + 1 \in 1..Len(lines) /\ 1..(n + 1) = 1..n \cup {n + 1}
      /\ \A j \in 1..n : j \in 1..Len(lines) /\ j # n + 1
    BY LineTypes
<1>2. ASSUME NEW kind
      PROVE  {lines[k] : k \in {j \in 1..(n + 1) : lines[j].kind = kind}} =
                 {lines[k] : k \in {j \in 1..n : lines[j].kind = kind}} \cup
                      (IF lines[n + 1].kind = kind THEN {lines[n + 1]} ELSE {})
    BY <1>1
<1> QED BY <1>1, <1>2

LEMMA RunIsFinite ==
    ASSUME NEW n \in Nat, NEW r
    PROVE  IsFiniteSet(Run(r, n)) /\ Cardinality(Run(r, n)) \in Nat
<1>1. IsFiniteSet(1..n)
    BY FS_Interval
<1>2. IsFiniteSet(Run(r, n))
    BY <1>1, FS_Subset DEF Run
<1> QED BY <1>2, FS_CardinalityType

LEMMA NextRun ==
    ASSUME JournalOK, NEW n \in 0..Len(lines), n < Len(lines), NEW r
    PROVE  LET mine == IsOutcome(n + 1) /\ ReleaseAt(n + 1) = r
           IN  /\ ~mine => Run(r, n + 1) = Run(r, n)
               /\ mine /\ Measured(lines[n + 1].result) => Run(r, n + 1) = {}
               /\ mine /\ ~Measured(lines[n + 1].result) =>
                      Run(r, n + 1) = Run(r, n) \cup {n + 1} /\ n + 1 \notin Run(r, n)
<1> DEFINE mine == IsOutcome(n + 1) /\ ReleaseAt(n + 1) = r
<1>1. /\ n \in Nat /\ 1..(n + 1) = 1..n \cup {n + 1}
      /\ \A j \in 1..n : j..(n + 1) = j..n \cup {n + 1} /\ j # n + 1
      /\ (n + 1)..(n + 1) = {n + 1}
    BY MoreLines
<1>2. CASE ~mine
    BY <1>1, <1>2 DEF Run
<1>3. CASE mine /\ Measured(lines[n + 1].result)
    <2>1. \A j \in 1..(n + 1) : n + 1 \in j..(n + 1)
        BY <1>1
    <2> QED BY <1>3, <2>1 DEF Run
<1>4. CASE mine /\ ~Measured(lines[n + 1].result)
    BY <1>1, <1>4 DEF Run
<1> QED BY <1>2, <1>3, <1>4

LEMMA NextConvictions ==
    ASSUME JournalOK, NEW n \in 0..Len(lines), n < Len(lines)
    PROVE  ConvictionsUpTo(n + 1) =
               ConvictionsUpTo(n) \cup (IF Convicts(n + 1) THEN {n + 1} ELSE {})
BY MoreLines DEF ConvictionsUpTo

LEMMA NextRecovered ==
    ASSUME JournalOK, NEW n \in 0..Len(lines), n < Len(lines)
    PROVE  /\ lines[n + 1].kind = "recovery" => RecoveredUpTo(n + 1) = {lines[n + 1].release}
           /\ Convicts(n + 1) => RecoveredUpTo(n + 1) = {}
           /\ lines[n + 1].kind # "recovery" /\ ~Convicts(n + 1) =>
                  RecoveredUpTo(n + 1) = RecoveredUpTo(n)
<1> DEFINE Last(m) == {j \in 1..m : /\ lines[j].kind = "recovery"
                                    /\ \A x \in (j + 1)..m : /\ lines[x].kind # "recovery"
                                                             /\ ~Convicts(x)}
<1>1. /\ n \in Nat /\ 1..(n + 1) = 1..n \cup {n + 1}
      /\ \A j \in 1..n : (j + 1)..(n + 1) = (j + 1)..n \cup {n + 1} /\ j # n + 1
      /\ (n + 1 + 1)..(n + 1) = {}
    BY MoreLines
<1>2. lines[n + 1].kind = "recovery" => Last(n + 1) = {n + 1}
    BY <1>1
<1>3. Convicts(n + 1) => lines[n + 1].kind # "recovery" /\ Last(n + 1) = {}
    BY <1>1 DEF Convicts, IsOutcome
<1>4. lines[n + 1].kind # "recovery" /\ ~Convicts(n + 1) => Last(n + 1) = Last(n)
    BY <1>1
<1>5. lines[n + 1].kind = "recovery" => ReleaseAt(n + 1) = lines[n + 1].release
    BY DEF ReleaseAt, IsOutcome
<1>6. \A m : RecoveredUpTo(m) = {ReleaseAt(k) : k \in Last(m)}
    BY DEF RecoveredUpTo
<1> HIDE DEF Last
<1> QED BY <1>2, <1>3, <1>4, <1>5, <1>6

-----------------------------------------------------------------------------
(* The maps of a prefix, and what they answer.                             *)

LEMMA ConvictionTypes ==
    ASSUME JournalOK, NEW n \in 0..Len(lines), NEW k \in ConvictionsUpTo(n)
    PROVE  /\ k \in 1..n /\ k \in 1..Len(lines) /\ Convicts(k)
           /\ ReleaseAt(k) \in Releases /\ Slot(k) \in Slots /\ Slot(k) \in Nat
<1>1. k \in 1..n /\ k \in 1..Len(lines) /\ Convicts(k)
    BY LineTypes DEF ConvictionsUpTo
<1> QED BY <1>1, DecisionFound DEF Convicts

LEMMA MirrorHolds ==
    ASSUME JournalOK, NEW n \in 0..Len(lines), NEW mem, Mirrors(mem, n), NEW e \in Records
    PROVE  /\ Repeated(mem, e) <=> \E j \in 1..n : lines[j] = e
           /\ Conflicting(mem, e) <=>
                  \E j \in 1..n : lines[j].kind = e.kind /\ lines[j].id = e.id /\ lines[j] # e
<1>1. e.kind \in {"decision", "outcome", "recovery"}
    BY RecordTypes
<1>2. Held(mem, e) = {lines[k] : k \in {j \in 1..n : lines[j].kind = e.kind}}
    BY <1>1 DEF Held, Mirrors, Holds
<1> QED BY <1>2 DEF Repeated, Conflicting

LEMMA MirrorAnswers ==
    ASSUME JournalOK, NEW n \in 0..Len(lines), NEW mem, Mirrors(mem, n)
    PROVE  /\ Quarantined(mem) = BlamedUpTo(n)
           /\ Quarantined(mem) = {} <=> ConvictionsUpTo(n) = {}
           /\ \A r \in Releases : ~Blocked(mem, r) <=> r \in AdmittedUpTo(n)
           /\ AdmittedUpTo(n) \subseteq Releases
           /\ AdmittedUpTo(n) = IF ConvictionsUpTo(n) = {} THEN Releases ELSE RecoveredUpTo(n)
<1>1. \A k \in ConvictionsUpTo(n) : /\ ReleaseAt(k) \in Releases
                                    /\ mem.rejected[ReleaseAt(k)] >= Slot(k) /\ Slot(k) \in Nat
    BY ConvictionTypes DEF Mirrors, Rejects
<1>2. \A r \in Releases : mem.rejected[r] \in Slots \cup {NoSlot}
    BY DEF Mirrors, MapTypes
<1>3. \A k \in ConvictionsUpTo(n) : mem.rejected[ReleaseAt(k)] # NoSlot
    BY <1>1, <1>2, RecordsAssumption DEF NoSlot
<1>4. Quarantined(mem) = BlamedUpTo(n)
    BY <1>1, <1>3 DEF Quarantined, BlamedUpTo, Mirrors, Rejects
<1>5. Quarantined(mem) = {} <=> ConvictionsUpTo(n) = {}
    BY <1>4 DEF BlamedUpTo
<1>6. AdmittedUpTo(n) = IF ConvictionsUpTo(n) = {} THEN Releases ELSE RecoveredUpTo(n)
    BY DEF AdmittedUpTo, RecoveredUpTo
<1>7. NoRelease \notin Releases
    BY RecordsAssumption
<1>8. \A r \in Releases : ~Blocked(mem, r) <=> r \in AdmittedUpTo(n)
    <2> TAKE r \in Releases
    <2>1. r \in RecoveredUpTo(n) <=> mem.recovered = r
        BY <1>7 DEF Mirrors, Recovers
    <2>2. mem.recovered = r => mem.rejected[r] = NoSlot
        BY <1>7 DEF Mirrors, Recovers
    <2> QED BY <1>5, <1>6, <2>1, <2>2 DEF Blocked
<1>9. RecoveredUpTo(n) \subseteq Releases
    BY DEF Mirrors, MapTypes, Recovers
<1> QED BY <1>4, <1>5, <1>6, <1>8, <1>9

\* The maps of a prefix accept what fits it.
LEMMA FitsIsAccepted ==
    ASSUME JournalOK, NEW n \in 0..Len(lines), NEW mem, Mirrors(mem, n), NEW e \in Records,
           Fits(e, n)
    PROVE  ~Repeated(mem, e) /\ Accepts(mem, NoLimit, e)
<1>1. /\ ~Repeated(mem, e) /\ ~Conflicting(mem, e)
      /\ e.kind \in {"decision", "outcome", "recovery"}
    BY MirrorHolds, RecordTypes DEF Fits
<1>2. CASE e.kind \in Releasing
    <2>1. e.release \in Releases /\ e.limit \in Limits
        BY <1>2, RecordTypes DEF Decisions, Recoveries, Releasing
    <2>2. mem.policy[e.release] \in {NoLimit, e.limit}
        BY <1>2, <2>1 DEF Fits, Mirrors, Limited
    <2>3. PolicyAgrees(mem, NoLimit, e.release, e.limit)
        BY <2>2 DEF PolicyAgrees
    <2>4. CASE e.kind = "decision"
        BY <1>1, <2>3, <2>4 DEF Accepts
    <2>5. CASE e.kind = "recovery"
        <3>1. Quarantined(mem) # {}
            BY <2>5, MirrorAnswers DEF Fits
        <3>2. ASSUME NEW q \in Quarantined(mem)
              PROVE  /\ e.release.revision > q.revision
                     /\ e.release.digest # q.digest
                     /\ Calibration[e.release.digest] > mem.rejected[q]
            <4>1. PICK k \in ConvictionsUpTo(n) : ReleaseAt(k) = q /\ Slot(k) = mem.rejected[q]
                BY DEF Quarantined, Mirrors, Rejects
            <4> QED BY <2>5, <4>1 DEF Fits
        <3>3. ValidRecovery(mem, e)
            BY <3>1, <3>2 DEF ValidRecovery
        <3> QED BY <1>1, <2>3, <2>5, <3>3 DEF Accepts
    <2> QED BY <1>2, <2>4, <2>5 DEF Releasing
<1>3. CASE e.kind = "outcome"
    <2>1. PICK j \in 1..n : Decides(lines[j], e)
        BY <1>3 DEF Fits
    <2>2. lines[j] \in mem.decisions
        BY <2>1 DEF Mirrors, Holds, Decides
    <2>3. ValidOutcome(mem, e)
        BY <2>1, <2>2 DEF ValidOutcome, Decides
    <2> QED BY <1>1, <1>3, <2>3 DEF Accepts
<1> QED BY <1>1, <1>2, <1>3 DEF Releasing

\* What the maps of all the lines accept, and admit, fits the lines.
LEMMA AcceptedFits ==
    ASSUME JournalOK, NEW n \in 0..Len(lines), NEW mem, Mirrors(mem, n), NEW e \in Records,
           NEW pin, Accepts(mem, pin, e), ~Repeated(mem, e),
           ~(e.kind = "decision" /\ Blocked(mem, e.release))
    PROVE  Fits(e, n)
<1>1. /\ ~Conflicting(mem, e)
      /\ e.kind \in {"decision", "outcome", "recovery"}
    BY RecordTypes DEF Accepts
<1>2. \A j \in 1..n : lines[j].kind = e.kind => lines[j].id # e.id
    BY <1>1, MirrorHolds
<1>3. CASE e.kind \in Releasing
    <2>1. e.release \in Releases /\ e.limit \in Limits
        BY <1>3, RecordTypes DEF Decisions, Recoveries, Releasing
    <2>2. PolicyAgrees(mem, pin, e.release, e.limit)
        BY <1>3 DEF Accepts, Releasing
    <2>3. ASSUME NEW j \in 1..n, lines[j].kind \in Releasing, lines[j].release = e.release
          PROVE  lines[j].limit = e.limit
        <3>1. j \in 1..Len(lines)
            BY LineTypes
        <3>2. lines[j].limit \in Limits /\ NoLimit \notin Limits
            BY <2>3, <3>1, LineTypes, RecordsAssumption DEF Releasing, Decisions, Recoveries
        <3>3. mem.policy[e.release] = lines[j].limit
            BY <2>1, <2>3 DEF Mirrors, Limited
        <3> QED BY <2>2, <3>2, <3>3 DEF PolicyAgrees
    <2>4. CASE e.kind = "decision"
        BY <1>2, <2>1, <2>3, <2>4, MirrorAnswers DEF Fits
    <2>5. CASE e.kind = "recovery"
        <3>1. ValidRecovery(mem, e)
            BY <2>5 DEF Accepts
        <3>2. ConvictionsUpTo(n) # {}
            BY <3>1, MirrorAnswers DEF ValidRecovery
        <3>3. ASSUME NEW k \in ConvictionsUpTo(n)
              PROVE  /\ e.release.revision > ReleaseAt(k).revision
                     /\ e.release.digest # ReleaseAt(k).digest
                     /\ Calibration[e.release.digest] > Slot(k)
            <4>1. ReleaseAt(k) \in Quarantined(mem)
                BY MirrorAnswers DEF BlamedUpTo
            <4>2. ReleaseAt(k) \in Releases /\ Slot(k) \in Nat
                BY ConvictionTypes
            <4>3. mem.rejected[ReleaseAt(k)] >= Slot(k)
                BY <4>2 DEF Mirrors, Rejects
            <4>4. mem.rejected \in [Releases -> Slots \cup {NoSlot}]
                BY DEF Mirrors, MapTypes
            <4>5. mem.rejected[ReleaseAt(k)] \in Slots \cup {NoSlot}
                BY <4>2, <4>4
            <4>6. e.release.digest \in {r.digest : r \in Releases}
                BY <2>1
            <4>7. Calibration \in [{r.digest : r \in Releases} -> Slots]
                BY RecordsAssumption
            <4>8. Calibration[e.release.digest] \in Slots
                BY <4>6, <4>7
            <4>9. /\ mem.rejected[ReleaseAt(k)] \in Int
                  /\ Calibration[e.release.digest] \in Int
                <5>1. \A s \in Slots \cup {NoSlot} : s \in Int
                    BY RecordsAssumption DEF NoSlot
                <5> QED BY <4>5, <4>8, <5>1, Zenon
            <4> QED BY <3>1, <4>1, <4>2, <4>3, <4>9 DEF ValidRecovery
        <3> QED BY <1>2, <2>3, <2>5, <3>2, <3>3 DEF Fits
    <2> QED BY <1>3, <2>4, <2>5 DEF Releasing
<1>4. CASE e.kind = "outcome"
    <2>1. PICK d \in mem.decisions : d.id = e.id /\ d.selected /\ (e.slot = NoSlot \/ e.slot >= d.slot)
        BY <1>4 DEF Accepts, ValidOutcome
    <2>2. PICK j \in 1..n : lines[j] = d /\ d.kind = "decision"
        BY <2>1 DEF Mirrors, Holds
    <2>3. Decides(lines[j], e)
        BY <2>1, <2>2 DEF Decides
    <2> QED BY <1>2, <1>4, <2>3 DEF Fits, Releasing
<1> QED BY <1>1, <1>3, <1>4 DEF Releasing

\* The maps after the next line are those of one line more.
LEMMA MirrorsNext ==
    ASSUME JournalOK, NEW n \in 0..Len(lines), n < Len(lines), NEW mem, Mirrors(mem, n)
    PROVE  Mirrors(Apply(mem, lines[n + 1]), n + 1)
<1> DEFINE e == lines[n + 1]
           new == Apply(mem, e)
<1> SUFFICES Mirrors(new, n + 1)
    OBVIOUS
<1>1. /\ n + 1 \in 1..Len(lines) /\ n \in Nat /\ e \in Records /\ Fits(e, n)
      /\ e.kind \in {"decision", "outcome", "recovery"}
      /\ 1..(n + 1) = 1..n \cup {n + 1}
    BY MoreLines, LineTypes DEF JournalOK
<1>2. ~Repeated(mem, e)
    BY <1>1, FitsIsAccepted
<1>3. mem \in MapTypes
    BY DEF Mirrors
<1>4. \A kind : {lines[k] : k \in {j \in 1..(n + 1) : lines[j].kind = kind}} =
          {lines[k] : k \in {j \in 1..n : lines[j].kind = kind}} \cup
              (IF e.kind = kind THEN {e} ELSE {})
    BY MoreLines
<1>5. /\ (n + 1) - 1 = n
      /\ \A k \in ConvictionsUpTo(n) : k # n + 1
    BY <1>1 DEF ConvictionsUpTo
<1>6. CASE e.kind = "decision"
    <2>1. new = [mem EXCEPT !.decisions = @ \cup {e}, !.policy[e.release] = e.limit]
        BY <1>2, <1>6 DEF Apply
    <2>2. e \in Decisions /\ e.release \in Releases /\ e.limit \in Limits
        BY <1>1, <1>6, RecordTypes DEF Decisions
    <2>3. /\ new \in MapTypes
          /\ new.decisions = mem.decisions \cup {e} /\ new.outcomes = mem.outcomes
          /\ new.recoveries = mem.recoveries /\ new.rejected = mem.rejected
          /\ new.recovered = mem.recovered /\ new.streak = mem.streak
          /\ new.policy[e.release] = e.limit
          /\ \A r \in Releases \ {e.release} : new.policy[r] = mem.policy[r]
        <3> DEFINE policy == [mem.policy EXCEPT ![e.release] = e.limit]
        <3>1. /\ policy \in [Releases -> Limits \cup {NoLimit}]
              /\ policy[e.release] = e.limit
              /\ \A r \in Releases \ {e.release} : policy[r] = mem.policy[r]
            BY <1>3, <2>2 DEF MapTypes
        <3>2. new = [mem EXCEPT !.decisions = mem.decisions \cup {e}, !.policy = policy]
            BY <1>3, <2>1 DEF MapTypes
        <3>3. mem.decisions \cup {e} \in SUBSET Decisions
            BY <1>3, <2>2 DEF MapTypes
        <3> HIDE DEF new, policy
        <3> QED BY <1>3, <3>1, <3>2, <3>3 DEF MapTypes
    <2>4. ~IsOutcome(n + 1) /\ ~Convicts(n + 1)
        BY <1>6 DEF IsOutcome, Convicts
    <2>5. /\ ConvictionsUpTo(n + 1) = ConvictionsUpTo(n)
          /\ RecoveredUpTo(n + 1) = RecoveredUpTo(n)
          /\ \A r : Run(r, n + 1) = Run(r, n)
        BY <1>6, <2>4, NextConvictions, NextRecovered, NextRun
    <2>6. ASSUME NEW r \in Releases
          PROVE  Limited(new, n + 1, r)
        <3>1. CASE r = e.release
            <4>1. \A j \in 1..n : lines[j].kind \in Releasing /\ lines[j].release = r =>
                      lines[j].limit = e.limit
                BY <1>1, <1>6, <3>1 DEF Fits, Releasing
            <4>2. e.kind \in Releasing /\ n + 1 \in 1..(n + 1) /\ new.policy[r] = e.limit
                BY <1>1, <1>6, <2>3, <3>1 DEF Releasing
            <4> HIDE DEF new
            <4> QED BY <1>1, <3>1, <4>1, <4>2 DEF Limited
        <3>2. CASE r # e.release
            BY <1>1, <2>3, <3>2 DEF Mirrors, Limited
        <3> QED BY <3>1, <3>2
    <2>7. Holds(new, n + 1)
        BY <1>4, <1>6, <2>3 DEF Mirrors, Holds
    <2>8. \A r \in Releases : Rejects(new, n + 1, r)
        BY <2>3, <2>5 DEF Mirrors, Rejects
    <2>9. Recovers(new, n + 1)
        BY <2>3, <2>5 DEF Mirrors, Recovers
    <2> HIDE DEF new, e
    <2> QED BY <2>3, <2>5, <2>6, <2>7, <2>8, <2>9 DEF Mirrors
<1>7. CASE e.kind = "recovery"
    <2>1. new = [mem EXCEPT !.recoveries = @ \cup {e}, !.recovered = e.release,
                            !.policy[e.release] = e.limit]
        BY <1>2, <1>7 DEF Apply
    <2>2. e \in Recoveries /\ e.release \in Releases /\ e.limit \in Limits
        BY <1>1, <1>7, RecordTypes DEF Recoveries
    <2>3. /\ new \in MapTypes
          /\ new.decisions = mem.decisions /\ new.outcomes = mem.outcomes
          /\ new.recoveries = mem.recoveries \cup {e} /\ new.rejected = mem.rejected
          /\ new.recovered = e.release /\ new.streak = mem.streak
          /\ new.policy[e.release] = e.limit
          /\ \A r \in Releases \ {e.release} : new.policy[r] = mem.policy[r]
        <3> DEFINE policy == [mem.policy EXCEPT ![e.release] = e.limit]
        <3>1. /\ policy \in [Releases -> Limits \cup {NoLimit}]
              /\ policy[e.release] = e.limit
              /\ \A r \in Releases \ {e.release} : policy[r] = mem.policy[r]
            BY <1>3, <2>2 DEF MapTypes
        <3>2. new = [mem EXCEPT !.recoveries = mem.recoveries \cup {e},
                                !.recovered = e.release, !.policy = policy]
            BY <1>3, <2>1 DEF MapTypes
        <3>3. mem.recoveries \cup {e} \in SUBSET Recoveries
            BY <1>3, <2>2 DEF MapTypes
        <3> HIDE DEF new, policy
        <3> QED BY <1>3, <2>2, <3>1, <3>2, <3>3 DEF MapTypes
    <2>4. ~IsOutcome(n + 1) /\ ~Convicts(n + 1)
        BY <1>7 DEF IsOutcome, Convicts
    <2>5. /\ ConvictionsUpTo(n + 1) = ConvictionsUpTo(n)
          /\ RecoveredUpTo(n + 1) = {e.release}
          /\ \A r : Run(r, n + 1) = Run(r, n)
        BY <1>7, <2>4, NextConvictions, NextRecovered, NextRun
    <2>6. ASSUME NEW r \in Releases
          PROVE  Limited(new, n + 1, r)
        <3>1. CASE r = e.release
            <4>1. \A j \in 1..n : lines[j].kind \in Releasing /\ lines[j].release = r =>
                      lines[j].limit = e.limit
                BY <1>1, <1>7, <3>1 DEF Fits, Releasing
            <4>2. e.kind \in Releasing /\ n + 1 \in 1..(n + 1) /\ new.policy[r] = e.limit
                BY <1>1, <1>7, <2>3, <3>1 DEF Releasing
            <4> HIDE DEF new
            <4> QED BY <1>1, <3>1, <4>1, <4>2 DEF Limited
        <3>2. CASE r # e.release
            BY <1>1, <2>3, <3>2 DEF Mirrors, Limited
        <3> QED BY <3>1, <3>2
    <2>7. Holds(new, n + 1)
        BY <1>4, <1>7, <2>3 DEF Mirrors, Holds
    <2>8. ConvictionsUpTo(n) # {} /\ mem.rejected[e.release] = NoSlot
        <3>1. /\ ConvictionsUpTo(n) # {}
              /\ \A k \in ConvictionsUpTo(n) : e.release.revision > ReleaseAt(k).revision
            BY <1>1, <1>7 DEF Fits
        <3>2. e.release.revision \in Nat
            BY <2>2, RecordsAssumption
        <3>3. \A k \in ConvictionsUpTo(n) : ReleaseAt(k) # e.release
            BY <3>1, <3>2
        <3> QED BY <2>2, <3>1, <3>3 DEF Mirrors, Rejects
    <2>9. NoRelease \notin Releases
        BY RecordsAssumption
    <2>10. \A r \in Releases : Rejects(new, n + 1, r)
        BY <2>3, <2>5 DEF Mirrors, Rejects
    <2> HIDE DEF new
    <2>11. Recovers(new, n + 1)
        BY <2>2, <2>3, <2>5, <2>8, <2>9 DEF Recovers
    <2> HIDE DEF e
    <2> QED BY <2>3, <2>5, <2>6, <2>7, <2>10, <2>11 DEF Mirrors
<1>8. CASE e.kind = "outcome"
    <2> DEFINE d == DecisionAt(n + 1)
               r0 == d.release
               count == IF Measured(e.result) THEN 0 ELSE mem.streak[r0] + 1
               at == RejectedAt(d, e)
    <2>1. /\ IsOutcome(n + 1) /\ ReleaseAt(n + 1) = r0 /\ r0 \in Releases /\ d.limit \in Limits
          /\ at = Slot(n + 1) /\ at \in Slots /\ e \in OutcomeRecords
          /\ \E j \in 1..n : Decides(lines[j], e) /\ d = lines[j]
        BY <1>1, <1>5, <1>8, DecisionFound, RecordTypes DEF IsOutcome, Slot
    <2>2. DecisionOf(mem, e) = d
        <3>1. d \in mem.decisions /\ d.id = e.id
            BY <2>1 DEF Mirrors, Holds, Decides
        <3>2. ASSUME NEW x \in mem.decisions, x.id = e.id
              PROVE  x = d
            <4>1. PICK j \in 1..n : lines[j] = x /\ x.kind = "decision"
                BY DEF Mirrors, Holds
            <4>2. PICK i \in 1..n : lines[i] = d /\ d.kind = "decision" /\ d.id = e.id
                BY <2>1 DEF Decides
            <4>3. i \in 1..Len(lines) /\ j \in 1..Len(lines)
                BY LineTypes
            <4>4. i = j
                BY <3>2, <4>1, <4>2, <4>3, OneLine
            <4> QED BY <4>1, <4>2, <4>4
        <3> QED BY <3>1, <3>2 DEF DecisionOf
    <2> DEFINE noted == [mem EXCEPT !.outcomes = @ \cup {e}, !.streak[r0] = count]
               worst == IF mem.rejected[r0] > at THEN mem.rejected[r0] ELSE at
               bad == Excess(e.result) \/ count >= d.limit
    <2>3. new = IF bad
                THEN [noted EXCEPT !.rejected[r0] = IF @ > at THEN @ ELSE at,
                                   !.recovered = NoRelease]
                ELSE noted
        BY <1>2, <1>8, <2>2 DEF Apply, ApplyOutcome
    <2>4. /\ mem.streak[r0] = Cardinality(Run(r0, n)) /\ mem.streak[r0] \in Nat
          /\ count = Cardinality(Run(r0, n + 1)) /\ count \in Nat
          /\ \A r \in Releases \ {r0} : Run(r, n + 1) = Run(r, n)
        <3>1. mem.streak[r0] = Cardinality(Run(r0, n))
            BY <2>1 DEF Mirrors
        <3>2. IsFiniteSet(Run(r0, n)) /\ Cardinality(Run(r0, n)) \in Nat
            BY <1>1, RunIsFinite
        <3>3. ASSUME Measured(e.result)
              PROVE  count = Cardinality(Run(r0, n + 1))
            BY <2>1, <3>3, NextRun, FS_EmptySet
        <3>4. ASSUME ~Measured(e.result)
              PROVE  count = Cardinality(Run(r0, n + 1))
            <4>1. Run(r0, n + 1) = Run(r0, n) \cup {n + 1} /\ n + 1 \notin Run(r0, n)
                BY <2>1, <3>4, NextRun
            <4>2. Cardinality(Run(r0, n + 1)) = Cardinality(Run(r0, n)) + 1
                BY <3>2, <4>1, FS_AddElement
            <4> QED BY <3>1, <3>2, <3>4, <4>2
        <3>5. \A r \in Releases \ {r0} : Run(r, n + 1) = Run(r, n)
            BY <2>1, NextRun
        <3>6. count = Cardinality(Run(r0, n + 1))
            BY <3>1, <3>2, <3>3, <3>4
        <3> QED BY <1>1, <3>1, <3>2, <3>5, <3>6, RunIsFinite
    <2>5. Run(r0, n + 1) = RunUpTo(n + 1)
        BY <2>1 DEF Run, RunUpTo
    <2>6. Convicts(n + 1) <=> bad
        BY <2>1, <2>4, <2>5 DEF Convicts
    <2> HIDE DEF count, at, bad
    <2>7. /\ noted \in MapTypes
          /\ noted.decisions = mem.decisions /\ noted.outcomes = mem.outcomes \cup {e}
          /\ noted.recoveries = mem.recoveries /\ noted.rejected = mem.rejected
          /\ noted.recovered = mem.recovered /\ noted.policy = mem.policy
          /\ noted.streak[r0] = count
          /\ \A r \in Releases \ {r0} : noted.streak[r] = mem.streak[r]
        BY <1>3, <2>1, <2>4 DEF MapTypes
    <2>8. mem.rejected \in [Releases -> Slots \cup {NoSlot}]
        BY <1>3 DEF MapTypes
    <2>9. worst \in Slots \cup {NoSlot} /\ worst \in Int /\ mem.rejected[r0] \in Int
          /\ at \in Nat /\ worst # NoSlot /\ worst >= at /\ worst >= mem.rejected[r0]
          /\ worst \in {at, mem.rejected[r0]}
        BY <2>1, <2>8, RecordsAssumption DEF NoSlot
    <2> HIDE DEF noted, worst
    <2>10. /\ new \in MapTypes
           /\ new.decisions = mem.decisions /\ new.outcomes = mem.outcomes \cup {e}
           /\ new.recoveries = mem.recoveries /\ new.policy = mem.policy
           /\ new.streak[r0] = count
           /\ \A r \in Releases \ {r0} : new.streak[r] = mem.streak[r]
           /\ \A r \in Releases \ {r0} : new.rejected[r] = mem.rejected[r]
           /\ bad => new.rejected[r0] = worst /\ new.recovered = NoRelease
           /\ ~bad => new.rejected = mem.rejected /\ new.recovered = mem.recovered
        <3>1. CASE bad
            <4>1. new = [noted EXCEPT !.rejected[r0] = worst, !.recovered = NoRelease]
                BY <2>3, <2>7, <3>1 DEF worst
            <4> HIDE DEF new
            <4> QED BY <2>1, <2>7, <2>9, <3>1, <4>1 DEF MapTypes
        <3>2. CASE ~bad
            BY <2>3, <2>7, <3>2
        <3> QED BY <3>1, <3>2
    <2>11. Holds(new, n + 1)
        BY <1>4, <1>8, <2>10 DEF Mirrors, Holds
    <2>12. \A r \in Releases : new.streak[r] = Cardinality(Run(r, n + 1))
        BY <2>4, <2>10 DEF Mirrors
    <2>13. ASSUME NEW r \in Releases
           PROVE  Limited(new, n + 1, r)
        <3>1. Limited(mem, n, r) /\ new.policy = mem.policy
            BY <2>10 DEF Mirrors
        <3>2. lines[n + 1].kind \notin Releasing
            BY <1>8 DEF Releasing
        <3> HIDE DEF new
        <3> QED BY <1>1, <3>1, <3>2 DEF Limited
    <2>14. CASE bad
        <3>1. /\ ConvictionsUpTo(n + 1) = ConvictionsUpTo(n) \cup {n + 1}
              /\ RecoveredUpTo(n + 1) = {}
            BY <2>6, <2>14, NextConvictions, NextRecovered
        <3>2. ASSUME NEW r \in Releases
              PROVE  Rejects(new, n + 1, r)
            <4>1. CASE r # r0
                BY <2>1, <2>10, <3>1, <4>1 DEF Mirrors, Rejects
            <4>2. CASE r = r0
                <5>1. new.rejected[r] = worst
                    BY <2>10, <2>14, <4>2
                <5>2. \E k \in ConvictionsUpTo(n + 1) : ReleaseAt(k) = r /\ Slot(k) = worst
                    BY <2>1, <2>9, <3>1, <4>2 DEF Mirrors, Rejects
                <5>3. ASSUME NEW k \in ConvictionsUpTo(n + 1), ReleaseAt(k) = r
                      PROVE  worst >= Slot(k)
                    <6>1. CASE k = n + 1
                        BY <2>1, <2>9, <6>1
                    <6>2. CASE k \in ConvictionsUpTo(n)
                        <7>1. mem.rejected[r0] >= Slot(k)
                            BY <2>1, <4>2, <5>3, <6>2 DEF Mirrors, Rejects
                        <7>2. Slot(k) \in Nat
                            BY <6>2, ConvictionTypes
                        <7> QED BY <2>9, <7>1, <7>2
                    <6> QED BY <3>1, <6>1, <6>2
                <5> QED BY <5>1, <5>2, <5>3 DEF Rejects
            <4> QED BY <4>1, <4>2
        <3>3. Recovers(new, n + 1)
            BY <2>10, <2>14, <3>1 DEF Recovers
        <3> HIDE DEF new, e
        <3> QED BY <2>10, <2>11, <2>12, <2>13, <2>14, <3>2, <3>3 DEF Mirrors
    <2>15. CASE ~bad
        <3>1. /\ ConvictionsUpTo(n + 1) = ConvictionsUpTo(n)
              /\ RecoveredUpTo(n + 1) = RecoveredUpTo(n)
            BY <1>8, <2>6, <2>15, NextConvictions, NextRecovered
        <3>2. new.rejected = mem.rejected /\ new.recovered = mem.recovered
            BY <2>10, <2>15
        <3> HIDE DEF new, e
        <3>3. Recovers(new, n + 1) /\ \A r \in Releases : Rejects(new, n + 1, r)
            BY <3>1, <3>2 DEF Mirrors, Recovers, Rejects
        <3> QED BY <2>10, <2>11, <2>12, <2>13, <3>3 DEF Mirrors
    <2> QED BY <2>14, <2>15
<1> QED BY <1>1, <1>6, <1>7, <1>8

LEMMA EmptyMirrors == Mirrors(EmptyMemory, 0)
<1>1. 1..0 = {}
    OBVIOUS
<1>2. EmptyMemory \in MapTypes
    BY DEF EmptyMemory, MapTypes
<1>3. Holds(EmptyMemory, 0)
    BY <1>1 DEF Holds, EmptyMemory
<1>4. ConvictionsUpTo(0) = {} /\ RecoveredUpTo(0) = {} /\ \A r : Run(r, 0) = {}
    BY <1>1 DEF ConvictionsUpTo, RecoveredUpTo, Run
<1>5. \A r \in Releases : /\ Rejects(EmptyMemory, 0, r) /\ Limited(EmptyMemory, 0, r)
                          /\ EmptyMemory.streak[r] = Cardinality(Run(r, 0))
    BY <1>1, <1>4, FS_EmptySet DEF Rejects, Limited, EmptyMemory
<1>6. Recovers(EmptyMemory, 0)
    BY <1>4 DEF Recovers, EmptyMemory
<1> QED BY <1>2, <1>3, <1>5, <1>6 DEF Mirrors

-----------------------------------------------------------------------------
(* Lines are only added, and what a reader has read stays read.            *)

\* What the maps of a prefix are does not change with the lines after it.
LEMMA MirrorStays ==
    ASSUME JournalOK,
           \/ lines' = lines
           \/ \E e : lines' = Append(lines, e),
           NEW n \in 0..Len(lines)
    PROVE  /\ \A mem : Mirrors(mem, n) => Mirrors(mem, n)'
           /\ \A e : Fits(e, n) => Fits(e, n)'
<1>1. /\ \A k \in 1..n : k \in 1..Len(lines)
      /\ \A k \in ConvictionsUpTo(n) : k \in 1..Len(lines)
    BY LineTypes DEF ConvictionsUpTo
<1>2. \A k \in 1..n : lines'[k] = lines[k]
    BY <1>1, Prefix
<1>3. \A k \in ConvictionsUpTo(n) : ReleaseAt(k)' = ReleaseAt(k) /\ Slot(k)' = Slot(k)
    BY <1>1, Prefix
<1>4. /\ ConvictionsUpTo(n)' = ConvictionsUpTo(n)
      /\ AdmittedUpTo(n)' = AdmittedUpTo(n)
      /\ RecoveredUpTo(n)' = RecoveredUpTo(n)
      /\ \A r : Run(r, n)' = Run(r, n)
    BY Prefix
<1>5. ASSUME NEW mem, Mirrors(mem, n)
      PROVE  Mirrors(mem, n)'
    <2>1. Holds(mem, n)'
        BY <1>2, <1>5 DEF Holds, Mirrors
    <2>2. ASSUME NEW r \in Releases
          PROVE  Rejects(mem, n, r)' /\ Limited(mem, n, r)'
        <3>1. Rejects(mem, n, r) /\ Limited(mem, n, r)
            BY <1>5 DEF Mirrors
        <3>2. Rejects(mem, n, r)'
            BY <1>3, <1>4, <3>1 DEF Rejects
        <3>3. Limited(mem, n, r)'
            BY <1>2, <3>1 DEF Limited
        <3> QED BY <3>2, <3>3
    <2>3. Recovers(mem, n)'
        BY <1>4, <1>5 DEF Mirrors, Recovers
    <2> QED BY <1>4, <1>5, <2>1, <2>2, <2>3 DEF Mirrors
<1>6. ASSUME NEW e, Fits(e, n)
      PROVE  Fits(e, n)'
    BY <1>2, <1>3, <1>4, <1>6 DEF Fits
<1> QED BY <1>5, <1>6

\* The file stays well formed when a line that fits it is added.
LEMMA JournalStays ==
    ASSUME JournalOK,
           \/ lines' = lines
           \/ /\ Len(lines) < MaxLines
              /\ \E e \in Records : Fits(e, Len(lines)) /\ lines' = Append(lines, e)
    PROVE  /\ JournalOK' /\ Len(lines') >= Len(lines) /\ Len(lines') \in Nat
           /\ \A n \in 0..Len(lines) : n \in 0..Len(lines')
<1>1. Len(lines) \in Nat /\ lines \in Seq(Records) /\ Len(lines) <= MaxLines
    BY LineTypes DEF JournalOK
<1>2. CASE lines' = lines
    <2>1. ASSUME NEW k \in 1..Len(lines)
          PROVE  Fits(lines[k], k - 1)'
        <3>1. k - 1 \in 0..Len(lines) /\ Fits(lines[k], k - 1)
            BY <1>1 DEF JournalOK
        <3>2. PICK x : x = lines[k]
            OBVIOUS
        <3> QED BY <1>2, <3>1, <3>2, MirrorStays
    <2> QED BY <1>1, <1>2, <2>1 DEF JournalOK
<1>3. CASE /\ Len(lines) < MaxLines
           /\ \E e \in Records : Fits(e, Len(lines)) /\ lines' = Append(lines, e)
    <2>1. PICK e \in Records : Fits(e, Len(lines)) /\ lines' = Append(lines, e)
        BY <1>3
    <2>2. /\ lines' \in Seq(Records) /\ Len(lines') = Len(lines) + 1
          /\ lines'[Len(lines) + 1] = e /\ \A k \in 1..Len(lines) : lines'[k] = lines[k]
        BY <1>1, <2>1
    <2>3. PICK m : m = Len(lines)
        OBVIOUS
    <2>4. Fits(e, m)'
        BY <1>1, <2>1, <2>3, MirrorStays
    <2>5. ASSUME NEW k \in 1..Len(lines)
          PROVE  Fits(lines[k], k - 1)'
        <3>1. k - 1 \in 0..Len(lines) /\ Fits(lines[k], k - 1)
            BY <1>1 DEF JournalOK
        <3>2. PICK x : x = lines[k]
            OBVIOUS
        <3>3. Fits(x, k - 1)'
            BY <2>1, <3>1, <3>2, MirrorStays
        <3>4. x = lines'[k]
            BY <2>2, <3>2
        <3> QED BY <3>3, <3>4
    <2>6. Fits(lines[m + 1], m)'
        BY <2>2, <2>3, <2>4
    <2>7. ASSUME NEW k \in 1..Len(lines')
          PROVE  Fits(lines[k], k - 1)'
        <3>1. CASE k = m + 1
            <4>1. k - 1 = m
                BY <1>1, <2>3, <3>1
            <4> QED BY <2>6, <3>1, <4>1
        <3>2. CASE k # m + 1
            BY <1>1, <2>2, <2>3, <2>5, <3>2
        <3> QED BY <3>1, <3>2
    <2> QED BY <1>1, <1>3, <2>2, <2>7, JournalAssumption DEF JournalOK
<1> QED BY <1>2, <1>3

-----------------------------------------------------------------------------
(* The steps.                                                              *)

\* No line is added, or one that fits.
Grows == \/ lines' = lines
         \/ /\ Len(lines) < MaxLines
            /\ \E e \in Records : Fits(e, Len(lines)) /\ lines' = Append(lines, e)

\* A prefix that covers what an instance counts on still covers it.
Covered(i) ==
    \A n \in 0..Len(lines) :
        consumed[i] <= n /\ (Busy /\ Me = i => call.at <= n)
            => consumed'[i] <= n /\ ((Busy /\ Me = i)' => call'.at <= n)

LEMMA InstanceStays ==
    ASSUME JournalInv, Grows, NEW i \in Instances,
           memory'[i] = memory[i], Covered(i),
           i \notin open' => i \notin open /\ consumed'[i] = consumed[i]
    PROVE  InstanceOK(i)'
<1>1. JournalOK /\ InstanceOK(i)
    BY DEF JournalInv
<1>2. PICK n \in 0..Len(lines) : /\ consumed[i] <= n /\ Mirrors(memory[i], n)
                                 /\ Busy /\ Me = i => call.at <= n
    BY <1>1 DEF InstanceOK
<1>3. PICK mem : mem = memory[i]
    OBVIOUS
<1>4. n \in 0..Len(lines') /\ (lines' = lines \/ \E e : lines' = Append(lines, e))
    BY <1>1, JournalStays DEF Grows
<1>5. Mirrors(mem, n)'
    BY <1>1, <1>2, <1>3, <1>4, MirrorStays
<1>6. Mirrors(memory[i], n)'
    BY <1>3, <1>5
<1>7. consumed'[i] <= n /\ ((Busy /\ Me = i)' => call'.at <= n)
    BY <1>2 DEF Covered
<1>8. (i \notin open => memory[i] = EmptyMemory /\ consumed[i] = 0)'
    BY <1>1 DEF InstanceOK
<1> QED BY <1>4, <1>6, <1>7, <1>8 DEF InstanceOK

\* At the end of the file the maps are those of the whole of it.
LEMMA AllRead ==
    ASSUME JournalInv, CaughtUp
    PROVE  /\ Me \in Instances /\ Me \in open /\ Len(lines) \in Nat
           /\ Mirrors(memory[Me], Len(lines))
<1>1. JournalOK /\ CallOK /\ open \subseteq Instances /\ \A i \in Instances : InstanceOK(i)
    BY DEF JournalInv
<1>2. Me \in open /\ Me \in Instances /\ call.at = Len(lines) /\ Busy
    BY <1>1 DEF CallOK, CaughtUp, Busy
<1>3. PICK n \in 0..Len(lines) : Mirrors(memory[Me], n) /\ call.at <= n
    BY <1>1, <1>2 DEF InstanceOK
<1>4. n = Len(lines) /\ Len(lines) \in Nat
    BY <1>1, <1>2, <1>3, LineTypes
<1> QED BY <1>2, <1>3, <1>4

\* What is written fits.
LEMMA WrittenFits ==
    ASSUME JournalInv, CaughtUp, ~Settled
    PROVE  /\ call \in Calls /\ call.entry \in Records /\ call.entry # Opening
           /\ ~call.wrote /\ Fits(call.entry, Len(lines))
<1>1. call \in Calls /\ call.entry \in Records /\ ~call.wrote
    BY DEF JournalInv, CallOK, CaughtUp, Busy, Settled, Calls
<1>2. /\ Accepts(memory[Me], Pins[Me], call.entry) /\ ~Repeated(memory[Me], call.entry)
      /\ ~(call.entry.kind = "decision" /\ Blocked(memory[Me], call.entry.release))
    BY <1>1, RecordTypes DEF Settled, Refused, Readings
<1>3. JournalOK /\ Len(lines) \in 0..Len(lines) /\ Mirrors(memory[Me], Len(lines))
    BY AllRead DEF JournalInv
<1> QED BY <1>1, <1>2, <1>3, AcceptedFits, RecordTypes

LEMMA StartKeeps ==
    ASSUME JournalInv, NEW i \in Instances, NEW e \in Records \cup Readings, Start(i, e),
           UNCHANGED <<memory, consumed>>,
           \/ e = Opening /\ i \notin open /\ open' = open \cup {i}
           \/ e # Opening /\ i \in open /\ open' = open
    PROVE  JournalInv'
<1>1. /\ JournalOK /\ open \subseteq Instances /\ consumed \in [Instances -> Nat]
      /\ Len(lines) <= MaxLines /\ Len(lines) \in Nat /\ InstanceOK(i)
    BY LineTypes DEF JournalInv, JournalOK
<1>2. /\ ~Busy /\ lines' = lines
      /\ call' = [inst |-> i, entry |-> e, at |-> consumed[i], wrote |-> FALSE]
    BY DEF Start
<1>3. consumed[i] \in Nat /\ consumed[i] <= Len(lines)
    BY <1>1 DEF InstanceOK
<1>4. JournalOK' /\ Grows
    BY <1>1, <1>2, JournalStays DEF Grows
<1>5. call' \in Calls /\ call'.inst = i /\ call'.at = consumed[i] /\ call'.entry = e
    BY <1>1, <1>2, <1>3, JournalAssumption DEF Calls
<1>6. call' # Idle
    BY <1>2 DEF Idle
<1>7. CallOK'
    BY <1>1, <1>2, <1>3, <1>5, <1>6 DEF CallOK, Me, InstanceOK
<1>8. \A j \in Instances : Covered(j)
    BY <1>2, <1>5 DEF Covered, Me
<1>9. ASSUME NEW j \in Instances
      PROVE  InstanceOK(j)'
    BY <1>4, <1>8, InstanceStays
<1>10. memory' \in [Instances -> MapTypes] /\ consumed' \in [Instances -> Nat]
    BY DEF JournalInv
<1> QED BY <1>1, <1>4, <1>7, <1>9, <1>10 DEF JournalInv

LEMMA OperateKeeps ==
    ASSUME JournalInv, Operate
    PROVE  JournalInv'
<1>1. PICK i \in Instances : \/ Construct(i)
                             \/ Ask(i)
                             \/ \E e \in Payloads : Request(i, e)
                             \/ \E r \in Releases, limit \in Limits : Recover(i, r, limit)
    BY DEF Operate
<1>2. CASE Construct(i)
    BY <1>2, StartKeeps DEF Construct, Readings
<1>3. CASE Ask(i)
    BY <1>3, StartKeeps DEF Ask, Request, Readings, Query, Opening
<1>4. CASE \E e \in Payloads : Request(i, e)
    BY <1>4, StartKeeps, RecordTypes DEF Request, Records
<1>5. CASE \E r \in Releases, limit \in Limits : Recover(i, r, limit)
    <2>1. PICK r \in Releases, limit \in Limits : Recover(i, r, limit)
        BY <1>5
    <2> DEFINE e == [kind |-> "recovery", id |-> Len(lines) + 1, release |-> r, limit |-> limit]
    <2>2. Len(lines) + 1 \in 1..MaxLines
        BY <2>1, LineTypes, JournalAssumption DEF Recover, JournalInv
    <2>3. e \in Records
        BY <2>2 DEF Records, Recoveries
    <2>4. Request(i, e)
        BY <2>1 DEF Recover
    <2> HIDE DEF e
    <2> QED BY <2>3, <2>4, StartKeeps, RecordTypes DEF Request
<1> QED BY <1>1, <1>2, <1>3, <1>4, <1>5

LEMMA IngestKeeps ==
    ASSUME JournalInv, IngestLine
    PROVE  JournalInv'
<1>1. /\ JournalOK /\ CallOK /\ open \subseteq Instances
      /\ memory \in [Instances -> MapTypes] /\ consumed \in [Instances -> Nat]
      /\ Len(lines) <= MaxLines /\ Len(lines) \in Nat
      /\ \A i \in Instances : InstanceOK(i)
    BY LineTypes DEF JournalInv, JournalOK
<1>2. /\ Busy /\ call.at < Len(lines) /\ lines' = lines /\ consumed' = consumed
      /\ call \in Calls /\ call # Idle /\ Me \in open /\ Me \in Instances
      /\ call.entry = Opening => consumed[Me] = 0
    BY <1>1 DEF IngestLine, CallOK, Busy
<1>3. Grows /\ JournalOK'
    BY <1>1, <1>2, JournalStays DEF Grows
<1>4. PICK at : at = call.at /\ at \in 0..MaxLines /\ at \in Nat
    BY <1>2 DEF Calls
<1> DEFINE line == lines[at + 1]
<1>5. CASE Accepts(memory[Me], Pins[Me], line)
    <2>1. /\ memory' = [memory EXCEPT ![Me] = Apply(memory[Me], line)]
          /\ call' = [call EXCEPT !.at = at + 1] /\ open' = open
        BY <1>4, <1>5 DEF IngestLine
    <2>2. /\ call' \in Calls /\ call'.inst = Me /\ call'.at = at + 1
          /\ call'.entry = call.entry /\ Me' = Me
        <3>1. at + 1 \in 0..MaxLines
            BY <1>1, <1>2, <1>4, JournalAssumption
        <3> QED BY <1>2, <2>1, <3>1 DEF Calls, Me
    <2>3. call' # Idle
        BY <1>2, <2>1 DEF Calls, Idle
    <2>4. CallOK'
        BY <1>1, <1>2, <1>4, <2>1, <2>2, <2>3 DEF CallOK
    <2>5. PICK m \in 0..Len(lines) : /\ consumed[Me] <= m /\ Mirrors(memory[Me], m)
                                     /\ at <= m
        BY <1>1, <1>2, <1>4 DEF InstanceOK
    <2>6. PICK me : me = Me
        OBVIOUS
    <2>7. PICK mem : mem = Apply(memory[Me], line)
        OBVIOUS
    <2>8. \E n \in 0..Len(lines) : consumed[Me] <= n /\ Mirrors(mem, n) /\ at + 1 <= n
        <3>1. CASE at < m
            <4>1. Repeated(memory[Me], line)
                <5>1. at + 1 \in 1..m /\ at + 1 \in 1..Len(lines)
                    BY <1>1, <1>4, <3>1
                <5> QED BY <1>1, <2>5, <5>1, MirrorHolds, LineTypes
            <4>2. mem = memory[Me]
                BY <2>7, <4>1 DEF Apply
            <4> QED BY <1>1, <1>4, <2>5, <3>1, <4>2
        <3>2. CASE ~(at < m)
            <4>1. at = m /\ m < Len(lines) /\ m + 1 \in 0..Len(lines)
                BY <1>1, <1>2, <1>4, <2>5, <3>2
            <4>2. Mirrors(mem, m + 1)
                BY <1>1, <2>5, <2>7, <4>1, MirrorsNext
            <4>3. consumed[Me] \in Nat /\ m \in Nat
                BY <1>1, <1>2
            <4> QED BY <1>4, <2>5, <4>1, <4>2, <4>3
        <3> QED BY <3>1, <3>2
    <2>9. PICK n \in 0..Len(lines) : consumed[me] <= n /\ Mirrors(mem, n) /\ at + 1 <= n
        BY <2>6, <2>8
    <2>10. Mirrors(mem, n)'
        BY <1>1, <1>2, <2>9, MirrorStays
    <2>11. memory'[me] = mem /\ \A i \in Instances \ {me} : memory'[i] = memory[i]
        BY <1>1, <1>2, <2>1, <2>6, <2>7
    <2>12. Mirrors(memory[me], n)'
        BY <2>10, <2>11
    <2>13. mem \in MapTypes
        BY <2>9 DEF Mirrors
    <2>14. InstanceOK(me)'
        BY <1>2, <2>1, <2>2, <2>6, <2>9, <2>12 DEF InstanceOK
    <2>15. ASSUME NEW i \in Instances, i # me
           PROVE  InstanceOK(i)'
        <3>1. Covered(i)
            BY <1>2, <2>2, <2>6, <2>15 DEF Covered
        <3> QED BY <1>2, <1>3, <2>1, <2>11, <2>15, <3>1, InstanceStays
    <2>16. memory' \in [Instances -> MapTypes]
        BY <1>1, <2>1, <2>6, <2>7, <2>13
    <2> QED BY <1>1, <1>2, <1>3, <2>1, <2>4, <2>14, <2>15, <2>16 DEF JournalInv
<1>6. CASE ~Accepts(memory[Me], Pins[Me], line)
    <2>1. /\ call' = Idle
          /\ IF call.entry = Opening
             THEN open' = open \ {Me} /\ memory' = [memory EXCEPT ![Me] = EmptyMemory]
             ELSE open' = open /\ memory' = memory
        BY <1>4, <1>6 DEF IngestLine
    <2>2. CallOK' /\ \A i \in Instances : Covered(i)
        BY <1>2, <2>1 DEF CallOK, Covered, Busy
    <2>3. CASE call.entry = Opening
        <3>1. PICK me : me = Me
            OBVIOUS
        <3>2. /\ open' = open \ {me} /\ memory'[me] = EmptyMemory /\ consumed'[me] = 0
              /\ \A i \in Instances \ {me} : memory'[i] = memory[i]
            BY <1>1, <1>2, <2>1, <2>3, <3>1
        <3>3. PICK mem : mem = EmptyMemory
            OBVIOUS
        <3>4. Mirrors(mem, 0)' /\ 0 \in 0..Len(lines') /\ mem \in MapTypes
            BY <1>1, <1>2, <3>3, EmptyMirrors, MirrorStays DEF Mirrors
        <3>5. Mirrors(memory[me], 0)'
            BY <3>2, <3>3, <3>4
        <3>6. ~Busy'
            BY <2>1 DEF Busy
        <3>7. InstanceOK(me)'
            BY <3>2, <3>4, <3>5, <3>6 DEF InstanceOK
        <3>8. ASSUME NEW i \in Instances, i # me
              PROVE  InstanceOK(i)'
            BY <1>2, <1>3, <2>2, <3>2, <3>8, InstanceStays
        <3>9. memory' \in [Instances -> MapTypes]
            BY <1>1, <2>1, <2>3, <3>3, <3>4
        <3> QED BY <1>1, <1>2, <1>3, <2>2, <3>2, <3>7, <3>8, <3>9 DEF JournalInv
    <2>4. CASE call.entry # Opening
        <3>1. \A i \in Instances : InstanceOK(i)'
            BY <1>2, <1>3, <2>1, <2>2, <2>4, InstanceStays
        <3> QED BY <1>1, <1>2, <1>3, <2>1, <2>2, <2>4, <3>1 DEF JournalInv
    <2> QED BY <2>3, <2>4
<1> QED BY <1>5, <1>6

\* A step at the end of the file, whether or not it leaves a line.
LEMMA FinishKeeps ==
    ASSUME JournalInv, CaughtUp, Grows, Consume, open' = open, memory' = memory,
           \/ call' = Idle
           \/ call.entry # Opening /\ call' = [call EXCEPT !.wrote = TRUE]
    PROVE  JournalInv'
<1>1. /\ JournalOK /\ CallOK /\ open \subseteq Instances
      /\ memory \in [Instances -> MapTypes] /\ consumed \in [Instances -> Nat]
      /\ \A i \in Instances : InstanceOK(i)
      /\ Me \in open /\ Me \in Instances /\ Len(lines) \in Nat
      /\ Busy /\ call.at = Len(lines)
    BY AllRead DEF JournalInv, CaughtUp
<1>2. JournalOK' /\ Len(lines') >= Len(lines) /\ Len(lines') \in Nat
    BY <1>1, JournalStays DEF Grows
<1>3. CallOK' /\ (Busy' => Me' = Me /\ call'.at = call.at)
    <2>1. CASE call' = Idle
        BY <2>1 DEF CallOK, Busy
    <2>2. CASE call.entry # Opening /\ call' = [call EXCEPT !.wrote = TRUE]
        <3>1. call \in Calls
            BY <1>1 DEF CallOK, Busy
        <3>2. /\ call' \in Calls /\ call'.inst = call.inst /\ call'.at = call.at
              /\ call'.entry = call.entry
            BY <2>2, <3>1 DEF Calls
        <3>3. call' # Idle
            BY <2>2, <3>1 DEF Calls, Idle
        <3> QED BY <1>1, <1>2, <2>2, <3>2, <3>3 DEF CallOK, Me
    <2> QED BY <2>1, <2>2
<1>4. consumed' \in [Instances -> Nat] /\ consumed'[Me] = Len(lines)
      /\ \A i \in Instances \ {Me} : consumed'[i] = consumed[i]
    BY <1>1 DEF Consume
<1>5. ASSUME NEW i \in Instances
      PROVE  InstanceOK(i)'
    <2>1. Covered(i)
        BY <1>1, <1>3, <1>4 DEF Covered
    <2> QED BY <1>1, <1>4, <2>1, InstanceStays
<1> QED BY <1>1, <1>2, <1>3, <1>4, <1>5 DEF JournalInv

LEMMA WrittenGrows ==
    ASSUME JournalInv, CaughtUp, ~Settled, Len(lines) < MaxLines,
           lines' = lines \/ lines' = Append(lines, call.entry)
    PROVE  Grows
BY WrittenFits DEF Grows

LEMMA CrashKeeps ==
    ASSUME JournalInv, Crash
    PROVE  JournalInv'
<1>1. JournalOK /\ Grows
    BY WrittenGrows DEF JournalInv, Crash, Grows
<1>2. JournalOK' /\ 0 \in 0..Len(lines')
    BY <1>1, JournalStays DEF Grows
<1>3. PICK mem : mem = EmptyMemory
    OBVIOUS
<1>4. mem \in MapTypes /\ Mirrors(mem, 0)'
    BY <1>1, <1>3, EmptyMirrors, MirrorStays, LineTypes DEF Mirrors, Grows
<1>5. /\ memory' = [i \in Instances |-> mem] /\ consumed' = [i \in Instances |-> 0]
      /\ open' = {} /\ call' = Idle
    BY <1>3 DEF Crash
<1>6. ASSUME NEW i \in Instances
      PROVE  InstanceOK(i)'
    <2>1. memory'[i] = mem /\ consumed'[i] = 0
        BY <1>5
    <2>2. Mirrors(memory[i], 0)'
        BY <1>4, <2>1
    <2> QED BY <1>2, <1>3, <1>5, <2>1, <2>2 DEF InstanceOK, Busy
<1> QED BY <1>2, <1>4, <1>5, <1>6 DEF JournalInv, CallOK

LEMMA JournalInvHolds == Spec => []JournalInv
<1>1. Init => JournalInv
    <2> SUFFICES ASSUME Init PROVE JournalInv
        OBVIOUS
    <2>1. /\ lines = <<>> /\ open = {} /\ call = Idle
          /\ memory = [i \in Instances |-> EmptyMemory] /\ consumed = [i \in Instances |-> 0]
        BY DEF Init
    <2>2. JournalOK
        BY <2>1, JournalAssumption DEF JournalOK
    <2>3. ASSUME NEW i \in Instances
          PROVE  InstanceOK(i)
        BY <2>1, EmptyMirrors DEF InstanceOK, Busy
    <2>4. EmptyMemory \in MapTypes
        BY EmptyMirrors DEF Mirrors
    <2> QED BY <2>1, <2>2, <2>3, <2>4 DEF JournalInv, CallOK
<1>2. JournalInv /\ [Next]_vars => JournalInv'
    <2> SUFFICES ASSUME JournalInv, [Next]_vars PROVE JournalInv'
        OBVIOUS
    <2>1. CASE Operate
        BY <2>1, OperateKeeps
    <2>2. CASE IngestLine
        BY <2>2, IngestKeeps
    <2>3. CASE Return
        <3>1. /\ CaughtUp /\ Grows /\ Consume /\ call' = Idle
              /\ open' = open /\ memory' = memory
            BY <2>3 DEF Return, Grows
        <3> QED BY <3>1, FinishKeeps
    <2>4. CASE Write
        BY <2>4, FinishKeeps, WrittenGrows, WrittenFits DEF Write
    <2>5. CASE WriteFails
        <3>1. /\ CaughtUp /\ ~Settled /\ Consume /\ call' = Idle
              /\ open' = open /\ memory' = memory /\ Len(lines) < MaxLines
              /\ lines' = lines \/ lines' = Append(lines, call.entry)
            BY <2>5 DEF WriteFails
        <3>2. Grows
            BY <3>1, WrittenGrows
        <3> QED BY <3>1, <3>2, FinishKeeps
    <2>6. CASE Crash
        BY <2>6, CrashKeeps
    <2>7. CASE UNCHANGED vars
        <3>1. /\ JournalOK /\ CallOK /\ open \subseteq Instances
              /\ memory \in [Instances -> MapTypes] /\ consumed \in [Instances -> Nat]
            BY DEF JournalInv
        <3>2. UNCHANGED <<lines, open, memory, consumed, call>> /\ Grows
            BY <2>7 DEF vars, Grows
        <3>3. JournalOK' /\ CallOK'
            BY <3>1, <3>2, JournalStays DEF CallOK, Me, Grows
        <3>4. \A i \in Instances : Covered(i)
            BY <3>2 DEF Covered, Busy, Me
        <3>5. \A i \in Instances : InstanceOK(i)'
            BY <3>2, <3>4, InstanceStays
        <3> QED BY <3>1, <3>2, <3>3, <3>5 DEF JournalInv
    <2> QED BY <2>1, <2>2, <2>3, <2>4, <2>5, <2>6, <2>7 DEF Next
<1> QED BY <1>1, <1>2, PTL DEF Spec

-----------------------------------------------------------------------------
(* What the store promises.                                                *)

\* recordDecision, recordOutcome, recover: whatever is retried, conflicts or
\* fails half way, an id has one line of its kind.
THEOREM OneLineCorrect == Spec => []OneLinePerRecord
<1>1. JournalInv => OneLinePerRecord
    <2> SUFFICES ASSUME JournalInv, NEW j \in Positions, NEW k \in Positions,
                        lines[j].kind = lines[k].kind, lines[j].id = lines[k].id
                 PROVE  j = k
        BY DEF OneLinePerRecord
    <2>1. JournalOK /\ j \in 1..Len(lines) /\ k \in 1..Len(lines)
        BY DEF JournalInv, JournalOK, Positions
    <2> QED BY <2>1, OneLine
<1> QED BY <1>1, JournalInvHolds, PTL

\* recordDecision: a decision is frozen only for a release that the journal
\* before it admits, by whichever instance and after whichever failures.
THEOREM DecisionsCorrect == Spec => []DecisionsAreAdmitted
<1>1. JournalInv => DecisionsAreAdmitted
    <2> SUFFICES ASSUME JournalInv, NEW k \in Positions, lines[k].kind = "decision"
                 PROVE  lines[k].release \in AdmittedUpTo(k - 1)
        BY DEF DecisionsAreAdmitted
    <2>1. k \in 1..Len(lines) /\ Fits(lines[k], k - 1)
        BY DEF JournalInv, JournalOK, Positions
    <2> QED BY <2>1 DEF Fits
<1> QED BY <1>1, JournalInvHolds, PTL

\* refresh, ingest: a reader without a policy of its own never throws on a
\* journal that append has written, wherever in it the reader stands.
THEOREM ReplayCorrect == Spec => []JournalReplays
<1>1. JournalInv => JournalReplays
    <2> SUFFICES ASSUME JournalInv, Busy, call.at < Len(lines)
                 PROVE  Accepts(memory[Me], NoLimit, lines[call.at + 1])
        BY DEF JournalReplays
    <2>1. /\ JournalOK /\ Me \in open /\ Me \in Instances /\ Len(lines) \in Nat
          /\ call.at \in 0..MaxLines /\ InstanceOK(Me)
        BY LineTypes DEF JournalInv, CallOK, Busy, Calls
    <2>2. PICK at : at = call.at /\ at \in Nat
        BY <2>1
    <2>3. PICK n \in 0..Len(lines) : Mirrors(memory[Me], n) /\ at <= n
        BY <2>1, <2>2 DEF InstanceOK
    <2>4. at + 1 \in 1..Len(lines) /\ lines[at + 1] \in Records
        BY <2>1, <2>2, LineTypes
    <2>5. CASE at < n
        <3>1. at + 1 \in 1..n
            BY <2>2, <2>5
        <3> QED BY <2>1, <2>2, <2>3, <2>4, <3>1, MirrorHolds DEF Accepts
    <2>6. CASE ~(at < n)
        <3>1. at = n /\ (at + 1) - 1 = n
            BY <2>2, <2>3, <2>6
        <3>2. Fits(lines[at + 1], n)
            BY <2>1, <2>4, <3>1 DEF JournalOK
        <3> QED BY <2>1, <2>2, <2>3, <2>4, <3>2, FitsIsAccepted
    <2> QED BY <2>5, <2>6
<1> QED BY <1>1, JournalInvHolds, PTL

\* isSuspended, recordDecision, recover: what an instance answers at the end
\* of a refresh is what the whole file says.
THEOREM AnswersCorrect == Spec => []AnswersAreCurrent
<1>1. JournalInv => AnswersAreCurrent
    <2> SUFFICES ASSUME JournalInv, CaughtUp PROVE AnswersAreCurrent
        BY DEF AnswersAreCurrent
    <2>1. PICK n : n = Len(lines)
        OBVIOUS
    <2>2. PICK mem : mem = memory[Me]
        OBVIOUS
    <2>3. JournalOK /\ n \in 0..Len(lines) /\ Mirrors(mem, n)
        BY <2>1, <2>2, AllRead DEF JournalInv
    <2>4. /\ Quarantined(mem) = BlamedUpTo(n) /\ AdmittedUpTo(n) \subseteq Releases
          /\ \A r \in Releases : ~Blocked(mem, r) <=> r \in AdmittedUpTo(n)
        BY <2>3, MirrorAnswers
    <2>5. {r \in Releases : ~Blocked(mem, r)} = AdmittedUpTo(n)
        BY <2>4
    <2>6. ASSUME NEW k \in ConvictionsUpTo(n)
          PROVE  mem.rejected[ReleaseAt(k)] >= Slot(k)
        <3>1. ReleaseAt(k) \in Releases
            BY <2>3, ConvictionTypes
        <3> QED BY <2>3, <3>1 DEF Mirrors, Rejects
    <2> QED BY <2>1, <2>2, <2>4, <2>5, <2>6 DEF AnswersAreCurrent
<1> QED BY <1>1, JournalInvHolds, PTL

\* What one more line does to what the journal says.
OneMore ==
    \A n \in Nat : JournalOK /\ n + 1 = Len(lines) =>
        /\ Convicts(n + 1) => /\ ReleaseAt(n + 1) \in Releases
                              /\ BlamedUpTo(n + 1) = BlamedUpTo(n) \cup {ReleaseAt(n + 1)}
                              /\ AdmittedUpTo(n + 1) = {}
        /\ lines[n + 1].kind = "recovery" =>
               /\ lines[n + 1].release \in Releases \ BlamedUpTo(n)
               /\ BlamedUpTo(n) # {} /\ BlamedUpTo(n + 1) = BlamedUpTo(n)
               /\ AdmittedUpTo(n + 1) = {lines[n + 1].release}
        /\ lines[n + 1].kind # "recovery" /\ ~Convicts(n + 1) =>
               BlamedUpTo(n + 1) = BlamedUpTo(n) /\ AdmittedUpTo(n + 1) = AdmittedUpTo(n)

LEMMA OneMoreHolds == OneMore
<1> SUFFICES ASSUME NEW n \in Nat, JournalOK, n + 1 = Len(lines)
             PROVE  /\ Convicts(n + 1) =>
                           /\ ReleaseAt(n + 1) \in Releases
                           /\ BlamedUpTo(n + 1) = BlamedUpTo(n) \cup {ReleaseAt(n + 1)}
                           /\ AdmittedUpTo(n + 1) = {}
                    /\ lines[n + 1].kind = "recovery" =>
                           /\ lines[n + 1].release \in Releases \ BlamedUpTo(n)
                           /\ BlamedUpTo(n) # {} /\ BlamedUpTo(n + 1) = BlamedUpTo(n)
                           /\ AdmittedUpTo(n + 1) = {lines[n + 1].release}
                    /\ lines[n + 1].kind # "recovery" /\ ~Convicts(n + 1) =>
                           /\ BlamedUpTo(n + 1) = BlamedUpTo(n)
                           /\ AdmittedUpTo(n + 1) = AdmittedUpTo(n)
    BY DEF OneMore
<1>1. n \in 0..Len(lines) /\ n < Len(lines) /\ n + 1 \in 0..Len(lines) /\ n + 1 \in 1..Len(lines)
    OBVIOUS
<1>2. ConvictionsUpTo(n + 1) = ConvictionsUpTo(n) \cup (IF Convicts(n + 1) THEN {n + 1} ELSE {})
    BY <1>1, NextConvictions
<1>3. BlamedUpTo(n + 1) =
          BlamedUpTo(n) \cup (IF Convicts(n + 1) THEN {ReleaseAt(n + 1)} ELSE {})
    BY <1>2 DEF BlamedUpTo
<1>4. \A m : AdmittedUpTo(m) = IF ConvictionsUpTo(m) = {} THEN Releases ELSE RecoveredUpTo(m)
    BY DEF AdmittedUpTo, RecoveredUpTo
<1>5. ASSUME Convicts(n + 1)
      PROVE  ReleaseAt(n + 1) \in Releases /\ AdmittedUpTo(n + 1) = {}
    <2>1. n + 1 \in ConvictionsUpTo(n + 1) /\ RecoveredUpTo(n + 1) = {}
        BY <1>1, <1>2, <1>5, NextRecovered
    <2> QED BY <1>1, <1>4, <2>1, ConvictionTypes
<1>6. ASSUME lines[n + 1].kind = "recovery"
      PROVE  /\ lines[n + 1].release \in Releases \ BlamedUpTo(n)
             /\ BlamedUpTo(n) # {} /\ BlamedUpTo(n + 1) = BlamedUpTo(n)
             /\ AdmittedUpTo(n + 1) = {lines[n + 1].release}
    <2> DEFINE r == lines[n + 1].release
    <2>1. ~Convicts(n + 1) /\ (n + 1) - 1 = n
        BY <1>6 DEF Convicts, IsOutcome
    <2>2. Fits(lines[n + 1], n)
        BY <1>1, <2>1 DEF JournalOK
    <2>3. ConvictionsUpTo(n) # {} /\ \A k \in ConvictionsUpTo(n) : r.revision > ReleaseAt(k).revision
        BY <1>6, <2>2 DEF Fits
    <2>4. r \in Releases
        BY <1>1, <1>6, LineTypes DEF Recoveries
    <2>5. r.revision \in Nat
        BY <2>4, RecordsAssumption
    <2>6. \A k \in ConvictionsUpTo(n) : ReleaseAt(k) # r
        BY <2>3, <2>5
    <2>7. RecoveredUpTo(n + 1) = {r}
        BY <1>1, <1>6, NextRecovered
    <2> QED BY <1>2, <1>3, <1>4, <2>1, <2>3, <2>4, <2>6, <2>7 DEF BlamedUpTo
<1>7. ASSUME lines[n + 1].kind # "recovery", ~Convicts(n + 1)
      PROVE  AdmittedUpTo(n + 1) = AdmittedUpTo(n)
    BY <1>1, <1>2, <1>4, <1>7, NextRecovered
<1> QED BY <1>3, <1>5, <1>6, <1>7

\* A step leaves the file, or adds one line that fits.
LEMMA StepsGrow ==
    ASSUME JournalInv, [Next]_vars
    PROVE  Grows
<1>1. CASE Operate
    BY <1>1 DEF Operate, Construct, Ask, Recover, Request, Start, Grows
<1>2. CASE IngestLine \/ Return \/ UNCHANGED vars
    BY <1>2 DEF IngestLine, Return, vars, Grows
<1>3. CASE Write \/ WriteFails \/ Crash
    BY <1>3, WrittenGrows DEF Write, WriteFails, Crash, Grows
<1> QED BY <1>1, <1>2, <1>3 DEF Next

\* FileControlStore implements ControlGate: read off the file alone, every
\* step blames a release, recovers a release nobody has blamed, or changes
\* nothing of what is admitted.
THEOREM JournalImplementsGate == Spec => GateSpec
<1>1. Init => Gate!Init
    <2> SUFFICES ASSUME Init PROVE Gate!Init
        OBVIOUS
    <2>1. Len(lines) = 0 /\ 1..0 = {}
        BY DEF Init
    <2> QED BY <2>1 DEF Gate!Init, AdmittedUpTo, BlamedUpTo, ConvictionsUpTo
<1>2. JournalInv /\ JournalInv' /\ OneMore' /\ [Next]_vars => [Gate!Next]_(Gate!vars)
    <2> SUFFICES ASSUME JournalInv, JournalInv', OneMore', [Next]_vars
                 PROVE  [Gate!Next]_(Gate!vars)
        OBVIOUS
    <2>1. JournalOK /\ JournalOK' /\ Grows /\ Len(lines) \in Nat
        BY StepsGrow, LineTypes DEF JournalInv
    <2>2. PICK n : n = Len(lines) /\ n \in 0..Len(lines)
        BY <2>1
    <2>3. PICK m : m = Len(lines')
        OBVIOUS
    <2>4. /\ AdmittedUpTo(Len(lines))' = AdmittedUpTo(m)'
          /\ BlamedUpTo(Len(lines))' = BlamedUpTo(m)'
        BY <2>3
    <2>5. /\ AdmittedUpTo(n)' = AdmittedUpTo(Len(lines))
          /\ BlamedUpTo(n)' = BlamedUpTo(Len(lines))
        BY <2>1, <2>2, Prefix DEF Grows
    <2>6. CASE lines' = lines
        <3>1. m = n
            BY <2>2, <2>3, <2>6
        <3> QED BY <2>4, <2>5, <3>1 DEF Gate!vars
    <2>7. CASE \E e : lines' = Append(lines, e)
        <3>1. m = n + 1 /\ n \in Nat
            BY <2>1, <2>2, <2>3, <2>7 DEF JournalOK
        <3>2. CASE Convicts(m)'
            <4>1. /\ ReleaseAt(m)' \in Releases
                  /\ BlamedUpTo(m)' = BlamedUpTo(n)' \cup {ReleaseAt(m)'}
                  /\ AdmittedUpTo(m)' = {}
                BY <2>1, <2>3, <3>1, <3>2 DEF OneMore
            <4>2. Gate!Blame(ReleaseAt(m)')
                BY <2>4, <2>5, <4>1 DEF Gate!Blame
            <4> QED BY <4>1, <4>2 DEF Gate!Next
        <3>3. CASE lines'[m].kind = "recovery"
            <4>1. /\ lines'[m].release \in Releases \ BlamedUpTo(n)'
                  /\ BlamedUpTo(n)' # {} /\ BlamedUpTo(m)' = BlamedUpTo(n)'
                  /\ AdmittedUpTo(m)' = {lines'[m].release}
                BY <2>1, <2>3, <3>1, <3>3 DEF OneMore
            <4>2. Gate!Recover(lines'[m].release)
                BY <2>4, <2>5, <4>1 DEF Gate!Recover
            <4> QED BY <4>1, <4>2 DEF Gate!Next
        <3>4. CASE lines'[m].kind # "recovery" /\ ~Convicts(m)'
            <4>1. BlamedUpTo(m)' = BlamedUpTo(n)' /\ AdmittedUpTo(m)' = AdmittedUpTo(n)'
                BY <2>1, <2>3, <3>1, <3>4 DEF OneMore
            <4> QED BY <2>4, <2>5, <4>1 DEF Gate!vars
        <3> QED BY <3>2, <3>3, <3>4
    <2> QED BY <2>1, <2>6, <2>7 DEF Grows
<1> QED BY <1>1, <1>2, OneMoreHolds, JournalInvHolds, PTL DEF Spec, GateSpec, Gate!Spec
==============================================================================
