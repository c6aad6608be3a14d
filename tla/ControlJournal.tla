--------------------------- MODULE ControlJournal ----------------------------
(***************************************************************************)
(* FileControlStore (typescript/src/control-store.ts): the append-only     *)
(* journal of one profile and the store instances of one process.          *)
(*                                                                         *)
(* A call of the store is synchronous, so no other instance acts before it *)
(* ends; but it ingests the file line by line and may throw in the middle, *)
(* keeping what it has ingested, and the process may die in it.  The file  *)
(* is its complete lines and a flag for a last line without its newline.   *)
(* A second writing process and edits by others, which the store refuses   *)
(* or does not support, are left out.  The releaseRisk check of a recovery *)
(* and its qualification can only refuse it: an operator who has no such   *)
(* evidence does not get here.                                             *)
(***************************************************************************)
EXTENDS ControlRecords, Sequences, FiniteSets

CONSTANTS
    Instances,      \* FileControlStore objects of the process
    Pins,           \* expectedMaxFailureStreak of an instance, or NoLimit
    Payloads,       \* the decisions and outcomes callers submit
    MaxLines        \* bound on the journal's length

ASSUME JournalAssumption ==
    /\ Pins \in [Instances -> Limits \cup {NoLimit}]
    /\ Payloads \subseteq Decisions \cup OutcomeRecords
    /\ MaxLines \in Nat

VARIABLES
    lines,          \* complete lines of the file
    torn,           \* the file ends in a line without its newline
    open,           \* instances the process holds
    memory,         \* the maps of each instance
    consumed,       \* lines behind consumedBytes of each instance
    call            \* the call being executed

vars == <<lines, torn, open, memory, consumed, call>>

\* isSuspended and the constructor append nothing.
Query == [kind |-> "query"]
Opening == [kind |-> "opening"]
Readings == {Query, Opening}
Idle == [inst |-> "none"]

Recoveries == [kind : {"recovery"}, id : 1..MaxLines, release : Releases, limit : Limits]
Records == Payloads \cup Recoveries

Calls == [inst : Instances, entry : Records \cup Readings, at : 0..MaxLines, wrote : BOOLEAN]

Init == /\ lines = <<>>
        /\ torn = FALSE
        /\ open = {}
        /\ memory = [i \in Instances |-> EmptyMemory]
        /\ consumed = [i \in Instances |-> 0]
        /\ call = Idle

Me == call.inst
Busy == call # Idle

\* Mutant: append trusts the maps without reading what others wrote.
StartStale(i, e) ==
    /\ ~Busy /\ ~torn
    /\ call' = [inst |-> i, entry |-> e, wrote |-> FALSE,
                at |-> IF e \in Readings THEN consumed[i] ELSE Len(lines)]
    /\ UNCHANGED <<lines, torn>>

\* refresh reads the whole file and refuses it when its last line is torn.
Start(i, e) ==
    /\ ~Busy /\ ~torn
    /\ call' = [inst |-> i, entry |-> e, at |-> consumed[i], wrote |-> FALSE]
    /\ UNCHANGED <<lines, torn>>

\* The constructor: its maps are empty, then a refresh.
Construct(i) == /\ i \notin open
                /\ open' = open \cup {i}
                /\ Start(i, Opening)
                /\ UNCHANGED <<memory, consumed>>

\* recordDecision, recordOutcome, recover, isSuspended.  A recovery gets a
\* fresh id each time.
Request(i, e) == /\ i \in open
                 /\ Start(i, e)
                 /\ UNCHANGED <<open, memory, consumed>>

Ask(i) == Request(i, Query)
Recover(i, r, limit) ==
    /\ Len(lines) < MaxLines
    /\ Request(i, [kind |-> "recovery", id |-> Len(lines) + 1, release |-> r, limit |-> limit])

\* refresh: the next line of the suffix is ingested, or throws.  What was
\* ingested before a throw stays in the maps; consumedBytes does not move.
\* A constructor that throws yields no instance.
IngestLine ==
    /\ Busy /\ call.at < Len(lines)
    /\ LET line == lines[call.at + 1]
       IN  IF Accepts(memory[Me], Pins[Me], line)
           THEN /\ memory' = [memory EXCEPT ![Me] = Apply(memory[Me], line)]
                /\ call' = [call EXCEPT !.at = @ + 1]
                /\ UNCHANGED open
           ELSE /\ call' = Idle
                /\ IF call.entry = Opening
                   THEN open' = open \ {Me} /\ memory' = [memory EXCEPT ![Me] = EmptyMemory]
                   ELSE UNCHANGED <<open, memory>>
    /\ UNCHANGED <<lines, torn, consumed>>

CaughtUp == Busy /\ call.at = Len(lines)

\* The suffix is ingested: consumedBytes moves to the end of the file.
Consume == consumed' = [consumed EXCEPT ![Me] = Len(lines)]

\* Mutant: recordDecision does not look at the quarantines.
RefusedIfInvalid(e) == ~Accepts(memory[Me], Pins[Me], e)

\* Mutant: a record held already is appended once more.
SettledUnlessRefused == IF call.entry \in Readings \/ call.wrote THEN TRUE
                        ELSE ~Accepts(memory[Me], Pins[Me], call.entry)

\* The call ends: it asked only, it has written, the record is held already,
\* or it is refused (invalid, conflicting, or a decision of a release that
\* is quarantined).
Refused(e) == \/ ~Accepts(memory[Me], Pins[Me], e)
              \/ e.kind = "decision" /\ Blocked(memory[Me], e.release)
Settled == IF call.entry \in Readings \/ call.wrote THEN TRUE
           ELSE Repeated(memory[Me], call.entry) \/ Refused(call.entry)
Return == /\ CaughtUp /\ Settled
          /\ Consume
          /\ call' = Idle
          /\ UNCHANGED <<lines, torn, open, memory>>

\* append writes the record and its newline; the refresh after it ingests it.
Write == /\ CaughtUp /\ ~Settled /\ Len(lines) < MaxLines
         /\ lines' = Append(lines, call.entry)
         /\ Consume
         /\ call' = [call EXCEPT !.wrote = TRUE]
         /\ UNCHANGED <<torn, open, memory>>

\* appendFileSync or fsyncSync throws: part of the line, or all of it, is in
\* the file; the caller gets an error and the instance has not seen the line.
WriteFails == /\ CaughtUp /\ ~Settled /\ Len(lines) < MaxLines
              /\ Consume
              /\ call' = Idle
              /\ \/ torn' = TRUE /\ UNCHANGED lines
                 \/ lines' = Append(lines, call.entry) /\ UNCHANGED torn
              /\ UNCHANGED <<open, memory>>

\* The process dies, between calls or in one, with the line it was writing
\* absent, torn or complete.
Crash == /\ open # {}
         /\ open' = {}
         /\ call' = Idle
         /\ \/ UNCHANGED <<lines, torn>>
            \/ /\ CaughtUp /\ ~Settled /\ Len(lines) < MaxLines
               /\ \/ torn' = TRUE /\ UNCHANGED lines
                  \/ lines' = Append(lines, call.entry) /\ UNCHANGED torn
         /\ memory' = [i \in Instances |-> EmptyMemory]
         /\ consumed' = [i \in Instances |-> 0]

Operate == \E i \in Instances :
               \/ Construct(i)
               \/ Ask(i)
               \/ \E e \in Payloads : Request(i, e)
               \/ \E r \in Releases, limit \in Limits : Recover(i, r, limit)

Next == Operate \/ IngestLine \/ Return \/ Write \/ WriteFails \/ Crash

Spec == Init /\ [][Next]_vars

-----------------------------------------------------------------------------
(* What the lines of a journal say, read as a whole and without a memory.  *)

Positions == DOMAIN lines
IsOutcome(k) == lines[k].kind = "outcome"
DecisionAt(k) == CHOOSE d \in {lines[j] : j \in 1..k} : d.kind = "decision" /\ d.id = lines[k].id
ReleaseAt(k) == IF IsOutcome(k) THEN DecisionAt(k).release ELSE lines[k].release

\* The controls of a release since its last measured one, up to line k.
RunUpTo(k) ==
    {j \in 1..k : /\ IsOutcome(j) /\ ReleaseAt(j) = ReleaseAt(k)
                  /\ \A x \in j..k : IsOutcome(x) /\ ReleaseAt(x) = ReleaseAt(k)
                                         => ~Measured(lines[x].result)}

\* An outcome convicts by an excess or as the last of too long a run.
Convicts(k) == IsOutcome(k) /\ \/ Excess(lines[k].result)
                               \/ Cardinality(RunUpTo(k)) >= DecisionAt(k).limit
Slot(k) == RejectedAt(DecisionAt(k), lines[k])

ConvictionsUpTo(n) == {k \in 1..n : Convicts(k)}
BlamedUpTo(n) == {ReleaseAt(k) : k \in ConvictionsUpTo(n)}

\* The last recovery after the last conviction, if there was a conviction.
AdmittedUpTo(n) ==
    IF ConvictionsUpTo(n) = {} THEN Releases
    ELSE {ReleaseAt(k) : k \in {j \in 1..n :
              /\ lines[j].kind = "recovery"
              /\ \A x \in (j + 1)..n : lines[x].kind # "recovery" /\ ~Convicts(x)}}

-----------------------------------------------------------------------------
TypeOK ==
    /\ \A i \in Instances \ open : memory[i] = EmptyMemory /\ consumed[i] = 0
    /\ Len(lines) <= MaxLines
    /\ \A k \in Positions : lines[k] \in Records
    /\ torn \in BOOLEAN
    /\ open \subseteq Instances
    /\ consumed \in [Instances -> 0..MaxLines]
    /\ call \in Calls \cup {Idle}
    /\ \A i \in Instances :
           /\ memory[i].decisions \subseteq Decisions
           /\ memory[i].outcomes \subseteq OutcomeRecords
           /\ memory[i].recoveries \subseteq Recoveries
           /\ memory[i].rejected \in [Releases -> Slots \cup {NoSlot}]
           /\ memory[i].recovered \in Releases \cup {NoRelease}
           /\ memory[i].streak \in [Releases -> 0..MaxLines]
           /\ memory[i].policy \in [Releases -> Limits \cup {NoLimit}]

\* The constructor's replay (refresh, ingest) accepts every journal that
\* append has written, whichever instances wrote it and however the process
\* ended: an instance without a policy of its own never throws on a line.
JournalReplays ==
    Busy /\ Pins[Me] = NoLimit /\ call.at < Len(lines)
        => Accepts(memory[Me], NoLimit, lines[call.at + 1])

\* What an instance answers after a refresh (isQuarantined, rejectedSlot) is
\* what the whole file says, although it ingested the file in pieces, some
\* of them twice, and some of them in calls that threw.
AnswersAreCurrent ==
    CaughtUp =>
        LET mem == memory[Me]
            n == Len(lines)
        IN  /\ Quarantined(mem) = BlamedUpTo(n)
            /\ {r \in Releases : ~Blocked(mem, r)} = AdmittedUpTo(n)
            /\ \A k \in ConvictionsUpTo(n) : mem.rejected[ReleaseAt(k)] >= Slot(k)

\* recordDecision never freezes a decision of a release that the journal, at
\* that line, has quarantined; a retry after a failed write is no exception.
DecisionsAreAdmitted ==
    \A k \in Positions :
        lines[k].kind = "decision" => lines[k].release \in AdmittedUpTo(k - 1)

\* An id names one record of its kind: a retried or conflicting submission
\* never adds a second line, even when the first attempt reported an error.
OneLinePerRecord ==
    \A j, k \in Positions :
        lines[j].kind = lines[k].kind /\ lines[j].id = lines[k].id => j = k

\* The store keeps the promise of ControlGate, read off the file alone.
Gate == INSTANCE ControlGate WITH
            admitted <- AdmittedUpTo(Len(lines)), blamed <- BlamedUpTo(Len(lines))
GateSpec == Gate!Spec
==============================================================================
