--------------------------- MODULE ShadowCollection ----------------------------
(***************************************************************************)
(* collect_shadow (src/cu_pilot/shadow.py): collectors in several          *)
(* processes over one ObservationStore and one registry.  Each store       *)
(* method is a transaction; the collectors interleave between any two and  *)
(* may die between any two, to run again from the start of their requests. *)
(*                                                                         *)
(* A request is an observation id and an input (inputs that validate to    *)
(* the same values are one input).  A plan or a result carries its own     *)
(* timings, so each one made is new: it is known by a serial number.  Only *)
(* the fallback for a request that could not be prepared or executed is    *)
(* the same each time.  Of the registry there is the control draw and the  *)
(* audited outcome of an id (lifecycle.py select_control, record_control). *)
(***************************************************************************)
EXTENDS Integers, Sequences

CONSTANTS
    Collectors,
    Ids,            \* observation ids
    Inputs,
    Streams,        \* sequences of requests that collectors are given
    MaxSerial,      \* bound on the plans and results made
    MaxRuns         \* bound on the runs started

ASSUME CollectionAssumption ==
    /\ Streams \subseteq Seq([id : Ids, input : Inputs]) \ {<<>>}
    /\ "none" \notin Inputs
    /\ MaxSerial \in Nat /\ MaxRuns \in Nat

VARIABLES
    row,            \* observations with their preparation trace, one per id
    checkpoint,     \* checkpoints, one per stream
    control,        \* the registry's selection and recorded outcome of an id
    collector,      \* where each collector stands
    serial, runs    \* plans and results made, and runs started

vars == <<row, checkpoint, control, collector, serial, runs>>

None == [serial |-> 0, draw |-> "none"]
NoResult == [serial |-> -1, plan |-> None]
Fallback == [serial |-> 0, plan |-> None]
Selections == {"none", "selected", "unselected"}
Plans == [serial : 0..MaxSerial, draw : Selections]
Results == [serial : -1..MaxSerial, plan : Plans]

Empty == [input |-> "none", plan |-> None, result |-> NoResult, phase |-> "pending", trace |-> 0]
Steps == {"idle", "ingest", "look", "resume", "prepare", "freeze", "execute", "finish",
          "audit", "trace"}
Resting == [step |-> "idle", stream |-> <<>>, cursor |-> 0, plan |-> None, result |-> NoResult,
            fresh |-> FALSE]

Init == /\ row = [i \in Ids |-> Empty]
        /\ checkpoint = [s \in Streams |-> 0]
        /\ control = [i \in Ids |-> [draw |-> "none", outcome |-> NoResult]]
        /\ collector = [c \in Collectors |-> Resting]
        /\ serial = 0 /\ runs = 0

\* Some fields of a record change.
Amend(record, changes) ==
    [f \in DOMAIN record |-> IF f \in DOMAIN changes THEN changes[f] ELSE record[f]]

At(c, step) == collector[c].step = step
Become(c, changes) == collector' = [collector EXCEPT ![c] = Amend(@, changes)]
Request(c) == collector[c].stream[collector[c].cursor]
Id(c) == Request(c).id
Row(c) == row[Id(c)]
Kept(i, changes) == row' = [row EXCEPT ![i] = Amend(@, changes)]

Selected(result) == result.plan.draw = "selected"

\* A conflict is recorded and raised, which ends the run.
Raise(c) == Become(c, Resting)

\* The next request, or the end of the stream.
Advance(c) ==
    IF collector[c].cursor < Len(collector[c].stream)
    THEN Become(c, [Resting EXCEPT !.step = "ingest", !.stream = collector[c].stream,
                                   !.cursor = collector[c].cursor + 1])
    ELSE Become(c, Resting)

Run(c, s) == /\ At(c, "idle") /\ runs < MaxRuns
             /\ runs' = runs + 1
             /\ Become(c, [step |-> "ingest", stream |-> s, cursor |-> 1])
             /\ UNCHANGED <<row, checkpoint, control, serial>>

\* ingest keeps the first input of an id; another one is a conflict.
Ingest(c) ==
    /\ At(c, "ingest")
    /\ IF Row(c).input \in {"none", Request(c).input}
       THEN /\ Kept(Id(c), [input |-> Request(c).input])
            /\ Become(c, [step |-> "look"])
       ELSE Raise(c) /\ UNCHANGED row
    /\ UNCHANGED <<checkpoint, control, serial, runs>>

\* get: a completed observation is finished again with its own result, a
\* planned one executed, another one prepared.
Look(c) ==
    /\ At(c, "look")
    /\ Become(c, IF Row(c).phase = "complete" THEN [step |-> "resume", result |-> Row(c).result]
                 ELSE IF Row(c).plan = None THEN [step |-> "prepare"]
                 ELSE [step |-> "execute", plan |-> Row(c).plan])
    /\ UNCHANGED <<row, checkpoint, control, serial, runs>>

\* prepare_decision makes a plan: without a draw when the registry grants
\* nothing, otherwise with the selection that the id has or now gets.
Draws(i) == CASE control[i].draw = "none"     -> {"none", "selected", "unselected"}
              [] control[i].draw = "selected" -> {"none", "selected"}
              [] OTHER                        -> {"none", "unselected"}
Prepare(c) ==
    /\ At(c, "prepare") /\ serial < MaxSerial
    /\ \E draw \in Draws(Id(c)) :
           /\ control' = [control EXCEPT ![Id(c)].draw = IF draw = "none" THEN @ ELSE draw]
           /\ Become(c, [step |-> "freeze", plan |-> [serial |-> serial + 1, draw |-> draw]])
    /\ serial' = serial + 1
    /\ UNCHANGED <<row, checkpoint, runs>>

\* prepare_decision or execute_decision raises ValueError or RpcError.
FallBack(c) ==
    /\ At(c, "prepare") \/ At(c, "execute")
    /\ Become(c, [step |-> "finish", result |-> Fallback, fresh |-> TRUE])
    /\ UNCHANGED <<row, checkpoint, control, serial, runs>>

\* freeze_plan: the first plan is kept and moves the phase; another one is a
\* conflict.
Freeze(c) ==
    /\ At(c, "freeze")
    /\ IF Row(c).plan = None
       THEN /\ Kept(Id(c), [plan |-> collector[c].plan, phase |-> "planned"])
            /\ Become(c, [step |-> "execute"])
       ELSE Raise(c) /\ UNCHANGED row
    /\ UNCHANGED <<checkpoint, control, serial, runs>>

\* Mutant: the registry hears of the control before the label is stored.
ExecuteAndAudit(c) ==
    /\ At(c, "execute") /\ serial < MaxSerial
    /\ LET result == [serial |-> serial + 1, plan |-> collector[c].plan]
       IN  /\ Become(c, [step |-> "finish", fresh |-> TRUE, result |-> result])
           /\ control' = [control EXCEPT ![Id(c)].outcome =
                              IF Selected(result) /\ @ = NoResult THEN result ELSE @]
    /\ serial' = serial + 1
    /\ UNCHANGED <<row, checkpoint, runs>>

\* execute_decision simulates the plan.
Execute(c) ==
    /\ At(c, "execute") /\ serial < MaxSerial
    /\ Become(c, [step |-> "finish", fresh |-> TRUE,
                  result |-> [serial |-> serial + 1, plan |-> collector[c].plan]])
    /\ serial' = serial + 1
    /\ UNCHANGED <<row, checkpoint, control, runs>>

Larger(a, b) == IF a > b THEN a ELSE b

\* A checkpoint never moves back.
Checkpoint(c) ==
    checkpoint' = [checkpoint EXCEPT ![collector[c].stream] = Larger(@, collector[c].cursor)]

\* Mutant: the last label wins.
FinishReplaces(c) ==
    /\ At(c, "resume") \/ At(c, "finish")
    /\ Kept(Id(c), [result |-> collector[c].result, phase |-> "complete"])
    /\ Checkpoint(c)
    /\ Become(c, [step |-> "audit"])
    /\ UNCHANGED <<control, serial, runs>>

\* finish: the first result is kept and completes the observation; an equal
\* one changes nothing; another one is a conflict.  The result and the
\* checkpoint commit together.
Finish(c) ==
    /\ At(c, "resume") \/ At(c, "finish")
    /\ IF Row(c).result \in {NoResult, collector[c].result}
       THEN /\ IF Row(c).result = NoResult
               THEN Kept(Id(c), [result |-> collector[c].result, phase |-> "complete"])
               ELSE UNCHANGED row
            /\ Checkpoint(c)
            /\ Become(c, [step |-> "audit"])
       ELSE Raise(c) /\ UNCHANGED <<row, checkpoint>>
    /\ UNCHANGED <<control, serial, runs>>

AfterAudit(c) == IF collector[c].fresh THEN Become(c, [step |-> "trace"]) ELSE Advance(c)

\* Mutant: only a fresh result is audited.
AuditFresh(c) ==
    /\ At(c, "audit")
    /\ LET r == collector[c].result
       IN  IF Selected(r) /\ collector[c].fresh
           THEN /\ control[Id(c)].outcome \in {NoResult, r}
                /\ control' = [control EXCEPT ![Id(c)].outcome = r]
           ELSE UNCHANGED control
    /\ AfterAudit(c)
    /\ UNCHANGED <<row, checkpoint, serial, runs>>

\* audit_control: record_control keeps the first outcome of a selected id
\* and raises at another one.  A result without a plan audits nothing.
Audit(c) ==
    /\ At(c, "audit")
    /\ LET r == collector[c].result
           known == control[Id(c)].outcome
       IN  IF ~Selected(r) THEN AfterAudit(c) /\ UNCHANGED control
           ELSE IF known \in {NoResult, r}
           THEN AfterAudit(c) /\ control' = [control EXCEPT ![Id(c)].outcome = r]
           ELSE Raise(c) /\ UNCHANGED control
    /\ UNCHANGED <<row, checkpoint, serial, runs>>

\* record_preparation: the first trace is kept; the trace of another run,
\* with its own timings, is a conflict.
Trace(c) ==
    /\ At(c, "trace")
    /\ IF Row(c).trace = 0
       THEN Kept(Id(c), [trace |-> 1]) /\ Advance(c)
       ELSE Raise(c) /\ UNCHANGED row
    /\ UNCHANGED <<checkpoint, control, serial, runs>>

\* The process dies, or is cancelled or bounded between two requests.
Crash(c) == /\ ~At(c, "idle")
            /\ Become(c, Resting)
            /\ UNCHANGED <<row, checkpoint, control, serial, runs>>

Step(c) == \/ Ingest(c) \/ Look(c) \/ Prepare(c) \/ FallBack(c) \/ Freeze(c) \/ Execute(c)
           \/ Finish(c) \/ Audit(c) \/ Trace(c)

Next == \E c \in Collectors : Step(c) \/ Crash(c) \/ \E s \in Streams : Run(c, s)

Spec == Init /\ [][Next]_vars

-----------------------------------------------------------------------------
TypeOK ==
    /\ row \in [Ids -> [input : Inputs \cup {"none"}, plan : Plans, result : Results,
                        phase : {"pending", "planned", "complete"}, trace : 0..1]]
    /\ \A s \in Streams : checkpoint[s] \in 0..Len(s)
    /\ control \in [Ids -> [draw : Selections, outcome : Results]]
    /\ collector \in [Collectors -> [step : Steps, stream : Streams \cup {<<>>}, cursor : Nat,
                                    plan : Plans, result : Results, fresh : BOOLEAN]]
    /\ serial \in 0..MaxSerial /\ runs \in 0..MaxRuns

\* What is stored of an observation, its draw and its audited outcome never
\* change, in spite of restarts and other collectors.
EvidenceIsFinal ==
    [][\A i \in Ids :
          /\ row[i].input # "none" => row'[i].input = row[i].input
          /\ row[i].plan # None => row'[i].plan = row[i].plan
          /\ row[i].result # NoResult => row'[i].result = row[i].result
          /\ control[i].draw # "none" => control'[i].draw = control[i].draw
          /\ control[i].outcome # NoResult => control'[i].outcome = control[i].outcome]_vars

\* The registry is told only what the store holds (569-572: the primary label
\* commits first), a label is of the plan frozen for its id, whichever
\* collectors prepared, froze and simulated it, and a checkpoint is passed only
\* by requests whose own input has a label.
StoreIsAhead ==
    /\ \A i \in Ids : /\ control[i].outcome \in {NoResult, row[i].result}
                      /\ row[i].result # NoResult => row[i].result.plan \in {None, row[i].plan}
    /\ \A s \in Streams : \A k \in 1..checkpoint[s] :
           /\ row[s[k].id].result # NoResult
           /\ row[s[k].id].input = s[k].input

\* A collector leaves no request behind whose control was drawn and simulated
\* but not counted by the registry, be it that an earlier run died between
\* the label and its audit.
PassedIsAudited ==
    \A c \in Collectors : \A k \in 1..(collector[c].cursor - 1) :
        LET i == collector[c].stream[k].id
        IN  Selected(row[i].result) => control[i].outcome = row[i].result

\* docs/lifecycle.md promises that a restart reuses the frozen evidence and
\* does not repeat the simulation: an observation that has its label is never
\* sent to be prepared or simulated again.
RestartReusesEvidence ==
    [][\A c \in Collectors :
          Look(c) /\ Row(c).result # NoResult => collector'[c].step = "resume"]_vars
==============================================================================
