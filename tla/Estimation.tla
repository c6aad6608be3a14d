----------------------------- MODULE Estimation ------------------------------
(***************************************************************************)
(* estimate_resources (src/cu_pilot/integration.py): callers in several    *)
(* processes who prepare and execute a decision over one ProfileRegistry.  *)
(* Every registry method is a transaction of its own, so other callers,    *)
(* operators and the watcher act between any two of them, and a caller may *)
(* die between any two and ask again under the same observation id.        *)
(*                                                                         *)
(* A call is the caller's artifact (its digest), the observation id, the   *)
(* slot of its context and its options.  Binding, prediction and lookups   *)
(* read nothing that changes; a message they refuse ends a call before it  *)
(* reaches the registry and is left out.  The artifact's prediction is     *)
(* calibrated: with any other one the call only simulates.                 *)
(***************************************************************************)
EXTENDS ProfileRegistry

CONSTANTS
    Callers,        \* processes that estimate
    Calls           \* what they ask for

ASSUME CallsAssumption ==
    Calls \subseteq [digest : Digests, id : Requests, slot : Slots, shadow : BOOLEAN]

VARIABLES
    caller,         \* where each caller stands
    trusted         \* history: the caller's artifact, if out of quarantine when it was loaded

evars == <<caller, trusted>>

Phases == {"idle", "check", "select", "execute", "load", "compare", "simulate", "record"}
Statuses == {"none", "accepted", "simulated", "unresolved", "refused", "conflict"}
NoCall == [digest |-> NoDigest, id |-> "none", slot |-> NoSlot, shadow |-> FALSE]
Resting == [phase |-> "idle", call |-> NoCall, revision |-> NoRevision, selected |-> FALSE,
            outcome |-> "none", observed |-> NoSlot, status |-> "none"]

EInit == /\ caller = [c \in Callers |-> Resting]
         /\ trusted = [c \in Callers |-> {}]

At(c, phase) == caller[c].phase = phase

\* Some fields of a record change.
Amend(record, changes) ==
    [f \in DOMAIN record |-> IF f \in DOMAIN changes THEN changes[f] ELSE record[f]]

Become(c, changes) == caller' = [caller EXCEPT ![c] = Amend(@, changes)]
Reads == UNCHANGED vars
Same == UNCHANGED trusted

\* A caller asks, perhaps again, with the same or other inputs for an id.
Ask(c, call) == /\ At(c, "idle")
                /\ Become(c, [Resting EXCEPT !.phase = "check", !.call = call])
                /\ trusted' = [trusted EXCEPT ![c] = {}]
                /\ Reads

\* The registry check of both halves; it may withdraw the revision.
Consult(c) == LET s == caller[c].call.slot
              IN  IF CheckWithdraws(s, TRUE) THEN Check(s, TRUE) ELSE Reads

\* check grants the caller's own artifact.
Grants(c) == Eligible(caller[c].call.slot, TRUE) /\ Digest(pointer) = caller[c].call.digest

\* prepare_decision: the first check.  Without a grant there is no draw, and
\* the plan can only be simulated.
PrepareCheck(c) ==
    /\ At(c, "check")
    /\ Consult(c)
    /\ Become(c, IF Grants(c) THEN [phase |-> "select", revision |-> pointer]
                 ELSE [phase |-> "simulate"])
    /\ Same

\* select_control: a known id with the same inputs keeps its selection.
Draw(c) ==
    LET it == caller[c]
        known == controls[it.call.id]
    IN  \/ /\ known # NoSelection
           /\ known.revision = it.revision /\ known.slot = it.call.slot
           /\ Become(c, [phase |-> "execute", selected |-> known.selected])
           /\ Reads
        \/ \E selected \in BOOLEAN :
               /\ SelectControl(it.call.id, it.revision, it.call.slot, TRUE, selected)
               /\ Become(c, [phase |-> "execute", selected |-> selected])

\* select_control raises: the revision is no longer the active one, or the
\* id names another decision.  estimate_resources returns unresolved.
DrawRefused(c) ==
    LET it == caller[c]
        known == controls[it.call.id]
    IN  IF known = NoSelection THEN ~(Released /\ pointer = it.revision)
        ELSE known.revision # it.revision \/ known.slot # it.call.slot

PrepareSelect(c) ==
    /\ At(c, "select")
    /\ \/ Draw(c)
       \/ /\ DrawRefused(c)
          /\ Become(c, [phase |-> "idle", status |-> "refused"])
          /\ Reads
    /\ Same

\* execute_decision: the registry is asked again; the plan must still be
\* granted, under the same revision and artifact.
ExecuteCheck(c) ==
    /\ At(c, "execute")
    /\ Consult(c)
    /\ Become(c, [phase |-> IF Grants(c) /\ pointer = caller[c].revision
                            THEN "load" ELSE "simulate"])
    /\ Same

\* Mutant: the pointer is followed without its row's state or the quarantine.
LoadsAnyRow(c) == /\ pointer = caller[c].revision
                  /\ Digest(pointer) = caller[c].call.digest

\* load_active returns the plan's artifact: the pointer's row is active and
\* its digest out of quarantine.
Loads(c) == /\ pointer # NoRevision
            /\ state[pointer] = "active"
            /\ Digest(pointer) \notin quarantine
            /\ pointer = caller[c].revision
            /\ Digest(pointer) = caller[c].call.digest

LoadActive(c) ==
    /\ At(c, "load")
    /\ Become(c, [phase |-> IF Loads(c) THEN "compare" ELSE "simulate"])
    /\ trusted' = [trusted EXCEPT ![c] = {caller[c].call.digest} \ quarantine]
    /\ Reads

\* No simulation: neither shadow mode nor a selected control.
Accepts(it) == ~it.call.shadow /\ ~it.selected

\* select_control once more, under the plan's id: the stored selection must
\* be the plan's; then the prediction is accepted or the control simulated.
Compare(c) ==
    /\ At(c, "compare")
    /\ LET it == caller[c]
           known == controls[it.call.id]
           agrees == /\ known.revision = it.revision
                     /\ known.slot = it.call.slot
                     /\ known.selected = it.selected
       IN  Become(c, IF agrees /\ Accepts(it) THEN [phase |-> "idle", status |-> "accepted"]
                     ELSE [phase |-> "simulate"])
    /\ Reads /\ Same

Ends(it, outcome, s) ==
    [observed |-> s,
     phase |-> IF it.selected THEN "record" ELSE "idle",
     outcome |-> IF it.selected THEN outcome ELSE "none",
     status |-> IF Complete(outcome) THEN "simulated" ELSE "unresolved"]

\* rpc.simulate succeeds or fails at its context slot, or has no evidence at
\* all, in which case the plan's slot stands for it.
Simulate(c) ==
    /\ At(c, "simulate")
    /\ \E outcome \in Outcomes, s \in Slots :
           /\ s >= caller[c].call.slot
           /\ Become(c, Ends(caller[c], outcome, s))
    /\ Reads /\ Same

\* Mutant: only a usable simulation is recorded.
RecordUsable(c) ==
    /\ At(c, "record")
    /\ LET it == caller[c]
       IN  IF Complete(it.outcome)
           THEN /\ controls[it.call.id].outcome = "none"
                /\ RecordControl(it.call.id, it.observed, it.outcome)
           ELSE Reads
    /\ Become(c, [phase |-> "idle"])
    /\ Same

\* record_control_outcome: the first outcome of an id is recorded; a second
\* one, which carries its own elapsed time, conflicts and is raised.
Record(c) ==
    /\ At(c, "record")
    /\ LET it == caller[c]
       IN  \/ /\ RecordControl(it.call.id, it.observed, it.outcome)
              /\ Become(c, [phase |-> "idle"])
           \/ /\ controls[it.call.id].outcome # "none"
              /\ Become(c, [phase |-> "idle", status |-> "conflict"])
              /\ Reads
    /\ Same

\* The process dies; what the registry holds stays.
Crash(c) == /\ ~At(c, "idle")
            /\ Become(c, Resting)
            /\ trusted' = [trusted EXCEPT ![c] = {}]
            /\ Reads

Step(c) == \/ PrepareCheck(c) \/ PrepareSelect(c) \/ ExecuteCheck(c) \/ LoadActive(c)
           \/ Compare(c) \/ Simulate(c) \/ Record(c)

\* Everything else that the registry's users do.  force_simulation, which
\* makes check refuse and changes no row, and record_execution, which
\* withdraws as Suspend does, are left to ProfileRegistry.
Others == /\ \/ \E r \in Revisions : Operate(r)
             \/ WatcherFailed
             \/ \E s \in Slots, f \in Bindings : RecordDeployments(f, s)
          /\ UNCHANGED evars

ENext == \/ \E c \in Callers : Step(c) \/ Crash(c) \/ \E call \in Calls : Ask(c, call)
         \/ Others

ESpec == Init /\ EInit /\ [][ENext]_<<vars, evars>>

-----------------------------------------------------------------------------
ETypeOK ==
    /\ caller \in [Callers -> [phase : Phases, call : Calls \cup {NoCall},
                               revision : Revisions \cup {NoRevision}, selected : BOOLEAN,
                               outcome : Outcomes \cup {"none"}, observed : Slots \cup {NoSlot},
                               status : Statuses]]
    /\ trusted \in [Callers -> SUBSET Digests]

\* A simulation is skipped (407-413) only for an artifact that was out of
\* quarantine when load_active read it: a suspension that any process recorded
\* until then, even between the two halves of a call or right after the second
\* check, stops the plan.  No caller, and none that asks again after a crash,
\* skips the simulation of an id that was drawn as a control.
SkipsAreCurrent ==
    \A c \in Callers :
        caller[c].status = "accepted" => /\ caller[c].call.digest \in trusted[c]
                                         /\ ~controls[caller[c].call.id].selected

\* A call whose control was drawn and simulated returns only with an outcome
\* in the registry, its own or the one another caller recorded first; an
\* excess of its own is answered only after its artifact is quarantined.
SelectedControlsCount ==
    \A c \in Callers :
        At(c, "idle") /\ caller[c].selected /\ caller[c].outcome # "none" =>
            /\ controls[caller[c].call.id].outcome # "none"
            /\ Excess(caller[c].outcome) /\ caller[c].status # "conflict"
                   => caller[c].call.digest \in quarantine

==============================================================================
