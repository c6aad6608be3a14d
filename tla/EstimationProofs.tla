--------------------------- MODULE EstimationProofs ---------------------------
(***************************************************************************)
(* The callers of the registry (estimate_resources and what it calls,      *)
(* src/cu_pilot/integration.py), for any callers, calls, revisions and     *)
(* programs.                                                               *)
(*                                                                         *)
(* The argument: what a caller keeps between two transactions is what no   *)
(* transaction takes back (Kept): a registered revision and its manifest,  *)
(* the selection and first outcome of an id, a quarantined artifact.       *)
(***************************************************************************)
EXTENDS Estimation, ProfileRegistryProofs

Positions == [phase : Phases, call : Calls \cup {NoCall},
              revision : Revisions \cup {NoRevision}, selected : BOOLEAN,
              outcome : Outcomes \cup {"none"}, observed : Slots \cup {NoSlot},
              status : Statuses]

\* The registry has the plan's revision, under the caller's own artifact.
Bound(it) == /\ it.call \in Calls
             /\ state[it.revision] # "absent"
             /\ Digest(it.revision) = it.call.digest

\* The selection of the call's id is of the plan's revision.
DrawnAs(it, selected) == /\ it.revision # NoRevision
                         /\ controls[it.call.id].revision = it.revision
                         /\ controls[it.call.id].selected = selected

\* The id has an outcome, and an excess of the caller's own was fatal.
Counted(it) == /\ controls[it.call.id].outcome # "none"
               /\ Excess(it.outcome) /\ it.status # "conflict" => it.call.digest \in quarantine

\* A caller's place, with what it was told when it loaded its artifact.
Sound(it, t) ==
    /\ it.phase # "idle" => it.call \in Calls
    /\ it.phase \in {"select", "execute", "load", "compare"} => it.revision # NoRevision
    /\ it.phase = "check" => it.revision = NoRevision
    /\ it.phase \in {"check", "select"} => ~it.selected
    /\ it.revision # NoRevision => Bound(it)
    /\ it.selected => DrawnAs(it, TRUE)
    /\ it.phase = "compare" \/ it.status = "accepted" => it.call.digest \in t
    /\ it.status = "accepted" => it.phase = "idle" /\ DrawnAs(it, FALSE)
    /\ it.outcome # "none" => it.phase \in {"record", "idle"}
    /\ it.phase = "record" => it.selected /\ it.outcome # "none" /\ it.observed \in Slots
    /\ it.phase = "idle" /\ it.selected /\ it.outcome # "none" => Counted(it)

EInv == /\ IInv
        /\ caller \in [Callers -> Positions]
        /\ trusted \in [Callers -> SUBSET Digests]
        /\ \A c \in Callers : Sound(caller[c], trusted[c])

\* What no transaction takes back.
Kept == /\ \A r \in Revisions : state[r] # "absent" =>
               state'[r] # "absent" /\ manifest'[r] = manifest[r]
        /\ quarantine \subseteq quarantine'
        /\ \A q \in Requests : controls[q].revision # NoRevision =>
               /\ controls'[q].revision = controls[q].revision
               /\ controls'[q].selected = controls[q].selected
               /\ controls[q].outcome # "none" => controls'[q].outcome # "none"

-----------------------------------------------------------------------------
(* The registry under its callers.                                         *)

LEMMA WithdrawKept ==
    ASSUME IInv, NEW r \in Revisions, NEW s \in Slots, state[r] # "absent", Withdraw(r, s),
           UNCHANGED <<manifest, controls>>
    PROVE  Kept
<1>1. quarantine \subseteq quarantine'
    BY WithdrawAdds
<1>2. \A x \in Revisions : state[x] # "absent" => state'[x] # "absent"
    BY DEF IInv, TypeOK, Withdraw
<1> QED BY <1>1, <1>2 DEF Kept

LEMMA SelectKept ==
    ASSUME IInv, NEW q \in Requests, NEW r, NEW s, NEW eligible, NEW selected,
           SelectControl(q, r, s, eligible, selected)
    PROVE  Kept
<1>1. UNCHANGED <<state, manifest, quarantine>> /\ controls[q].revision = NoRevision
      /\ controls' = [controls EXCEPT ![q] = [revision |-> r, slot |-> s,
                                             selected |-> selected, outcome |-> "none"]]
    BY DEF SelectControl, rows, NoSelection
<1>2. \A x \in Requests : controls[x].revision # NoRevision => controls'[x] = controls[x]
    BY <1>1 DEF IInv, TypeOK
<1> QED BY <1>1, <1>2 DEF Kept

LEMMA RecordKept ==
    ASSUME IInv, NEW q \in Requests, NEW s \in Slots, NEW outcome \in Outcomes,
           RecordControl(q, s, outcome)
    PROVE  /\ Kept
           /\ controls'[q].outcome # "none"
           /\ Excess(outcome) => Digest(controls[q].revision) \in quarantine'
<1>1. controls[q] \in Selection /\ controls' = [controls EXCEPT ![q].outcome = outcome]
      /\ controls[q].outcome = "none"
    BY DEF IInv, TypeOK, RecordControl
<1>2. /\ \A x \in Requests : /\ controls'[x].revision = controls[x].revision
                             /\ controls'[x].selected = controls[x].selected
                             /\ controls[x].outcome # "none" => controls'[x].outcome # "none"
      /\ controls'[q].outcome # "none"
    BY <1>1 DEF IInv, TypeOK, Selection, Outcomes
<1>3. manifest' = manifest /\ (\/ Withdraw(controls[q].revision, s)
                               \/ ~Excess(outcome) /\ UNCHANGED <<state, quarantine>>)
    BY DEF RecordControl
<1>4. quarantine \subseteq quarantine' /\ (Excess(outcome) => Digest(controls[q].revision) \in quarantine')
    BY <1>3, WithdrawAdds
<1>5. \A x \in Revisions : state[x] # "absent" => state'[x] # "absent"
    BY <1>3 DEF IInv, TypeOK, Withdraw
<1> QED BY <1>2, <1>3, <1>4, <1>5 DEF Kept

LEMMA OthersKept ==
    ASSUME IInv, Others
    PROVE  Kept /\ Next
<1>1. ASSUME NEW r \in Revisions, Operate(r)
      PROVE  Kept
    <2>1. CASE \E m \in Manifests : Register(r, m)
        BY <2>1 DEF Register, Kept, IInv, TypeOK
    <2>2. CASE EnterShadow(r) \/ Retire(r)
        BY <2>2 DEF EnterShadow, Retire, Kept, IInv, TypeOK
    <2>3. ASSUME NEW s \in Slots, Suspend(r, s)
          PROVE  Kept
        BY <2>3, WithdrawKept DEF Suspend
    <2>4. ASSUME NEW s \in Slots, Activate(r, s)
          PROVE  Kept
        BY <2>4 DEF Activate, Kept, IInv, TypeOK
    <2> QED BY <1>1, <2>1, <2>2, <2>3, <2>4 DEF Operate, Rollback
<1>2. ASSUME WatcherFailed \/ \E s \in Slots, f \in Bindings : RecordDeployments(f, s)
      PROVE  Kept
    BY <1>2 DEF WatcherFailed, RecordDeployments, rows, Kept
<1> QED BY <1>1, <1>2 DEF Others, Next, Watch

-----------------------------------------------------------------------------
(* One caller's step.                                                      *)

\* What a caller has stands, whatever the others do.
LEMMA SoundStays ==
    ASSUME Kept, NEW it \in Positions, NEW t, Sound(it, t)
    PROVE  Sound(it, t)'
<1>1. it.call \in Calls => it.call.id \in Requests
    BY CallsAssumption
<1>2. it.revision # NoRevision => /\ it.revision \in Revisions /\ Bound(it)'
                                  /\ it.call.id \in Requests
    BY <1>1 DEF Positions, Sound, Bound, Kept, Digest
<1>3. \A b \in BOOLEAN : DrawnAs(it, b) => DrawnAs(it, b)'
    BY <1>2 DEF DrawnAs, Kept
<1>4. Counted(it) /\ it.selected => Counted(it)'
    BY <1>2 DEF Counted, Kept, Sound, DrawnAs
<1> QED BY <1>2, <1>3, <1>4 DEF Sound

LEMMA OneMoves ==
    ASSUME EInv, [Next]_vars, Kept, NEW c \in Callers, NEW new \in Positions, NEW t \in SUBSET Digests,
           caller' = [caller EXCEPT ![c] = new], trusted' = [trusted EXCEPT ![c] = t],
           Sound(new, t)'
    PROVE  EInv' /\ [Next]_vars
<1>1. IInv'
    BY NextIInv DEF EInv
<1>2. caller' \in [Callers -> Positions] /\ trusted' \in [Callers -> SUBSET Digests]
    BY DEF EInv
<1>3. ASSUME NEW x \in Callers
      PROVE  Sound(caller[x], trusted[x])'
    <2>1. CASE x = c
        BY <2>1 DEF EInv
    <2>2. CASE x # c
        <3>1. PICK it, u : it = caller[x] /\ u = trusted[x]
            OBVIOUS
        <3>2. it = caller'[x] /\ u = trusted'[x] /\ it \in Positions /\ Sound(it, u)
            BY <2>2, <3>1 DEF EInv
        <3>3. Sound(it, u)'
            BY <3>2, SoundStays
        <3> QED BY <3>2, <3>3
    <2> QED BY <2>1, <2>2
<1> QED BY <1>1, <1>2, <1>3 DEF EInv

\* What a place is worth to the lemmas below.
LEMMA Placed ==
    ASSUME EInv, NEW c \in Callers, NEW it, it = caller[c]
    PROVE  /\ it \in Positions /\ Sound(it, trusted[c])
           /\ it.phase # "idle" => /\ it.call \in Calls /\ it.call.id \in Requests
                                  /\ it.call.slot \in Slots /\ it.call.digest \in Digests
           /\ it.revision # NoRevision => it.revision \in Revisions
BY CallsAssumption DEF EInv, Sound, Positions

LEMMA ReadsKeep ==
    ASSUME IInv, Reads
    PROVE  Kept /\ [Next]_vars
BY DEF Reads, Kept, vars, rows

\* A check of either half keeps what callers have, also when it withdraws.
LEMMA ConsultKeeps ==
    ASSUME EInv, NEW c \in Callers, caller[c].phase # "idle", Consult(c)
    PROVE  Kept /\ [Next]_vars
<1>1. PICK it : it = caller[c]
    OBVIOUS
<1>2. it.call.slot \in Slots
    BY <1>1, Placed
<1>3. CASE Check(it.call.slot, TRUE)
    <2>1. pointer \in Revisions /\ state[pointer] = "active"
        BY <1>3, ReleasedFact DEF Check, CheckWithdraws, EInv, IInv
    <2>2. Kept
        BY <1>2, <1>3, <2>1, WithdrawKept DEF Check, EInv
    <2>3. Next
        BY <1>2, <1>3 DEF Next, Decide
    <2> QED BY <2>2, <2>3
<1>4. CASE Reads
    BY <1>4, ReadsKeep DEF EInv
<1> QED BY <1>1, <1>3, <1>4 DEF Consult

LEMMA AskKeeps ==
    ASSUME EInv, NEW c \in Callers, NEW call \in Calls, Ask(c, call)
    PROVE  EInv' /\ [Next]_vars
<1> DEFINE new == [Resting EXCEPT !.phase = "check", !.call = call]
<1>1. caller[c] \in Positions
    BY Placed
<1>2. Amend(caller[c], new) = new
    BY <1>1 DEF Amend, Positions, Resting
<1>3. /\ caller' = [caller EXCEPT ![c] = new] /\ trusted' = [trusted EXCEPT ![c] = {}]
      /\ Kept /\ [Next]_vars
    BY <1>2, ReadsKeep DEF Ask, Become, EInv
<1>4. /\ new \in Positions /\ new.phase = "check" /\ new.call = call
      /\ new.revision = NoRevision /\ new.selected = FALSE /\ new.outcome = "none"
      /\ new.status = "none"
    BY DEF Positions, Resting, Phases, Statuses
<1> HIDE DEF new
<1>5. PICK k : k = new
    OBVIOUS
<1>6. Sound(k, {})'
    BY <1>4, <1>5 DEF Sound
<1> QED BY <1>3, <1>4, <1>5, <1>6, OneMoves

LEMMA CrashKeeps ==
    ASSUME EInv, NEW c \in Callers, Crash(c)
    PROVE  EInv' /\ [Next]_vars
<1>1. caller[c] \in Positions
    BY Placed
<1>2. Amend(caller[c], Resting) = Resting
    BY <1>1 DEF Amend, Positions, Resting
<1>3. /\ caller' = [caller EXCEPT ![c] = Resting] /\ trusted' = [trusted EXCEPT ![c] = {}]
      /\ Kept /\ [Next]_vars
    BY <1>2, ReadsKeep DEF Crash, Become, EInv
<1>4. /\ Resting \in Positions /\ Resting.phase = "idle"
      /\ Resting.revision = NoRevision /\ Resting.selected = FALSE /\ Resting.outcome = "none"
      /\ Resting.status = "none"
    BY DEF Positions, Resting, Phases, Statuses
<1>5. PICK k : k = Resting
    OBVIOUS
<1>6. Sound(k, {})'
    BY <1>4, <1>5 DEF Sound
<1> QED BY <1>3, <1>4, <1>5, <1>6, OneMoves

LEMMA PrepareCheckKeeps ==
    ASSUME EInv, NEW c \in Callers, PrepareCheck(c)
    PROVE  EInv' /\ [Next]_vars
<1>1. PICK it, t, p : it = caller[c] /\ t = trusted[c] /\ p = pointer
    OBVIOUS
<1>2. it \in Positions /\ it.phase = "check" /\ Sound(it, t) /\ it.call \in Calls
    BY <1>1, Placed DEF PrepareCheck, At
<1>3. Kept /\ [Next]_vars /\ trusted' = trusted
    BY <1>1, <1>2, ConsultKeeps DEF PrepareCheck, Same
<1>4. CASE Grants(c)
    <2> DEFINE new == Amend(it, [phase |-> "select", revision |-> p])
    <2>1. p \in Revisions /\ p # NoRevision /\ state[p] = "active" /\ Digest(p) = it.call.digest
        BY <1>1, <1>4, ReleasedFact DEF Grants, Eligible, Trusted, Released, EInv, IInv
    <2>2. /\ new \in Positions /\ new.phase = "select" /\ new.call = it.call /\ new.revision = p
          /\ new.selected = it.selected /\ new.outcome = it.outcome /\ new.status = it.status
        BY <1>2, <2>1 DEF Amend, Positions, Phases
    <2>3. caller' = [caller EXCEPT ![c] = new]
        BY <1>1, <1>4 DEF PrepareCheck, Become
    <2> HIDE DEF new
    <2>4. PICK k : k = new
        OBVIOUS
    <2>5. Bound(k)'
        BY <1>2, <1>3, <2>1, <2>2, <2>4 DEF Bound, Kept, Digest
    <2>6. Sound(k, t)'
        BY <1>2, <2>1, <2>2, <2>4, <2>5 DEF Sound
    <2> QED BY <1>1, <1>3, <2>2, <2>3, <2>4, <2>6, OneMoves DEF EInv
<1>5. CASE ~Grants(c)
    <2> DEFINE new == Amend(it, [phase |-> "simulate"])
    <2>1. /\ new \in Positions /\ new.phase = "simulate" /\ new.call = it.call
          /\ new.revision = it.revision
          /\ new.selected = it.selected /\ new.outcome = it.outcome /\ new.status = it.status
        BY <1>2 DEF Amend, Positions, Phases
    <2>2. caller' = [caller EXCEPT ![c] = new]
        BY <1>1, <1>5 DEF PrepareCheck, Become
    <2> HIDE DEF new
    <2>3. PICK k : k = new
        OBVIOUS
    <2>4. Sound(k, t)'
        BY <1>2, <2>1, <2>3 DEF Sound
    <2> QED BY <1>1, <1>3, <2>1, <2>2, <2>3, <2>4, OneMoves DEF EInv
<1> QED BY <1>4, <1>5

\* The caller holds a choice that the ledger has under its revision.
Drawn(c, it, selected) ==
    /\ caller' = [caller EXCEPT ![c] = Amend(it, [phase |-> "execute", selected |-> selected])]
    /\ controls'[it.call.id].revision = it.revision
    /\ controls'[it.call.id].selected = selected

\* The draw of a new id is the plan's; a known one must have been.
LEMMA DrawFact ==
    ASSUME EInv, NEW c \in Callers, At(c, "select"), Draw(c), NEW it, it = caller[c]
    PROVE  /\ Kept /\ [Next]_vars
           /\ \E selected \in BOOLEAN : Drawn(c, it, selected)
<1>1. /\ it \in Positions /\ it.phase = "select" /\ it.call.id \in Requests
      /\ it.call.slot \in Slots /\ it.revision \in Revisions
    BY Placed DEF At, Sound
<1>2. controls \in [Requests -> Selection] /\ controls[it.call.id] \in Selection
    BY <1>1 DEF EInv, IInv, TypeOK
<1>3. CASE /\ controls[it.call.id].revision = it.revision
           /\ Become(c, [phase |-> "execute", selected |-> controls[it.call.id].selected])
           /\ Reads
    <2>1. controls' = controls
        BY <1>3 DEF Reads, vars
    <2>2. controls[it.call.id].selected \in BOOLEAN
        BY <1>2 DEF Selection
    <2>3. Kept /\ [Next]_vars
        BY <1>3, ReadsKeep DEF EInv
    <2>4. Drawn(c, it, controls[it.call.id].selected)
        BY <1>3, <2>1 DEF Become, Drawn
    <2> QED BY <2>2, <2>3, <2>4
<1>4. ASSUME NEW selected \in BOOLEAN,
             SelectControl(it.call.id, it.revision, it.call.slot, TRUE, selected),
             Become(c, [phase |-> "execute", selected |-> selected])
      PROVE  Kept /\ [Next]_vars /\ Drawn(c, it, selected)
    <2>1. Kept
        BY <1>1, <1>4, SelectKept DEF EInv
    <2>2. Next
        BY <1>1, <1>4 DEF Next, Decide
    <2>3. controls'[it.call.id] = [revision |-> it.revision, slot |-> it.call.slot,
                                   selected |-> selected, outcome |-> "none"]
        BY <1>1, <1>2, <1>4 DEF SelectControl
    <2>4. Drawn(c, it, selected)
        BY <1>4, <2>3 DEF Become, Drawn
    <2> QED BY <2>1, <2>2, <2>4
<1> QED BY <1>3, <1>4 DEF Draw

LEMMA PrepareSelectKeeps ==
    ASSUME EInv, NEW c \in Callers, PrepareSelect(c)
    PROVE  EInv' /\ [Next]_vars
<1>1. PICK it, t : it = caller[c] /\ t = trusted[c]
    OBVIOUS
<1>2. /\ it \in Positions /\ it.phase = "select" /\ Sound(it, t) /\ it.call \in Calls
      /\ it.revision # NoRevision /\ At(c, "select") /\ trusted' = trusted
    BY <1>1, Placed DEF PrepareSelect, At, Sound, Same
<1>3. CASE Draw(c)
    <2>1. Kept /\ [Next]_vars
        BY <1>1, <1>2, <1>3, DrawFact
    <2>2. PICK b \in BOOLEAN :
             /\ caller' = [caller EXCEPT ![c] = Amend(it, [phase |-> "execute", selected |-> b])]
             /\ controls'[it.call.id].revision = it.revision
             /\ controls'[it.call.id].selected = b
        <3>1. \E selected \in BOOLEAN : Drawn(c, it, selected)
            BY <1>1, <1>2, <1>3, DrawFact
        <3> QED BY <3>1 DEF Drawn
    <2>3. PICK k : k = Amend(it, [phase |-> "execute", selected |-> b])
        OBVIOUS
    <2>4. /\ k \in Positions /\ k.phase = "execute" /\ k.call = it.call /\ k.revision = it.revision
          /\ k.selected = b /\ k.outcome = it.outcome /\ k.status = it.status
        BY <1>2, <2>3 DEF Amend, Positions, Phases
    <2>5. Sound(it, t)'
        BY <1>2, <2>1, SoundStays
    <2>6. Bound(k)' /\ (k.selected => DrawnAs(k, TRUE)')
        BY <1>2, <2>2, <2>4, <2>5 DEF Sound, Bound, DrawnAs
    <2>7. Sound(k, t)'
        BY <1>2, <2>4, <2>6 DEF Sound
    <2> QED BY <1>1, <1>2, <2>1, <2>2, <2>3, <2>4, <2>7, OneMoves DEF EInv
<1>4. CASE Become(c, [phase |-> "idle", status |-> "refused"]) /\ Reads
    <2>1. Kept /\ [Next]_vars
        BY <1>4, ReadsKeep DEF EInv
    <2>2. PICK k : k = Amend(it, [phase |-> "idle", status |-> "refused"])
        OBVIOUS
    <2>3. /\ k \in Positions /\ k.phase = "idle" /\ k.call = it.call /\ k.revision = it.revision
          /\ k.selected = it.selected /\ k.outcome = it.outcome /\ k.status = "refused"
        BY <1>2, <2>2 DEF Amend, Positions, Phases, Statuses
    <2>4. Sound(it, t)'
        BY <1>2, <2>1, SoundStays
    <2>5. Sound(k, t)'
        BY <1>2, <2>3, <2>4 DEF Sound, Bound
    <2>6. caller' = [caller EXCEPT ![c] = k]
        BY <1>1, <1>4, <2>2 DEF Become
    <2> QED BY <1>1, <1>2, <2>1, <2>3, <2>5, <2>6, OneMoves DEF EInv
<1> QED BY <1>3, <1>4 DEF PrepareSelect

\* A caller moves to one of the phases that promise nothing new.
LEMMA GoesOn ==
    ASSUME EInv, Kept, [Next]_vars, NEW c \in Callers, NEW it, it = caller[c],
           it.phase \in {"execute", "load", "compare"}, NEW phase \in {"load", "simulate"},
           caller' = [caller EXCEPT ![c] = Amend(it, [phase |-> phase])],
           NEW t \in SUBSET Digests, trusted' = [trusted EXCEPT ![c] = t]
    PROVE  EInv' /\ [Next]_vars
<1>1. it \in Positions /\ Sound(it, trusted[c])
    BY Placed
<1>2. PICK u : u = trusted[c]
    OBVIOUS
<1>3. Sound(it, u)'
    BY <1>1, <1>2, SoundStays
<1>4. PICK k : k = Amend(it, [phase |-> phase])
    OBVIOUS
<1>5. /\ k \in Positions /\ k.phase = phase /\ k.call = it.call /\ k.revision = it.revision
      /\ k.selected = it.selected /\ k.outcome = it.outcome /\ k.status = it.status
    BY <1>1, <1>4 DEF Amend, Positions, Phases
<1>6. Sound(k, t)'
    BY <1>3, <1>5 DEF Sound, Bound, DrawnAs
<1> QED BY <1>4, <1>5, <1>6, OneMoves

LEMMA ExecuteCheckKeeps ==
    ASSUME EInv, NEW c \in Callers, ExecuteCheck(c)
    PROVE  EInv' /\ [Next]_vars
<1>1. PICK it, t : it = caller[c] /\ t = trusted[c]
    OBVIOUS
<1>2. it.phase = "execute" /\ t \in SUBSET Digests /\ trusted' = [trusted EXCEPT ![c] = t]
    BY <1>1 DEF ExecuteCheck, At, Same, EInv
<1>3. Kept /\ [Next]_vars
    BY <1>1, <1>2, ConsultKeeps DEF ExecuteCheck
<1>4. PICK phase \in {"load", "simulate"} : caller' = [caller EXCEPT ![c] = Amend(it, [phase |-> phase])]
    BY <1>1 DEF ExecuteCheck, Become
<1> QED BY <1>1, <1>2, <1>3, <1>4, GoesOn

\* The artifact is loaded out of quarantine, or the plan is simulated.
LEMMA LoadActiveKeeps ==
    ASSUME EInv, NEW c \in Callers, LoadActive(c)
    PROVE  EInv' /\ [Next]_vars
<1>1. PICK it, t : it = caller[c] /\ t = {it.call.digest} \ quarantine
    OBVIOUS
<1>2. /\ it \in Positions /\ Sound(it, trusted[c]) /\ it.phase = "load"
      /\ it.call.digest \in Digests /\ trusted' = [trusted EXCEPT ![c] = t]
    BY <1>1, Placed DEF LoadActive, At
<1>3. t \in SUBSET Digests
    BY <1>1, <1>2
<1>4. Kept /\ [Next]_vars
    BY ReadsKeep DEF LoadActive, EInv
<1>5. CASE Loads(c)
    <2>1. PICK k : k = Amend(it, [phase |-> "compare"])
        OBVIOUS
    <2>2. /\ k \in Positions /\ k.phase = "compare" /\ k.call = it.call /\ k.revision = it.revision
          /\ k.selected = it.selected /\ k.outcome = it.outcome /\ k.status = it.status
        BY <1>2, <2>1 DEF Amend, Positions, Phases
    <2>3. it.call.digest \in t
        BY <1>1, <1>5 DEF Loads
    <2>4. PICK u : u = trusted[c]
        OBVIOUS
    <2>5. Sound(it, u)'
        BY <1>2, <1>4, <2>4, SoundStays
    <2>6. Sound(k, t)'
        BY <1>2, <2>2, <2>3, <2>5 DEF Sound, Bound, DrawnAs
    <2>7. caller' = [caller EXCEPT ![c] = k]
        BY <1>1, <1>5, <2>1 DEF LoadActive, Become
    <2> QED BY <1>2, <1>3, <1>4, <2>2, <2>6, <2>7, OneMoves
<1>6. CASE ~Loads(c)
    <2>1. caller' = [caller EXCEPT ![c] = Amend(it, [phase |-> "simulate"])]
        BY <1>1, <1>6 DEF LoadActive, Become
    <2> QED BY <1>1, <1>2, <1>3, <1>4, <2>1, GoesOn
<1> QED BY <1>5, <1>6

\* A prediction is accepted only under the stored selection of the plan.
LEMMA CompareKeeps ==
    ASSUME EInv, NEW c \in Callers, Compare(c)
    PROVE  EInv' /\ [Next]_vars
<1>1. PICK it, t : it = caller[c] /\ t = trusted[c]
    OBVIOUS
<1>2. /\ it \in Positions /\ it.phase = "compare" /\ Sound(it, t)
      /\ t \in SUBSET Digests /\ trusted' = [trusted EXCEPT ![c] = t]
    BY <1>1, Placed DEF Compare, At, Same, EInv
<1>3. Kept /\ [Next]_vars
    BY ReadsKeep DEF Compare, EInv
<1>4. CASE /\ controls[it.call.id].revision = it.revision
           /\ controls[it.call.id].selected = it.selected
           /\ Accepts(it)
           /\ Become(c, [phase |-> "idle", status |-> "accepted"])
    <2>1. PICK k : k = Amend(it, [phase |-> "idle", status |-> "accepted"])
        OBVIOUS
    <2>2. /\ k \in Positions /\ k.phase = "idle" /\ k.call = it.call /\ k.revision = it.revision
          /\ k.selected = it.selected /\ k.outcome = it.outcome /\ k.status = "accepted"
        BY <1>2, <2>1 DEF Amend, Positions, Phases, Statuses
    <2>3. Sound(it, t)'
        BY <1>2, <1>3, SoundStays
    <2>4. it.selected = FALSE
        BY <1>2, <1>4 DEF Accepts, Positions
    <2>5. controls' = controls
        BY DEF Compare, Reads, vars
    <2>6. DrawnAs(k, FALSE)'
        BY <1>2, <1>4, <2>2, <2>4, <2>5 DEF DrawnAs, Sound
    <2>7. Sound(k, t)'
        BY <1>2, <2>2, <2>3, <2>4, <2>6 DEF Sound, Bound
    <2>8. caller' = [caller EXCEPT ![c] = k]
        BY <1>1, <1>4, <2>1 DEF Become
    <2> QED BY <1>2, <1>3, <2>2, <2>7, <2>8, OneMoves
<1>5. CASE Become(c, [phase |-> "simulate"])
    <2>1. caller' = [caller EXCEPT ![c] = Amend(it, [phase |-> "simulate"])]
        BY <1>1, <1>5 DEF Become
    <2> QED BY <1>1, <1>2, <1>3, <2>1, GoesOn
<1> QED BY <1>1, <1>4, <1>5 DEF Compare

LEMMA SimulateKeeps ==
    ASSUME EInv, NEW c \in Callers, Simulate(c)
    PROVE  EInv' /\ [Next]_vars
<1>1. PICK it, t : it = caller[c] /\ t = trusted[c]
    OBVIOUS
<1>2. /\ it \in Positions /\ it.phase = "simulate" /\ Sound(it, t)
      /\ t \in SUBSET Digests /\ trusted' = [trusted EXCEPT ![c] = t]
    BY <1>1, Placed DEF Simulate, At, Same, EInv
<1>3. Kept /\ [Next]_vars
    BY ReadsKeep DEF Simulate, EInv
<1>4. PICK outcome \in Outcomes, s \in Slots :
         caller' = [caller EXCEPT ![c] = Amend(it, Ends(it, outcome, s))]
    BY <1>1 DEF Simulate, Become
<1>5. PICK k : k = Amend(it, Ends(it, outcome, s))
    OBVIOUS
<1>6. Sound(it, t)'
    BY <1>2, <1>3, SoundStays
<1>7. /\ k \in Positions /\ k.call = it.call /\ k.revision = it.revision
      /\ k.selected = it.selected /\ k.observed = s /\ k.status \in {"simulated", "unresolved"}
      /\ k.phase = IF it.selected THEN "record" ELSE "idle"
      /\ k.outcome = IF it.selected THEN outcome ELSE "none"
    BY <1>2, <1>5 DEF Amend, Ends, Positions, Phases, Statuses
<1>8. outcome # "none"
    BY DEF Outcomes
<1>9. Sound(k, t)'
    BY <1>6, <1>7, <1>8 DEF Sound, Bound, DrawnAs
<1> QED BY <1>2, <1>3, <1>4, <1>5, <1>7, <1>9, OneMoves

\* The outcome is recorded for the plan's revision, whose artifact an excess
\* withdraws, or another caller's outcome stands.
LEMMA RecordKeeps ==
    ASSUME EInv, NEW c \in Callers, Record(c)
    PROVE  EInv' /\ [Next]_vars
<1>1. PICK it, t : it = caller[c] /\ t = trusted[c]
    OBVIOUS
<1>2. /\ it \in Positions /\ it.phase = "record" /\ Sound(it, t)
      /\ t \in SUBSET Digests /\ trusted' = [trusted EXCEPT ![c] = t]
      /\ it.call.id \in Requests
    BY <1>1, Placed DEF Record, At, Same, EInv
<1>3. /\ it.selected /\ it.outcome \in Outcomes /\ it.observed \in Slots
      /\ controls[it.call.id].revision = it.revision
      /\ Digest(it.revision) = it.call.digest /\ it.revision \in Revisions
      /\ state[it.revision] # "absent"
    BY <1>2 DEF Sound, DrawnAs, Bound, Positions
<1>4. ASSUME Kept, [Next]_vars, NEW k \in Positions, caller' = [caller EXCEPT ![c] = k],
             k.phase = "idle", k.call = it.call, k.revision = it.revision,
             k.selected = it.selected, k.outcome = it.outcome, k.status # "accepted",
             Counted(k)'
      PROVE  EInv' /\ [Next]_vars
    <2>1. Sound(it, t)'
        BY <1>2, <1>4, SoundStays
    <2>2. Sound(k, t)'
        BY <1>3, <1>4, <2>1 DEF Sound, Bound, DrawnAs
    <2> QED BY <1>2, <1>4, <2>2, OneMoves
<1>5. CASE /\ RecordControl(it.call.id, it.observed, it.outcome)
           /\ Become(c, [phase |-> "idle"])
    <2>1. /\ Kept /\ controls'[it.call.id].outcome # "none"
          /\ Excess(it.outcome) => it.call.digest \in quarantine'
        BY <1>2, <1>3, <1>5, RecordKept DEF EInv
    <2>2. Next
        BY <1>2, <1>3, <1>5 DEF Next, Observe
    <2>3. PICK k : k = Amend(it, [phase |-> "idle"])
        OBVIOUS
    <2>4. /\ k \in Positions /\ k.phase = "idle" /\ k.call = it.call /\ k.revision = it.revision
          /\ k.selected = it.selected /\ k.outcome = it.outcome /\ k.status = it.status
        BY <1>2, <2>3 DEF Amend, Positions, Phases
    <2>5. Counted(k)'
        BY <2>1, <2>4 DEF Counted
    <2>6. k.status # "accepted"
        BY <1>2, <2>4 DEF Sound
    <2>7. caller' = [caller EXCEPT ![c] = k]
        BY <1>1, <1>5, <2>3 DEF Become
    <2> QED BY <1>4, <2>1, <2>2, <2>4, <2>5, <2>6, <2>7
<1>6. CASE /\ controls[it.call.id].outcome # "none"
           /\ Become(c, [phase |-> "idle", status |-> "conflict"])
           /\ Reads
    <2>1. Kept /\ [Next]_vars /\ controls' = controls
        BY <1>6, ReadsKeep DEF EInv, Reads, vars
    <2>2. PICK k : k = Amend(it, [phase |-> "idle", status |-> "conflict"])
        OBVIOUS
    <2>3. /\ k \in Positions /\ k.phase = "idle" /\ k.call = it.call /\ k.revision = it.revision
          /\ k.selected = it.selected /\ k.outcome = it.outcome /\ k.status = "conflict"
        BY <1>2, <2>2 DEF Amend, Positions, Phases, Statuses
    <2>4. Counted(k)'
        BY <1>6, <2>1, <2>3 DEF Counted
    <2>5. caller' = [caller EXCEPT ![c] = k]
        BY <1>1, <1>6, <2>2 DEF Become
    <2> QED BY <1>4, <2>1, <2>3, <2>4, <2>5
<1> QED BY <1>1, <1>5, <1>6 DEF Record

LEMMA OthersKeep ==
    ASSUME EInv, Others
    PROVE  EInv' /\ [Next]_vars
<1>1. Kept /\ [Next]_vars /\ caller' = caller /\ trusted' = trusted
    BY OthersKept DEF EInv, Others, evars
<1>2. ASSUME NEW c \in Callers
      PROVE  Sound(caller[c], trusted[c])'
    <2>1. PICK it, t : it = caller[c] /\ t = trusted[c]
        OBVIOUS
    <2>2. Sound(it, t)'
        BY <1>1, <2>1, SoundStays DEF EInv
    <2> QED BY <1>1, <2>1, <2>2
<1> QED BY <1>1, <1>2, NextIInv DEF EInv

-----------------------------------------------------------------------------
LEMMA EInvStarts == Init /\ EInit => EInv
<1> SUFFICES ASSUME Init, EInit PROVE EInv
    OBVIOUS
<1>1. /\ Resting \in Positions /\ Resting.phase = "idle"
      /\ Resting.revision = NoRevision /\ Resting.selected = FALSE /\ Resting.outcome = "none"
      /\ Resting.status = "none"
    BY DEF Positions, Resting, Phases, Statuses
<1>2. Sound(Resting, {})
    BY <1>1 DEF Sound
<1> QED BY <1>1, <1>2, InitIInv DEF EInit, EInv

LEMMA EInvStays ==
    ASSUME EInv, [ENext]_<<vars, evars>>
    PROVE  EInv' /\ [Next]_vars
<1>1. CASE ENext
    BY <1>1, PrepareCheckKeeps, PrepareSelectKeeps, ExecuteCheckKeeps, LoadActiveKeeps,
       CompareKeeps, SimulateKeeps, RecordKeeps, CrashKeeps, AskKeeps, OthersKeep
       DEF ENext, Step
<1>2. CASE UNCHANGED <<vars, evars>>
    <2>1. Kept /\ [Next]_vars /\ caller' = caller /\ trusted' = trusted
        BY <1>2, ReadsKeep DEF Reads, evars, EInv
    <2>2. ASSUME NEW c \in Callers
          PROVE  Sound(caller[c], trusted[c])'
        <3>1. PICK it, t : it = caller[c] /\ t = trusted[c]
            OBVIOUS
        <3>2. Sound(it, t)'
            BY <2>1, <3>1, SoundStays DEF EInv
        <3> QED BY <2>1, <3>1, <3>2
    <2> QED BY <1>2, <2>1, <2>2, NextIInv DEF EInv
<1> QED BY <1>1, <1>2

LEMMA EInvariance == ESpec => []EInv
BY EInvStarts, EInvStays, PTL DEF ESpec

\* The registry under its callers is the registry of ProfileRegistry, so all that
\* is proved of its methods holds between the halves of a decision too.
THEOREM EstimatedRegistry == ESpec => Spec
BY EInvStarts, EInvStays, PTL DEF ESpec, Spec

\* SkipsAreCurrent for any callers, calls and registry: a simulation is skipped
\* only for an artifact that was out of quarantine when it was loaded, and never
\* for an id drawn as a control.
THEOREM SkipsAreCurrentCorrect == ESpec => []SkipsAreCurrent
<1>1. EInv => SkipsAreCurrent
    <2> SUFFICES ASSUME EInv, NEW c \in Callers, caller[c].status = "accepted"
                 PROVE  /\ caller[c].call.digest \in trusted[c]
                        /\ ~controls[caller[c].call.id].selected
        BY DEF SkipsAreCurrent
    <2>1. Sound(caller[c], trusted[c])
        BY DEF EInv
    <2> QED BY <2>1 DEF Sound, DrawnAs
<1> QED BY <1>1, EInvariance, PTL

\* SelectedControlsCount for the same: a control that was drawn and simulated
\* returns only with its outcome in the registry, an excess only after the
\* artifact is quarantined.
THEOREM SelectedControlsCorrect == ESpec => []SelectedControlsCount
<1>1. EInv => SelectedControlsCount
    BY DEF EInv, Sound, Counted, At, SelectedControlsCount
<1> QED BY <1>1, EInvariance, PTL

\* And it keeps the registry's promise under them: whatever callers ask, crash
\* over or record late, one artifact at most is released, and one that was
\* rejected never again (ReleaseGate).
COROLLARY EstimationKeepsGate == ESpec => GateSpec
BY EstimatedRegistry, ImplementsGate, PTL
===============================================================================
