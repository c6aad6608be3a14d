--------------------------- MODULE DeploymentWatcher ---------------------------
(***************************************************************************)
(* refresh_deployments (src/cu_pilot/lifecycle.py): watchers in several    *)
(* processes that read a chain whose programs are upgraded and record what *)
(* they saw in a ProfileRegistry, or signal their failure.                 *)
(*                                                                         *)
(* A refresh reads the program accounts, then the programdata accounts of  *)
(* the upgradeable ones; a node answers from any slot it still has, not    *)
(* older than the caller asks for.  An upgrade brings a fingerprint that   *)
(* is deployed in its slot.  Account parsing is deployment_identity's.     *)
(***************************************************************************)
EXTENDS ProfileRegistry, Sequences

CONSTANTS
    Watchers,
    Upgradeable,        \* programs of loader v3, the others never change
    Genesis             \* the fingerprints at slot 0

LastSlot == CHOOSE s \in Slots : \A x \in Slots : x <= s

ASSUME WatcherAssumption ==
    /\ LastSlot \in Slots /\ Slots = 0..LastSlot
    /\ Upgradeable \subseteq Programs
    /\ Genesis \in [Programs -> Fingerprints]

VARIABLES
    history,            \* the programs' fingerprints at each slot so far
    watcher             \* where each refresh stands

wvars == <<history, watcher>>

Away == [step |-> "idle", batch |-> {}, first |-> NoSlot, second |-> NoSlot]

Failed == [Away EXCEPT !.step = "failed"]

WInit == /\ Init
         /\ history = <<Genesis>>
         /\ watcher = [w \in Watchers |-> Away]

Now == Len(history) - 1
OnChain(p, s) == history[s + 1][p]

\* Some fields of a record change.
Amend(record, changes) ==
    [f \in DOMAIN record |-> IF f \in DOMAIN changes THEN changes[f] ELSE record[f]]

Go(w, changes) == /\ watcher' = [watcher EXCEPT ![w] = Amend(@, changes)]
                  /\ UNCHANGED history
Same == UNCHANGED vars

\* The next slot, in which some of the programs are upgraded.
Advance ==
    /\ Now < LastSlot
    /\ \E f \in [Programs -> Fingerprints] :
           /\ \A p \in Programs : f[p] # OnChain(p, Now) =>
                  p \in Upgradeable /\ Deployed[f[p]] = Now + 1
           /\ history' = Append(history, f)
    /\ UNCHANGED watcher /\ Same

\* The first batch, at the slot of its context.
ReadPrograms(w, batch, current) ==
    /\ watcher[w].step = "idle" /\ batch # {}
    /\ \E s \in current..Now :
           Go(w, [step |-> IF batch \cap Upgradeable = {} THEN "record" ELSE "second",
                  batch |-> batch, first |-> s, second |-> s])
    /\ Same

\* The second batch must answer from the slot of the first.
ReadProgramData(w) ==
    /\ watcher[w].step = "second"
    /\ \E s \in watcher[w].first..Now :
           IF s = watcher[w].first THEN Go(w, [step |-> "record", second |-> s])
           ELSE Go(w, Failed)
    /\ Same

\* What the two answers say of the batch.
Observed(w) == [p \in watcher[w].batch |->
                   OnChain(p, IF p \in Upgradeable THEN watcher[w].second ELSE watcher[w].first)]

\* record_deployments; it raises if the slot is older than what is cached,
\* deployment_identity if a program was deployed in the observed slot.
Record(w) ==
    /\ watcher[w].step = "record"
    /\ RecordDeployments(Observed(w), watcher[w].first)
    /\ Go(w, Away)
Refuse(w) ==
    /\ watcher[w].step = "record"
    /\ \E p \in watcher[w].batch : \/ Deployed[Observed(w)[p]] >= watcher[w].first
                                   \/ evidence[p].observed > watcher[w].first
    /\ Go(w, Failed)
    /\ Same

\* Either read raises, and any exception calls watcher_failed.
Raise(w) == /\ watcher[w].step \in {"idle", "second"}
            /\ Go(w, Failed)
            /\ Same
Signal(w) == /\ watcher[w].step = "failed"
             /\ WatcherFailed
             /\ Go(w, Away)

\* The process dies, before it could say that it failed too.
Crash(w) == /\ watcher[w].step # "idle"
            /\ Go(w, Away)
            /\ Same

Refresh(w) ==
    \/ \E batch \in SUBSET Programs, s \in Slots : ReadPrograms(w, batch, s)
    \/ ReadProgramData(w) \/ Record(w) \/ Refuse(w) \/ Raise(w) \/ Signal(w) \/ Crash(w)

\* Of the registry's other methods those that lead to a release and read the
\* evidence; the ones that only withdraw are left to ProfileRegistry.
Release == \E r \in Revisions :
               \/ \E m \in Manifests : Register(r, m)
               \/ EnterShadow(r)
               \/ \E s \in Slots : Activate(r, s)

WNext == \/ \E w \in Watchers : Refresh(w)
         \/ Advance
         \/ Release /\ UNCHANGED wvars

WSpec == WInit /\ [][WNext]_<<vars, wvars>>

-----------------------------------------------------------------------------
WTypeOK ==
    /\ Now \in Slots
    /\ \A s \in 0..Now : \A p \in Programs : OnChain(p, s) \in Fingerprints
    /\ watcher \in [Watchers -> [step : {"idle", "second", "record", "failed"},
                                 batch : SUBSET Programs,
                                 first : Slots \cup {NoSlot}, second : Slots \cup {NoSlot}]]

\* The code a slot executes: an upgrade shows in the account at once and
\* takes effect in the next slot.
Executed(p, s) == OnChain(p, IF s = 0 THEN 0 ELSE s - 1)

\* Cached evidence is the code that its slot executed and that its accounts
\* held, however the two reads fell around an upgrade and however watchers
\* overlapped.  The comparison of the two slots and the deployment slot that
\* deployment_identity reads each exclude a batch across an upgrade.
EvidenceWasExecuted ==
    \A p \in Cached :
        LET seen == evidence[p].observed
        IN  evidence[p].fingerprint = Executed(p, seen) /\ Executed(p, seen) = OnChain(p, seen)

\* A decision for slot s is granted only if no program of the manifest was
\* upgraded from the start of the artifact's calibration to the observation,
\* and the observation is recent.
GrantsSeeTheChain ==
    \A s \in Slots :
        Eligible(s, TRUE) =>
            \A p \in DOMAIN manifest[pointer].bindings :
                LET seen == evidence[p].observed
                IN  /\ s - seen \in 0..MaxDeploymentAge
                    /\ \A t \in 0..seen : t >= Calibration[Digest(pointer)] =>
                           OnChain(p, t) = manifest[pointer].bindings[p]
==============================================================================
