------------------------ MODULE DeploymentWatcherProofs ------------------------
(***************************************************************************)
(* The watchers and what their evidence is worth (refresh_deployments and  *)
(* record_deployments, src/cu_pilot/lifecycle.py), for any programs, any   *)
(* upgrades and any number of watchers.                                    *)
(*                                                                         *)
(* The argument: the two reads of a recorded batch are of one slot, and a  *)
(* fingerprint that differs from an earlier one of its program was         *)
(* deployed after it, so a deployment slot says since when the program is  *)
(* what the evidence shows.                                                *)
(***************************************************************************)
EXTENDS DeploymentWatcher, ProfileRegistryProofs

Positions == [step : {"idle", "second", "record", "failed"}, batch : SUBSET Programs,
              first : Slots \cup {NoSlot}, second : Slots \cup {NoSlot}]

\* What was on the chain before a slot and differs from what is there was
\* replaced since, by an upgrade that the fingerprint dates.
Dated == \A p \in Programs : \A s, t \in 0..Now :
             s <= t /\ OnChain(p, s) # OnChain(p, t) =>
                 p \in Upgradeable /\ Deployed[OnChain(p, t)] \in (s + 1)..t

ChainOK == /\ history \in Seq([Programs -> Fingerprints])
           /\ Len(history) \in 1..(LastSlot + 1)
           /\ Dated

EvidenceOK == \A p \in Cached :
                  /\ evidence[p].observed \in 0..Now
                  /\ evidence[p].fingerprint = OnChain(p, evidence[p].observed)
                  /\ Deployed[evidence[p].fingerprint] < evidence[p].observed

WatcherOK(w) ==
    /\ watcher[w].step \in {"second", "record"} =>
           watcher[w].batch # {} /\ watcher[w].first \in 0..Now
    /\ watcher[w].step = "record" => watcher[w].second = watcher[w].first

WatchInv == /\ IInv
            /\ watcher \in [Watchers -> Positions]
            /\ ChainOK /\ EvidenceOK
            /\ \A w \in Watchers : WatcherOK(w)

-----------------------------------------------------------------------------
LEMMA SlotRange == /\ LastSlot \in Nat /\ Slots = 0..LastSlot
                   /\ \A f \in Fingerprints : Deployed[f] \in Slots \cup {NoSlot} /\ Deployed[f] \in Int
<1>1. LastSlot \in Nat /\ Slots = 0..LastSlot
    BY WatcherAssumption, RegistryAssumption
<1> QED BY <1>1, RegistryAssumption DEF NoSlot

\* The slots so far, and what was on the chain in them.
LEMMA ChainSlots ==
    ASSUME ChainOK
    PROVE  /\ Now \in 0..LastSlot /\ Now \in Slots
           /\ \A s \in 0..Now : /\ s + 1 \in 1..Len(history) /\ s \in Slots
                                /\ \A p \in Programs : OnChain(p, s) \in Fingerprints
<1>1. Len(history) \in Nat /\ Now \in 0..LastSlot
    BY SlotRange DEF ChainOK, Now
<1>2. \A s \in 0..Now : s + 1 \in 1..Len(history) /\ s \in 0..LastSlot
    BY <1>1, SlotRange DEF Now
<1>3. \A n \in 1..Len(history) : history[n] \in [Programs -> Fingerprints]
    BY DEF ChainOK
<1> QED BY <1>1, <1>2, <1>3, SlotRange DEF OnChain

\* A step in which the chain stays where it is.
LEMMA ChainStays ==
    ASSUME WatchInv, UNCHANGED history
    PROVE  /\ ChainOK' /\ Now' = Now
           /\ \A p, s : OnChain(p, s)' = OnChain(p, s)
BY DEF WatchInv, ChainOK, Dated, Now, OnChain

\* The next slot.
LEMMA AdvanceKeeps ==
    ASSUME WatchInv, Advance
    PROVE  WatchInv'
<1>1. PICK n : n = Now
    OBVIOUS
<1>2. PICK f \in [Programs -> Fingerprints] :
          /\ \A p \in Programs : f[p] # OnChain(p, n) =>
                 p \in Upgradeable /\ Deployed[f[p]] = n + 1
          /\ history' = Append(history, f)
    BY <1>1 DEF Advance
<1>3. /\ history \in Seq([Programs -> Fingerprints]) /\ Len(history) = n + 1
      /\ n < LastSlot /\ UNCHANGED <<vars, watcher>> /\ n \in 0..LastSlot
    BY <1>1, ChainSlots DEF WatchInv, ChainOK, Advance, Same, Now
<1>4. /\ history' \in Seq([Programs -> Fingerprints]) /\ Len(history') = n + 2
      /\ \A k \in 1..(n + 1) : history'[k] = history[k]
      /\ history'[n + 2] = f
    BY <1>2, <1>3
<1>5. Now' = n + 1 /\ n + 1 \in 0..LastSlot
    BY <1>3, <1>4, SlotRange DEF Now
<1>6. /\ \A s \in 0..n : \A p \in Programs : OnChain(p, s)' = OnChain(p, s)
      /\ \A p \in Programs : OnChain(p, n + 1)' = f[p]
    BY <1>3, <1>4 DEF OnChain
<1>7. ASSUME NEW p \in Programs, NEW s \in 0..(n + 1), NEW t \in 0..(n + 1),
             s <= t, OnChain(p, s)' # OnChain(p, t)'
      PROVE  p \in Upgradeable /\ Deployed[OnChain(p, t)'] \in (s + 1)..t
    <2>1. CASE t \in 0..n
        <3>1. s \in 0..n
            BY <1>3, <1>7, <2>1
        <3>2. OnChain(p, s)' = OnChain(p, s) /\ OnChain(p, t)' = OnChain(p, t)
            BY <1>6, <2>1, <3>1
        <3> QED BY <1>1, <1>7, <2>1, <3>1, <3>2 DEF WatchInv, ChainOK, Dated
    <2>2. CASE t = n + 1
        <3>1. OnChain(p, t)' = f[p] /\ s # t
            BY <1>6, <1>7, <2>2
        <3>2. s \in 0..n
            BY <1>3, <2>2, <3>1
        <3>3. OnChain(p, s) # f[p]
            BY <1>6, <1>7, <3>1, <3>2
        <3>4. CASE f[p] # OnChain(p, n)
            BY <1>2, <1>3, <2>2, <3>1, <3>2, <3>4
        <3>5. CASE f[p] = OnChain(p, n)
            <4>1. p \in Upgradeable /\ Deployed[f[p]] \in (s + 1)..n
                BY <1>1, <1>3, <3>2, <3>3, <3>5 DEF WatchInv, ChainOK, Dated
            <4> QED BY <1>3, <2>2, <3>1, <3>2, <4>1
        <3> QED BY <3>4, <3>5
    <2> QED BY <1>3, <2>1, <2>2
<1>8. ChainOK'
    <2>1. Dated'
        BY <1>5, <1>7 DEF Dated
    <2> QED BY <1>3, <1>4, <1>5, <2>1, SlotRange DEF ChainOK
<1>9. EvidenceOK'
    <2>1. evidence' = evidence /\ Cached' = Cached
        BY <1>3 DEF vars, Cached
    <2>2. ASSUME NEW p \in Cached
          PROVE  /\ evidence[p].observed \in 0..(n + 1)
                 /\ evidence[p].fingerprint = OnChain(p, evidence[p].observed)'
                 /\ Deployed[evidence[p].fingerprint] < evidence[p].observed
        <3>1. p \in Programs /\ evidence[p].observed \in 0..n
            BY <1>1 DEF Cached, WatchInv, EvidenceOK
        <3>2. PICK s \in 0..n : s = evidence[p].observed
            BY <3>1
        <3>3. OnChain(p, s)' = OnChain(p, s)
            BY <1>6, <3>1
        <3> QED BY <1>3, <2>1, <3>1, <3>2, <3>3 DEF WatchInv, EvidenceOK, OnChain
    <2> QED BY <1>5, <2>1, <2>2 DEF EvidenceOK
<1>10. IInv'
    BY <1>3, NextIInv DEF WatchInv
<1>11. \A w \in Watchers : WatcherOK(w)'
    BY <1>1, <1>3, <1>5 DEF WatchInv, WatcherOK
<1> QED BY <1>3, <1>8, <1>9, <1>10, <1>11 DEF WatchInv

\* A step of a watcher that leaves the registry and the chain as they are.
LEMMA WatcherMoves ==
    ASSUME WatchInv, UNCHANGED <<vars, history>>, NEW w \in Watchers,
           watcher' \in [Watchers -> Positions],
           \A x \in Watchers \ {w} : watcher'[x] = watcher[x],
           WatcherOK(w)'
    PROVE  WatchInv'
<1>1. ChainOK' /\ Now' = Now /\ \A p, s : OnChain(p, s)' = OnChain(p, s)
    BY ChainStays
<1>2. EvidenceOK'
    BY <1>1 DEF WatchInv, EvidenceOK, Cached, vars, OnChain
<1>3. IInv'
    BY NextIInv DEF WatchInv
<1>4. \A x \in Watchers : WatcherOK(x)'
    BY <1>1 DEF WatchInv, WatcherOK
<1> QED BY <1>1, <1>2, <1>3, <1>4 DEF WatchInv

\* A watcher that is done, failed or gone.
LEMMA Stands ==
    ASSUME WatchInv, NEW w \in Watchers, NEW new \in {Away, Failed}, Go(w, new)
    PROVE  /\ watcher' \in [Watchers -> Positions]
           /\ \A x \in Watchers \ {w} : watcher'[x] = watcher[x]
           /\ WatcherOK(w)'
<1>1. new \in Positions /\ new.step \notin {"second", "record"}
    BY DEF Away, Failed, Positions
<1>2. watcher[w] \in Positions
    BY DEF WatchInv
<1>3. Amend(watcher[w], new) = new
    BY <1>1, <1>2 DEF Amend, Positions
<1>4. /\ watcher' \in [Watchers -> Positions] /\ watcher'[w] = new
      /\ \A x \in Watchers \ {w} : watcher'[x] = watcher[x]
    BY <1>1, <1>3 DEF Go, WatchInv
<1> QED BY <1>1, <1>4 DEF WatcherOK

LEMMA ReadProgramsKeeps ==
    ASSUME WatchInv, NEW w \in Watchers, NEW batch \in SUBSET Programs, NEW current \in Slots,
           ReadPrograms(w, batch, current)
    PROVE  WatchInv'
<1>1. PICK s \in current..Now :
          Go(w, [step |-> IF batch \cap Upgradeable = {} THEN "record" ELSE "second",
                 batch |-> batch, first |-> s, second |-> s])
    BY DEF ReadPrograms
<1>2. s \in 0..Now /\ s \in Slots /\ batch # {} /\ UNCHANGED <<vars, history>>
    BY <1>1, ChainSlots, SlotRange DEF WatchInv, ReadPrograms, Go, Same
<1>3. /\ watcher' \in [Watchers -> Positions]
      /\ \A x \in Watchers \ {w} : watcher'[x] = watcher[x]
      /\ watcher'[w].batch = batch /\ watcher'[w].first = s /\ watcher'[w].second = s
    BY <1>1, <1>2 DEF WatchInv, Go, Amend, Positions
<1>4. Now' = Now
    BY <1>2 DEF Now
<1> QED BY <1>2, <1>3, <1>4, WatcherMoves DEF WatcherOK

LEMMA ReadProgramDataKeeps ==
    ASSUME WatchInv, NEW w \in Watchers, ReadProgramData(w)
    PROVE  WatchInv'
<1>1. PICK s \in watcher[w].first..Now :
          IF s = watcher[w].first THEN Go(w, [step |-> "record", second |-> s])
          ELSE Go(w, Failed)
    BY DEF ReadProgramData
<1>2. /\ watcher[w].first \in 0..Now /\ watcher[w].batch # {}
      /\ UNCHANGED <<vars, history>>
    BY <1>1 DEF WatchInv, WatcherOK, ReadProgramData, Go, Same
<1>3. CASE s = watcher[w].first
    <2>1. s \in Slots
        BY <1>2, <1>3, ChainSlots DEF WatchInv
    <2>2. /\ watcher' \in [Watchers -> Positions]
          /\ \A x \in Watchers \ {w} : watcher'[x] = watcher[x]
          /\ watcher'[w].batch = watcher[w].batch /\ watcher'[w].first = s
          /\ watcher'[w].second = s
        BY <1>1, <1>3, <2>1 DEF WatchInv, Go, Amend, Positions
    <2>3. Now' = Now
        BY <1>2 DEF Now
    <2> QED BY <1>2, <1>3, <2>2, <2>3, WatcherMoves DEF WatcherOK
<1>4. CASE s # watcher[w].first
    BY <1>1, <1>2, <1>4, Stands, WatcherMoves
<1> QED BY <1>3, <1>4

\* What a watcher at its record has seen is a batch of one slot.
LEMMA ObservedAt ==
    ASSUME WatchInv, NEW w \in Watchers, watcher[w].step = "record"
    PROVE  /\ watcher[w].first \in 0..Now /\ watcher[w].first \in Slots
           /\ DOMAIN Observed(w) = watcher[w].batch /\ watcher[w].batch \subseteq Programs
           /\ Observed(w) \in Bindings
           /\ \A p \in watcher[w].batch : Observed(w)[p] = OnChain(p, watcher[w].first)
<1>1. /\ watcher[w].first \in 0..Now /\ watcher[w].batch # {}
      /\ watcher[w].second = watcher[w].first /\ watcher[w].batch \subseteq Programs
    BY DEF WatchInv, WatcherOK, Positions
<1>2. /\ watcher[w].first \in Slots
      /\ \A p \in Programs : OnChain(p, watcher[w].first) \in Fingerprints
    BY <1>1, ChainSlots DEF WatchInv
<1>3. /\ DOMAIN Observed(w) = watcher[w].batch
      /\ \A p \in watcher[w].batch : Observed(w)[p] = OnChain(p, watcher[w].first)
    BY <1>1 DEF Observed
<1>4. Observed(w) \in [watcher[w].batch -> Fingerprints]
    BY <1>1, <1>2 DEF Observed
<1>5. watcher[w].batch \in (SUBSET Programs) \ {{}}
    BY <1>1
<1>6. Observed(w) \in Bindings
    BY <1>4, <1>5 DEF Bindings
<1> QED BY <1>1, <1>2, <1>3, <1>6

LEMMA RecordKeeps ==
    ASSUME WatchInv, NEW w \in Watchers, Record(w)
    PROVE  WatchInv' /\ Next
<1>1. PICK f, s : f = Observed(w) /\ s = watcher[w].first
    OBVIOUS
<1>2. /\ s \in 0..Now /\ s \in Slots /\ DOMAIN f \subseteq Programs /\ f \in Bindings
      /\ \A p \in DOMAIN f : f[p] = OnChain(p, s)
    BY <1>1, ObservedAt DEF Record
<1>3. RecordDeployments(f, s) /\ Go(w, Away)
    BY <1>1 DEF Record
<1>4. Next
    BY <1>2, <1>3 DEF Next, Watch
<1>5. IInv'
    BY <1>4, NextIInv DEF WatchInv
<1>6. ChainOK' /\ Now' = Now /\ \A p, x : OnChain(p, x)' = OnChain(p, x)
    BY <1>3, ChainStays DEF Go
<1>7. EvidenceOK'
    <2>1. /\ \A p \in DOMAIN f : Deployed[f[p]] < s
          /\ evidence' = [p \in Programs |-> IF p \in DOMAIN f
                                             THEN [fingerprint |-> f[p], observed |-> s]
                                             ELSE evidence[p]]
        BY <1>3 DEF RecordDeployments
    <2>2. ASSUME NEW p \in Cached'
          PROVE  /\ evidence'[p].observed \in 0..Now
                 /\ evidence'[p].fingerprint = OnChain(p, evidence'[p].observed)
                 /\ Deployed[evidence'[p].fingerprint] < evidence'[p].observed
        <3>1. p \in Programs /\ evidence'[p] # NoEvidence
            BY DEF Cached
        <3>2. CASE p \in DOMAIN f
            BY <1>2, <2>1, <3>1, <3>2
        <3>3. CASE p \notin DOMAIN f
            BY <2>1, <3>1, <3>3 DEF WatchInv, EvidenceOK, Cached
        <3> QED BY <3>2, <3>3
    <2> QED BY <1>6, <2>2 DEF EvidenceOK, OnChain
<1>8. /\ watcher' \in [Watchers -> Positions]
      /\ \A x \in Watchers \ {w} : watcher'[x] = watcher[x]
      /\ WatcherOK(w)'
    BY <1>3, Stands
<1>9. \A x \in Watchers : WatcherOK(x)'
    BY <1>6, <1>8 DEF WatchInv, WatcherOK
<1> QED BY <1>4, <1>5, <1>6, <1>7, <1>8, <1>9 DEF WatchInv

\* A step of the registry that leaves evidence, chain and watchers alone.
LEMMA RegistryMoves ==
    ASSUME WatchInv, [Next]_vars, UNCHANGED <<evidence, history>>,
           watcher' \in [Watchers -> Positions], \A x \in Watchers : WatcherOK(x)'
    PROVE  WatchInv'
<1>1. IInv'
    BY NextIInv DEF WatchInv
<1>2. ChainOK' /\ Now' = Now /\ \A p, s : OnChain(p, s)' = OnChain(p, s)
    BY ChainStays
<1>3. EvidenceOK'
    BY <1>2 DEF WatchInv, EvidenceOK, Cached, OnChain
<1> QED BY <1>1, <1>2, <1>3 DEF WatchInv

LEMMA SignalKeeps ==
    ASSUME WatchInv, NEW w \in Watchers, Signal(w)
    PROVE  WatchInv' /\ Next
<1>1. WatcherFailed /\ Go(w, Away) /\ UNCHANGED <<evidence, history>>
    BY DEF Signal, WatcherFailed, Go
<1>2. Next
    BY <1>1 DEF Next, Watch
<1>3. /\ watcher' \in [Watchers -> Positions]
      /\ \A x \in Watchers \ {w} : watcher'[x] = watcher[x]
      /\ WatcherOK(w)'
    BY <1>1, Stands
<1>4. \A x \in Watchers : WatcherOK(x)'
    BY <1>1, <1>3 DEF WatchInv, WatcherOK, Now
<1> QED BY <1>1, <1>2, <1>3, <1>4, RegistryMoves

LEMMA ReleaseKeeps ==
    ASSUME WatchInv, Release, UNCHANGED wvars
    PROVE  WatchInv' /\ Next
<1>1. Next /\ UNCHANGED evidence
    <2>1. CASE \E r \in Revisions : \E m \in Manifests : Register(r, m)
        BY <2>1 DEF Register, Next, Operate
    <2>2. CASE \E r \in Revisions : EnterShadow(r)
        BY <2>2 DEF EnterShadow, Next, Operate
    <2>3. CASE \E r \in Revisions : \E s \in Slots : Activate(r, s)
        BY <2>3 DEF Activate, Next, Operate
    <2> QED BY <2>1, <2>2, <2>3 DEF Release
<1>2. \A x \in Watchers : WatcherOK(x)'
    BY DEF WatchInv, WatcherOK, wvars, Now
<1> QED BY <1>1, <1>2, RegistryMoves DEF WatchInv, wvars

LEMMA WatchInvStarts == WInit => WatchInv
<1> SUFFICES ASSUME WInit PROVE WatchInv
    OBVIOUS
<1>1. history \in Seq([Programs -> Fingerprints]) /\ Len(history) = 1 /\ Now = 0
    BY WatcherAssumption DEF WInit, Now
<1>2. ChainOK
    BY <1>1, SlotRange DEF ChainOK, Dated
<1>3. EvidenceOK
    BY DEF WInit, Init, EvidenceOK, Cached
<1>4. watcher \in [Watchers -> Positions] /\ \A w \in Watchers : WatcherOK(w)
    BY DEF WInit, Positions, Away, WatcherOK
<1> QED BY <1>2, <1>3, <1>4, InitIInv DEF WInit, WatchInv

LEMMA WatchInvStays == WatchInv /\ [WNext]_<<vars, wvars>> => WatchInv' /\ [Next]_vars
<1> SUFFICES ASSUME WatchInv, [WNext]_<<vars, wvars>> PROVE WatchInv' /\ [Next]_vars
    OBVIOUS
<1>1. ASSUME NEW w \in Watchers, Refresh(w)
      PROVE  WatchInv' /\ [Next]_vars
    <2>1. CASE \E batch \in SUBSET Programs, s \in Slots : ReadPrograms(w, batch, s)
        BY <2>1, ReadProgramsKeeps DEF ReadPrograms, Same
    <2>2. CASE ReadProgramData(w)
        BY <2>2, ReadProgramDataKeeps DEF ReadProgramData, Same
    <2>3. CASE Record(w)
        BY <2>3, RecordKeeps
    <2>4. CASE Refuse(w) \/ Raise(w) \/ Crash(w)
        <3>1. UNCHANGED <<vars, history>> /\ (Go(w, Away) \/ Go(w, Failed))
            BY <2>4 DEF Refuse, Raise, Crash, Same, Go
        <3> QED BY <3>1, Stands, WatcherMoves
    <2>5. CASE Signal(w)
        BY <2>5, SignalKeeps
    <2> QED BY <1>1, <2>1, <2>2, <2>3, <2>4, <2>5 DEF Refresh
<1>2. CASE Advance
    BY <1>2, AdvanceKeeps DEF Advance, Same
<1>3. CASE Release /\ UNCHANGED wvars
    BY <1>3, ReleaseKeeps
<1>4. CASE UNCHANGED <<vars, wvars>>
    <2>1. UNCHANGED vars /\ UNCHANGED wvars
        BY <1>4
    <2>2. \A x \in Watchers : WatcherOK(x)'
        BY <2>1 DEF WatchInv, WatcherOK, wvars, Now
    <2> QED BY <2>1, <2>2, RegistryMoves DEF WatchInv, vars, wvars
<1> QED BY <1>1, <1>2, <1>3, <1>4 DEF WNext

\* The registry under watchers is the registry of ProfileRegistry, so what was
\* proved of it holds beside them.
THEOREM WatchedRegistry == WSpec => Spec
<1>1. WInit => Init
    BY DEF WInit
<1> QED BY <1>1, WatchInvStarts, WatchInvStays, PTL DEF WSpec, Spec

\* Cached evidence is the code that its slot executed and that its accounts
\* held, however the two reads fell around an upgrade and however watchers
\* overlapped, died or failed.
THEOREM EvidenceCorrect == WSpec => []EvidenceWasExecuted
<1>1. WatchInv => EvidenceWasExecuted
    <2> SUFFICES ASSUME WatchInv, NEW p \in Cached
                 PROVE  /\ evidence[p].fingerprint = Executed(p, evidence[p].observed)
                        /\ Executed(p, evidence[p].observed) = OnChain(p, evidence[p].observed)
        BY DEF EvidenceWasExecuted
    <2>1. PICK s \in 0..Now : s = evidence[p].observed
        BY DEF WatchInv, EvidenceOK
    <2>2. p \in Programs /\ evidence[p].fingerprint = OnChain(p, s) /\ Deployed[OnChain(p, s)] < s
        BY <2>1 DEF WatchInv, EvidenceOK, Cached
    <2>3. Now \in Nat
        BY ChainSlots DEF WatchInv
    <2>4. CASE s = 0
        BY <2>1, <2>2, <2>4 DEF Executed
    <2>5. CASE s # 0
        <3>1. s - 1 \in 0..Now /\ s - 1 <= s /\ (s - 1) + 1 = s
            BY <2>3, <2>5
        <3>2. OnChain(p, s - 1) # OnChain(p, s) => Deployed[OnChain(p, s)] \in ((s - 1) + 1)..s
            BY <2>2, <3>1 DEF WatchInv, ChainOK, Dated
        <3>3. OnChain(p, s - 1) = OnChain(p, s)
            BY <2>2, <3>1, <3>2
        <3> QED BY <2>1, <2>2, <2>5, <3>3 DEF Executed
    <2> QED BY <2>4, <2>5
<1> QED BY <1>1, WatchInvStarts, WatchInvStays, PTL DEF WSpec

\* A decision is granted only for programs that were not upgraded from the
\* start of the artifact's calibration to the observation, which is recent.
THEOREM GrantsCorrect == WSpec => []GrantsSeeTheChain
<1>1. WatchInv => GrantsSeeTheChain
    <2> SUFFICES ASSUME WatchInv, NEW s \in Slots, Eligible(s, TRUE),
                        NEW p \in DOMAIN manifest[pointer].bindings
                 PROVE  LET seen == evidence[p].observed
                        IN  /\ s - seen \in 0..MaxDeploymentAge
                            /\ \A t \in 0..seen : t >= Calibration[Digest(pointer)] =>
                                   OnChain(p, t) = manifest[pointer].bindings[p]
        BY DEF GrantsSeeTheChain
    <2> DEFINE m == manifest[pointer]
               seen == evidence[p].observed
               f == evidence[p].fingerprint
    <2>1. pointer \in Revisions /\ state[pointer] = "active"
        BY DEF Eligible, Trusted, Released, WatchInv, IInv, TypeOK, NoRevision
    <2>2. m \in Manifests
        BY <2>1 DEF WatchInv, IInv, TablesAgree
    <2>3. m.digest \in Digests /\ m.bindings \in Bindings
        BY <2>2, RegistryAssumption
    <2>4. p \in Programs
        BY <2>3 DEF Bindings
    <2>5. ~DeploymentFault(m, p, s)
        BY DEF Eligible, EnvironmentFault
    <2>6. /\ p \in Cached /\ f = m.bindings[p]
          /\ ~(Deployed[f] # NoSlot /\ Deployed[f] >= Calibration[m.digest])
          /\ ~(s < seen) /\ ~(s - seen > MaxDeploymentAge)
        BY <2>4, <2>5 DEF DeploymentFault, Cached
    <2>7. seen \in 0..Now /\ f = OnChain(p, seen) /\ f \in Fingerprints
        BY <2>4, <2>6, ChainSlots DEF WatchInv, EvidenceOK
    <2>8. /\ Now \in Nat /\ s \in Nat /\ MaxDeploymentAge \in Nat
          /\ Deployed[f] \in Int /\ Deployed[f] \in Slots \cup {NoSlot}
          /\ Calibration[m.digest] \in Int
        BY <2>3, <2>7, ChainSlots, SlotRange, RegistryAssumption DEF WatchInv, NoSlot
    <2>9. s - seen \in 0..MaxDeploymentAge
        BY <2>6, <2>7, <2>8
    <2>10. ASSUME NEW t \in 0..seen, t >= Calibration[m.digest]
           PROVE  OnChain(p, t) = m.bindings[p]
        <3>1. t \in 0..Now /\ t <= seen
            BY <2>7, <2>8
        <3>2. OnChain(p, t) # f => Deployed[f] \in (t + 1)..seen
            BY <2>4, <2>7, <3>1 DEF WatchInv, ChainOK, Dated
        <3>3. ~(Deployed[f] \in (t + 1)..seen)
            BY <2>6, <2>7, <2>8, <2>10, <3>1 DEF NoSlot
        <3> QED BY <2>6, <3>2, <3>3
    <2> QED BY <2>9, <2>10 DEF Digest
<1> QED BY <1>1, WatchInvStarts, WatchInvStays, PTL DEF WSpec

\* What the watchers record of a chain that is upgraded under them does not
\* break the registry's promise either (ReleaseGate): it withdraws artifacts and
\* never brings one back.
COROLLARY WatchersKeepGate == WSpec => GateSpec
BY WatchedRegistry, ImplementsGate, PTL
==============================================================================
