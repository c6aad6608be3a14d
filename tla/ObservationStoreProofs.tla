------------------------ MODULE ObservationStoreProofs ------------------------
(***************************************************************************)
(* The observation store, its collectors and reconcilers                   *)
(* (src/cu_pilot/shadow.py), for any number of each and any streams.       *)
(*                                                                         *)
(* The argument: what the store has of an observation only grows, so what  *)
(* a collector read of it before is still so when the collector uses it.   *)
(* The invariant says, for each step a collector can stand at, what it has *)
(* read and what the requests it passed have left in the store.            *)
(***************************************************************************)
EXTENDS OutcomeReconciliation, TLAPS

Requests == [id : Ids, input : Inputs]

RowOK(i) ==
    /\ control[i].outcome \in {NoResult, row[i].result}
    /\ row[i].result # NoResult => row[i].result.plan \in {None, row[i].plan}
    /\ row[i].phase = "complete" => row[i].result # NoResult

\* The request has its label, from its own input.
Labelled(q) == row[q.id].input = q.input /\ row[q.id].result # NoResult
\* ... and the registry knows it when it is a control.
Passed(q) == /\ Labelled(q)
             /\ Selected(row[q.id].result) => control[q.id].outcome = row[q.id].result

CollectorOK(c) ==
    IF At(c, "idle") THEN collector[c].cursor = 0
    ELSE /\ collector[c].stream \in Streams
         /\ collector[c].cursor \in 1..Len(collector[c].stream)
         /\ \A k \in 1..(collector[c].cursor - 1) : Passed(collector[c].stream[k])
         /\ ~At(c, "ingest") => Row(c).input = Request(c).input
         /\ At(c, "freeze") => collector[c].plan # None
         /\ At(c, "execute") => collector[c].plan # None /\ collector[c].plan = Row(c).plan
         /\ At(c, "finish") \/ At(c, "resume") =>
                /\ collector[c].result # NoResult
                /\ collector[c].result.plan \in {None, Row(c).plan}
         /\ At(c, "audit") \/ At(c, "trace") =>
                collector[c].result # NoResult /\ collector[c].result = Row(c).result
         /\ At(c, "trace") => Passed(Request(c))

CheckpointOK ==
    /\ checkpoint \in [Streams -> Nat]
    /\ \A s \in Streams : /\ checkpoint[s] <= Len(s)
                          /\ \A k \in 1..checkpoint[s] : Labelled(s[k])

StoreInv ==
    /\ TypeOK
    /\ \A i \in Ids : RowOK(i)
    /\ \A c \in Collectors : CollectorOK(c)
    /\ CheckpointOK

-----------------------------------------------------------------------------
(* What the store has of an observation only grows.                        *)

Grows(i) ==
    /\ row[i].input # "none" => row'[i].input = row[i].input
    /\ row[i].plan # None => row'[i].plan = row[i].plan
    /\ row[i].result # NoResult => row'[i].result = row[i].result
    /\ control[i].draw # "none" => control'[i].draw = control[i].draw
    /\ control[i].outcome # NoResult => control'[i].outcome = control[i].outcome
Growing == \A i \in Ids : Grows(i)

\* A stream is a sequence of requests.
LEMMA StreamRequests ==
    ASSUME NEW s \in Streams
    PROVE  /\ s \in Seq(Requests) /\ Len(s) \in Nat \ {0}
           /\ \A k \in 1..Len(s) : s[k] \in Requests /\ s[k].id \in Ids /\ s[k].input \in Inputs
                                   /\ s[k].input # "none"
<1>1. s \in Seq(Requests) /\ s # <<>>
    BY CollectionAssumption DEF Requests
<1>2. \A k \in 1..Len(s) : s[k] \in Requests
    BY <1>1
<1> QED BY <1>1, <1>2, CollectionAssumption DEF Requests

\* The request a running collector stands at is one of its stream.
LEMMA RequestAt ==
    ASSUME StoreInv, NEW c \in Collectors, ~At(c, "idle")
    PROVE  /\ collector[c].stream \in Streams
           /\ collector[c].cursor \in 1..Len(collector[c].stream)
           /\ Len(collector[c].stream) \in Nat
           /\ Request(c) \in Requests /\ Id(c) \in Ids /\ Request(c).input \in Inputs
           /\ Request(c).input # "none"
           /\ \A k \in 1..collector[c].cursor :
                  /\ k \in 1..Len(collector[c].stream)
                  /\ collector[c].stream[k] \in Requests /\ collector[c].stream[k].id \in Ids
                  /\ collector[c].stream[k].input # "none"
<1>1. collector[c].stream \in Streams /\ collector[c].cursor \in 1..Len(collector[c].stream)
    BY DEF StoreInv, CollectorOK
<1>2. /\ Len(collector[c].stream) \in Nat
      /\ \A k \in 1..Len(collector[c].stream) :
            /\ collector[c].stream[k] \in Requests /\ collector[c].stream[k].id \in Ids
            /\ collector[c].stream[k].input \in Inputs /\ collector[c].stream[k].input # "none"
    BY <1>1, StreamRequests
<1>3. \A k \in 1..collector[c].cursor : k \in 1..Len(collector[c].stream)
    BY <1>1, <1>2
<1> QED BY <1>1, <1>2, <1>3 DEF Request, Id

\* A request that was passed stays passed.
LEMMA PassedStays ==
    ASSUME Growing, NEW q, q.id \in Ids, q.input # "none", RowOK(q.id)
    PROVE  /\ Labelled(q) => Labelled(q)'
           /\ Passed(q) => Passed(q)'
<1>1. Grows(q.id)
    BY DEF Growing
<1>2. Labelled(q) => /\ row'[q.id].input = q.input /\ row'[q.id].result # NoResult
                     /\ row'[q.id].result = row[q.id].result
    BY <1>1 DEF Grows, Labelled
<1>3. Passed(q) => (Selected(row'[q.id].result) => control'[q.id].outcome = row'[q.id].result)
    BY <1>1, <1>2 DEF Passed, Grows, Labelled
<1> QED BY <1>2, <1>3 DEF Labelled, Passed

\* A collector that does not move keeps what it has read.
LEMMA StandsStill ==
    ASSUME StoreInv, Growing, NEW c \in Collectors, collector'[c] = collector[c]
    PROVE  CollectorOK(c)'
<1>1. CASE At(c, "idle")
    BY <1>1 DEF StoreInv, CollectorOK, At
<1>2. CASE ~At(c, "idle")
    <2> DEFINE me == collector[c]
    <2>1. /\ me.stream \in Streams /\ me.cursor \in 1..Len(me.stream)
          /\ Request(c) \in Requests /\ Id(c) \in Ids /\ Request(c).input # "none"
          /\ \A k \in 1..me.cursor : me.stream[k].id \in Ids /\ me.stream[k].input # "none"
        BY <1>2, RequestAt
    <2>2. CollectorOK(c)
        BY DEF StoreInv
    <2>3. \A k \in 1..(me.cursor - 1) : Passed(me.stream[k])'
        <3> TAKE k \in 1..(me.cursor - 1)
        <3>1. Passed(me.stream[k])
            BY <1>2, <2>2 DEF CollectorOK
        <3>2. k \in 1..me.cursor
            BY <2>1, StreamRequests
        <3> DEFINE q == me.stream[k]
        <3>3. q.id \in Ids /\ q.input # "none" /\ RowOK(q.id) /\ Passed(q)
            BY <3>1, <3>2, <2>1 DEF StoreInv
        <3> HIDE DEF q
        <3>4. row'[q.id].input = q.input /\ row'[q.id].result # NoResult
              /\ (Selected(row'[q.id].result) => control'[q.id].outcome = row'[q.id].result)
            BY <3>3, PassedStays DEF Passed, Labelled
        <3> QED BY <3>4 DEF q, Passed, Labelled
    <2>4. Grows(Id(c))
        BY <2>1 DEF Growing
    <2>5. At(c, "trace") => Passed(Request(c))'
        <3> SUFFICES ASSUME At(c, "trace") PROVE Passed(Request(c))'
            OBVIOUS
        <3> DEFINE q == Request(c)
        <3>1. q.id \in Ids /\ q.input # "none" /\ RowOK(q.id) /\ Passed(q)
            BY <2>1, <2>2, <1>2 DEF StoreInv, CollectorOK, Id
        <3>2. Request(c)' = q
            BY DEF Request
        <3> HIDE DEF q
        <3>3. row'[q.id].input = q.input /\ row'[q.id].result # NoResult
              /\ (Selected(row'[q.id].result) => control'[q.id].outcome = row'[q.id].result)
            BY <3>1, PassedStays DEF Passed, Labelled
        <3> QED BY <3>2, <3>3 DEF Passed, Labelled
    <2>6. /\ At(c, "idle")' = At(c, "idle")
          /\ Request(c)' = Request(c) /\ Id(c)' = Id(c) /\ Row(c)' = row'[Id(c)]
        BY DEF At, Request, Id, Row
    <2>7. ~At(c, "ingest") => Row(c)'.input = Request(c)'.input
        BY <2>1, <2>2, <2>4, <2>6, <1>2 DEF CollectorOK, Grows, Row
    <2>8. At(c, "execute") => me.plan # None /\ me.plan = Row(c)'.plan
        BY <2>2, <2>4, <2>6, <1>2 DEF CollectorOK, Grows, Row
    <2>9. At(c, "finish") \/ At(c, "resume") =>
              me.result # NoResult /\ me.result.plan \in {None, Row(c)'.plan}
        BY <2>2, <2>4, <2>6, <1>2 DEF CollectorOK, Grows, Row
    <2>10. At(c, "audit") \/ At(c, "trace") =>
              me.result # NoResult /\ me.result = Row(c)'.result
        BY <2>2, <2>4, <2>6, <1>2 DEF CollectorOK, Grows, Row
    <2>11. At(c, "freeze") => me.plan # None
        BY <2>2, <1>2 DEF CollectorOK
    <2> QED BY <2>1, <2>2, <2>3, <2>5, <2>6, <2>7, <2>8, <2>9, <2>10, <2>11, <1>2
            DEF CollectorOK, At
<1> QED BY <1>1, <1>2

\* When one collector moves, the others keep what they have read.
LEMMA OneMoves ==
    ASSUME StoreInv, Growing, NEW c \in Collectors,
           \A d \in Collectors \ {c} : collector'[d] = collector[d],
           CollectorOK(c)'
    PROVE  \A d \in Collectors : CollectorOK(d)'
BY StandsStill

\* The labels of a checkpoint stay when it does not move.
LEMMA CheckpointsStay ==
    ASSUME StoreInv, Growing, checkpoint' = checkpoint
    PROVE  CheckpointOK'
<1>1. ASSUME NEW s \in Streams, NEW k \in 1..checkpoint[s]
      PROVE  Labelled(s[k])'
    <2> DEFINE q == s[k]
    <2>1. k \in 1..Len(s) /\ Labelled(q)
        BY StreamRequests DEF StoreInv, CheckpointOK
    <2>2. q.id \in Ids /\ q.input # "none" /\ RowOK(q.id)
        BY <2>1, StreamRequests DEF StoreInv
    <2> HIDE DEF q
    <2>3. row'[q.id].input = q.input /\ row'[q.id].result # NoResult
        BY <2>1, <2>2, PassedStays DEF Labelled
    <2> QED BY <2>3 DEF q, Labelled
<1> QED BY <1>1 DEF StoreInv, CheckpointOK

\* A step that only moves a collector.
LEMMA OnlyMoves ==
    ASSUME StoreInv, NEW c \in Collectors,
           UNCHANGED <<row, checkpoint, control>>,
           \A d \in Collectors \ {c} : collector'[d] = collector[d],
           TypeOK', CollectorOK(c)'
    PROVE  StoreInv' /\ Growing
<1>1. Growing
    BY DEF Growing, Grows
<1>2. \A i \in Ids : RowOK(i)'
    BY DEF StoreInv, RowOK
<1> QED BY <1>1, <1>2, OneMoves, CheckpointsStay DEF StoreInv

Position == [step : Steps, stream : Streams \cup {<<>>}, cursor : Nat,
             plan : Plans, result : Results, fresh : BOOLEAN]
Positions == [Collectors -> Position]
Stored == [input : Inputs \cup {"none"}, plan : Plans, result : Results,
           phase : {"pending", "planned", "complete"}, trace : 0..1]

LEMMA Typed ==
    ASSUME StoreInv
    PROVE  /\ collector \in Positions /\ collector = [c \in Collectors |-> collector[c]]
           /\ \A c \in Collectors : collector[c] \in Position
           /\ row \in [Ids -> Stored]
BY DEF StoreInv, TypeOK, Positions, Position, Stored

\* A collector that goes on with its request while the store stays.
LEMMA GoesOn ==
    ASSUME StoreInv, NEW c \in Collectors, ~At(c, "idle"), ~At(c, "ingest"),
           UNCHANGED <<row, control>>,
           collector'[c].stream = collector[c].stream, collector'[c].cursor = collector[c].cursor
    PROVE  /\ collector'[c].stream \in Streams
           /\ collector'[c].cursor \in 1..Len(collector'[c].stream)
           /\ \A k \in 1..(collector'[c].cursor - 1) : Passed(collector[c].stream[k])'
           /\ Row(c)' = Row(c) /\ Row(c)'.input = Request(c)'.input
<1>1. CollectorOK(c)
    BY DEF StoreInv
<1>2. Request(c)' = Request(c) /\ Row(c)' = Row(c)
    BY DEF Request, Row, Id
<1>3. \A k \in 1..(collector[c].cursor - 1) : Passed(collector[c].stream[k])'
    BY <1>1 DEF CollectorOK, Passed, Labelled
<1> QED BY <1>1, <1>2, <1>3 DEF CollectorOK

LEMMA LookKeeps ==
    ASSUME StoreInv, NEW c \in Collectors, Look(c)
    PROVE  StoreInv' /\ Growing
<1>1. /\ ~At(c, "idle") /\ ~At(c, "ingest")
      /\ \A d \in Collectors \ {c} : collector'[d] = collector[d]
    BY DEF Look, At, Become, StoreInv, TypeOK
<1>2. Id(c) \in Ids /\ CollectorOK(c) /\ RowOK(Id(c))
    BY <1>1, RequestAt DEF StoreInv
<1>3. TypeOK'
    <2>1. Row(c) \in Stored
        BY <1>2, Typed DEF Row
    <2>2. collector' \in Positions
        BY <2>1, Typed DEF Look, Become, Amend, Position, Positions, Stored, Steps
    <2> QED BY <2>2 DEF StoreInv, TypeOK, Look, Positions, Position
<1>4. /\ collector'[c].stream = collector[c].stream /\ collector'[c].cursor = collector[c].cursor
      /\ collector'[c].step \in {"resume", "prepare", "execute"}
      /\ collector'[c].step = "resume" => /\ Row(c).phase = "complete"
                                          /\ collector'[c].result = Row(c).result
      /\ collector'[c].step = "execute" => /\ Row(c).plan # None
                                           /\ collector'[c].plan = Row(c).plan
    BY <1>2 DEF StoreInv, TypeOK, Look, Become, Amend, Row
<1>5. CollectorOK(c)'
    <2>1. /\ collector'[c].stream \in Streams
          /\ collector'[c].cursor \in 1..Len(collector'[c].stream)
          /\ \A k \in 1..(collector'[c].cursor - 1) : Passed(collector[c].stream[k])'
          /\ Row(c)' = Row(c) /\ Row(c)'.input = Request(c)'.input
        BY <1>1, <1>4, GoesOn DEF Look
    <2>2. CASE collector'[c].step = "resume"
        <3>1. collector'[c].result # NoResult /\ collector'[c].result.plan \in {None, Row(c).plan}
            BY <1>2, <1>4, <2>2 DEF RowOK, Row
        <3> QED BY <2>1, <2>2, <3>1 DEF CollectorOK, At
    <2>3. CASE collector'[c].step = "prepare"
        BY <2>1, <2>3 DEF CollectorOK, At
    <2>4. CASE collector'[c].step = "execute"
        BY <1>4, <2>1, <2>4 DEF CollectorOK, At
    <2> QED BY <1>4, <2>2, <2>3, <2>4
<1> QED BY <1>1, <1>3, <1>5, OnlyMoves DEF Look

LEMMA Constants ==
    /\ None \in Plans /\ NoResult \in Results /\ Fallback \in Results
    /\ Resting \in Position
    /\ MaxSerial \in Nat /\ MaxRuns \in Nat
<1>1. None \in Plans
    BY CollectionAssumption DEF None, Plans, Selections
<1>2. NoResult \in Results /\ Fallback \in Results
    BY <1>1, CollectionAssumption DEF NoResult, Fallback, Results
<1>3. Resting \in Position
    BY <1>1, <1>2 DEF Resting, Position, Steps
<1> QED BY <1>1, <1>2, <1>3, CollectionAssumption

\* A collector that is given a whole position.
LEMMA MovesTo ==
    ASSUME StoreInv, NEW c \in Collectors, NEW new \in Position, Become(c, new)
    PROVE  /\ \A d \in Collectors \ {c} : collector'[d] = collector[d]
           /\ collector' \in Positions /\ collector'[c] = new
<1>1. Amend(collector[c], new) = new
    BY Typed DEF Amend, Position
<1> QED BY <1>1, Typed DEF Become, Positions

\* A run that ends, by a conflict, a crash or the end of its stream.
LEMMA Rests ==
    ASSUME StoreInv, NEW c \in Collectors, Become(c, Resting)
    PROVE  /\ \A d \in Collectors \ {c} : collector'[d] = collector[d]
           /\ collector' \in Positions
           /\ CollectorOK(c)'
<1>1. /\ \A d \in Collectors \ {c} : collector'[d] = collector[d]
      /\ collector' \in Positions /\ collector'[c] = Resting
    BY Constants, MovesTo
<1> QED BY <1>1 DEF CollectorOK, At, Resting

\* A collector that is done with a request leaves it passed.
LEMMA Advances ==
    ASSUME StoreInv, Growing, NEW c \in Collectors, At(c, "audit") \/ At(c, "trace"),
           Advance(c),
           row'[Request(c).id].input = Request(c).input,
           row'[Request(c).id].result # NoResult,
           Selected(row'[Request(c).id].result) =>
               control'[Request(c).id].outcome = row'[Request(c).id].result
    PROVE  /\ \A d \in Collectors \ {c} : collector'[d] = collector[d]
           /\ collector' \in Positions
           /\ CollectorOK(c)'
<1> DEFINE me == collector[c]
<1>1. ~At(c, "idle")
    BY DEF At
<1>2. /\ me.stream \in Streams /\ me.cursor \in 1..Len(me.stream) /\ Len(me.stream) \in Nat
      /\ \A k \in 1..me.cursor : me.stream[k].id \in Ids /\ me.stream[k].input # "none"
    BY <1>1, RequestAt
<1>3. CASE me.cursor < Len(me.stream)
    <2> DEFINE new == [Resting EXCEPT !.step = "ingest", !.stream = me.stream,
                                      !.cursor = me.cursor + 1]
    <2>1. /\ new \in Position
          /\ new.step = "ingest" /\ new.stream = me.stream /\ new.cursor = me.cursor + 1
        <3>1. Resting \in Position
            BY Constants
        <3>2. "ingest" \in Steps /\ me.stream \in Streams \cup {<<>>} /\ me.cursor + 1 \in Nat
            BY <1>2 DEF Steps
        <3> QED BY <3>1, <3>2 DEF Position
    <2>2. Become(c, new)
        BY <1>3 DEF Advance
    <2> HIDE DEF new
    <2>3. /\ \A d \in Collectors \ {c} : collector'[d] = collector[d]
          /\ collector' \in Positions /\ collector'[c] = new
        BY <2>1, <2>2, MovesTo
    <2>4. ASSUME NEW k \in 1..me.cursor
          PROVE  Passed(collector[c].stream[k])'
        <3> DEFINE q == me.stream[k]
        <3>1. q.id \in Ids /\ q.input # "none" /\ RowOK(q.id)
            BY <1>2 DEF StoreInv
        <3>2. collector'[c].stream[k] = q
            BY <2>1, <2>3
        <3>3. /\ row'[q.id].input = q.input /\ row'[q.id].result # NoResult
              /\ Selected(row'[q.id].result) => control'[q.id].outcome = row'[q.id].result
            <4>1. CASE k = me.cursor
                BY <4>1 DEF Request
            <4>2. CASE k # me.cursor
                <5>1. Passed(q)
                    BY <4>2, <1>1, <1>2 DEF StoreInv, CollectorOK
                <5> HIDE DEF q
                <5> QED BY <5>1, <3>1, PassedStays DEF Passed, Labelled
            <4> QED BY <4>1, <4>2
        <3> QED BY <3>2, <3>3 DEF Passed, Labelled
    <2>5. CollectorOK(c)'
        <3>1. me.cursor + 1 \in 1..Len(me.stream) /\ (me.cursor + 1) - 1 = me.cursor
            BY <1>2, <1>3
        <3>2. \A k \in 1..(collector'[c].cursor - 1) : Passed(collector[c].stream[k])'
            BY <2>1, <2>3, <2>4, <3>1
        <3> QED BY <2>1, <2>3, <3>1, <3>2, <1>2 DEF CollectorOK, At
    <2> QED BY <2>3, <2>5
<1>4. CASE ~(me.cursor < Len(me.stream))
    BY <1>4, Rests DEF Advance
<1> QED BY <1>3, <1>4

LEMMA RunKeeps ==
    ASSUME StoreInv, NEW c \in Collectors, NEW s \in Streams, Run(c, s)
    PROVE  StoreInv' /\ Growing
<1>1. /\ \A d \in Collectors \ {c} : collector'[d] = collector[d]
      /\ collector'[c].step = "ingest" /\ collector'[c].stream = s /\ collector'[c].cursor = 1
    BY DEF StoreInv, TypeOK, Run, Become, Amend
<1>2. TypeOK'
    <2>1. collector' \in Positions
        BY Typed DEF Run, Become, Amend, Position, Positions, Steps
    <2>2. runs' \in 0..MaxRuns
        BY Constants DEF Run, StoreInv, TypeOK
    <2> QED BY <2>1, <2>2 DEF StoreInv, TypeOK, Run, Positions, Position
<1>3. CollectorOK(c)'
    BY <1>1, StreamRequests DEF CollectorOK, At
<1> QED BY <1>1, <1>2, <1>3, OnlyMoves DEF Run

LEMMA CrashKeeps ==
    ASSUME StoreInv, NEW c \in Collectors, Crash(c)
    PROVE  StoreInv' /\ Growing
<1>1. /\ \A d \in Collectors \ {c} : collector'[d] = collector[d]
      /\ collector' \in Positions /\ CollectorOK(c)'
    BY Rests DEF Crash
<1>2. TypeOK'
    BY <1>1 DEF StoreInv, TypeOK, Crash, Positions, Position
<1> QED BY <1>1, <1>2, OnlyMoves DEF Crash

LEMMA FallBackKeeps ==
    ASSUME StoreInv, NEW c \in Collectors, FallBack(c)
    PROVE  StoreInv' /\ Growing
<1>1. /\ ~At(c, "idle") /\ ~At(c, "ingest")
      /\ \A d \in Collectors \ {c} : collector'[d] = collector[d]
    BY DEF FallBack, At, Become, StoreInv, TypeOK
<1>2. Id(c) \in Ids /\ CollectorOK(c)
    BY <1>1, RequestAt DEF StoreInv
<1>3. TypeOK'
    <2>1. collector' \in Positions
        BY Typed, Constants DEF FallBack, Become, Amend, Position, Positions, Steps
    <2> QED BY <2>1 DEF StoreInv, TypeOK, FallBack, Positions, Position
<1>4. /\ collector'[c].stream = collector[c].stream /\ collector'[c].cursor = collector[c].cursor
      /\ collector'[c].step = "finish" /\ collector'[c].result = Fallback
    BY DEF StoreInv, TypeOK, FallBack, Become, Amend
<1>5. CollectorOK(c)'
    <2>1. /\ collector'[c].stream \in Streams
          /\ collector'[c].cursor \in 1..Len(collector'[c].stream)
          /\ \A k \in 1..(collector'[c].cursor - 1) : Passed(collector[c].stream[k])'
          /\ Row(c)' = Row(c) /\ Row(c)'.input = Request(c)'.input
        BY <1>1, <1>4, GoesOn DEF FallBack
    <2>2. Fallback # NoResult /\ Fallback.plan = None
        BY DEF Fallback, NoResult
    <2> QED BY <1>4, <2>1, <2>2 DEF CollectorOK, At
<1> QED BY <1>1, <1>3, <1>5, OnlyMoves DEF FallBack

LEMMA ExecuteKeeps ==
    ASSUME StoreInv, NEW c \in Collectors, Execute(c)
    PROVE  StoreInv' /\ Growing
<1>1. /\ ~At(c, "idle") /\ ~At(c, "ingest") /\ At(c, "execute")
      /\ \A d \in Collectors \ {c} : collector'[d] = collector[d]
    BY DEF Execute, At, Become, StoreInv, TypeOK
<1>2. Id(c) \in Ids /\ CollectorOK(c)
    BY <1>1, RequestAt DEF StoreInv
<1>3. serial + 1 \in 0..MaxSerial /\ serial + 1 # -1
    BY CollectionAssumption DEF StoreInv, TypeOK, Execute
<1>4. TypeOK'
    <2>1. [serial |-> serial + 1, plan |-> collector[c].plan] \in Results
        BY <1>3, Typed DEF Results, Position
    <2>2. collector' \in Positions
        <3>1. PICK p : p = Amend(collector[c],
                                 [step |-> "finish", fresh |-> TRUE,
                                  result |-> [serial |-> serial + 1, plan |-> collector[c].plan]])
            OBVIOUS
        <3>2. p \in Position
            BY <2>1, <3>1, Typed DEF Amend, Position, Steps
        <3> QED BY <3>1, <3>2, Typed DEF Execute, Become, Positions
    <2> QED BY <1>3, <2>2 DEF StoreInv, TypeOK, Execute, Positions, Position
<1>5. /\ collector'[c].stream = collector[c].stream /\ collector'[c].cursor = collector[c].cursor
      /\ collector'[c].step = "finish"
      /\ collector'[c].result = [serial |-> serial + 1, plan |-> collector[c].plan]
    BY DEF StoreInv, TypeOK, Execute, Become, Amend
<1>6. CollectorOK(c)'
    <2>1. collector[c].plan = Row(c).plan /\ row' = row /\ control' = control
        BY <1>1, <1>2 DEF CollectorOK, Execute
    <2>2. collector'[c].result # NoResult /\ collector'[c].result.plan = Row(c).plan
        BY <1>3, <1>5, <2>1 DEF NoResult
    <2>3. /\ collector'[c].stream \in Streams
          /\ collector'[c].cursor \in 1..Len(collector'[c].stream)
          /\ \A k \in 1..(collector'[c].cursor - 1) : Passed(collector[c].stream[k])'
          /\ Row(c)' = Row(c) /\ Row(c)'.input = Request(c)'.input
        BY <1>1, <1>5, <2>1, GoesOn
    <2> QED BY <1>5, <2>2, <2>3 DEF CollectorOK, At
<1> QED BY <1>1, <1>4, <1>6, OnlyMoves DEF Execute

LEMMA PrepareKeeps ==
    ASSUME StoreInv, NEW c \in Collectors, Prepare(c)
    PROVE  StoreInv' /\ Growing
<1>1. /\ ~At(c, "idle") /\ ~At(c, "ingest") /\ At(c, "prepare")
      /\ \A d \in Collectors \ {c} : collector'[d] = collector[d]
    BY DEF Prepare, At, Become, StoreInv, TypeOK
<1>2. Id(c) \in Ids /\ CollectorOK(c)
    BY <1>1, RequestAt DEF StoreInv
<1>3. serial + 1 \in 0..MaxSerial /\ serial + 1 # 0
    BY Constants DEF StoreInv, TypeOK, Prepare
<1>4. PICK draw \in Draws(Id(c)) :
          /\ control' = [control EXCEPT ![Id(c)].draw = IF draw = "none" THEN @ ELSE draw]
          /\ Become(c, [step |-> "freeze", plan |-> [serial |-> serial + 1, draw |-> draw]])
    BY DEF Prepare
<1>5. draw \in Selections /\ control[Id(c)].draw \in Selections
      /\ (control[Id(c)].draw # "none" => draw \in {"none", control[Id(c)].draw})
    BY <1>2 DEF Draws, Selections, StoreInv, TypeOK
<1>6. /\ control' \in [Ids -> [draw : Selections, outcome : Results]]
      /\ \A i \in Ids : /\ control'[i].outcome = control[i].outcome
                        /\ control[i].draw # "none" => control'[i].draw = control[i].draw
    BY <1>2, <1>4, <1>5 DEF StoreInv, TypeOK
<1>7. [serial |-> serial + 1, draw |-> draw] \in Plans /\ [serial |-> serial + 1, draw |-> draw] # None
    BY <1>3, <1>5 DEF Plans, None
<1>8. /\ collector' \in Positions
      /\ collector'[c].stream = collector[c].stream /\ collector'[c].cursor = collector[c].cursor
      /\ collector'[c].step = "freeze" /\ collector'[c].plan # None
    BY <1>4, <1>7, Typed DEF Become, Amend, Position, Positions, Steps
<1>9. TypeOK'
    BY <1>3, <1>6, <1>8 DEF StoreInv, TypeOK, Prepare, Positions, Position
<1>10. Growing
    BY <1>6 DEF Growing, Grows, Prepare
<1>11. \A i \in Ids : RowOK(i)'
    BY <1>6 DEF StoreInv, RowOK, Prepare
<1>12. CollectorOK(c)'
    <2>1. ASSUME NEW k \in 1..(collector[c].cursor - 1)
          PROVE  Passed(collector[c].stream[k])'
        <3>1. collector[c].stream[k].id \in Ids /\ Passed(collector[c].stream[k])
            BY <1>1, <1>2, RequestAt DEF CollectorOK
        <3> QED BY <3>1, <1>6, <1>8 DEF Passed, Labelled, Prepare
    <2>2. row' = row
        BY DEF Prepare
    <2> QED BY <1>1, <1>2, <1>8, <2>1, <2>2 DEF CollectorOK, At, Row, Id, Request
<1> QED BY <1>1, <1>9, <1>10, <1>11, <1>12, OneMoves, CheckpointsStay DEF StoreInv, Prepare

LEMMA IngestKeeps ==
    ASSUME StoreInv, NEW c \in Collectors, Ingest(c)
    PROVE  StoreInv' /\ Growing
<1>1. ~At(c, "idle") /\ At(c, "ingest")
    BY DEF Ingest, At
<1>2. Id(c) \in Ids /\ Request(c).input \in Inputs /\ Request(c).input # "none" /\ CollectorOK(c)
    BY <1>1, RequestAt DEF StoreInv
<1>3. CASE Row(c).input \in {"none", Request(c).input}
    <2>1. /\ Kept(Id(c), [input |-> Request(c).input])
          /\ Become(c, [step |-> "look"])
          /\ UNCHANGED <<checkpoint, control, serial, runs>>
        BY <1>3 DEF Ingest
    <2>2. /\ \A i \in Ids : /\ row'[i].plan = row[i].plan /\ row'[i].result = row[i].result
                            /\ row'[i].phase = row[i].phase
                            /\ row[i].input # "none" => row'[i].input = row[i].input
          /\ row'[Id(c)].input = Request(c).input
        BY <1>2, <1>3, <2>1 DEF StoreInv, TypeOK, Kept, Amend, Row
    <2>3. row' \in [Ids -> Stored]
        BY <1>2, <2>1, Typed DEF Stored, Kept, Amend
    <2>4. /\ \A d \in Collectors \ {c} : collector'[d] = collector[d]
          /\ collector' \in Positions
          /\ collector'[c].stream = collector[c].stream /\ collector'[c].cursor = collector[c].cursor
          /\ collector'[c].step = "look"
        BY <2>1, Typed DEF Become, Amend, Position, Positions, Steps
    <2>5. TypeOK'
        BY <2>1, <2>3, <2>4 DEF StoreInv, TypeOK, Positions, Position, Stored
    <2>6. Growing
        BY <2>1, <2>2 DEF Growing, Grows
    <2>7. \A i \in Ids : RowOK(i)'
        BY <2>1, <2>2 DEF StoreInv, RowOK
    <2>8. CollectorOK(c)'
        <3>1. ASSUME NEW k \in 1..(collector[c].cursor - 1)
              PROVE  Passed(collector[c].stream[k])'
            <4>1. /\ collector[c].stream[k].id \in Ids /\ Passed(collector[c].stream[k])
                  /\ collector[c].stream[k].input # "none"
                BY <1>1, <1>2, RequestAt DEF CollectorOK
            <4> QED BY <4>1, <2>1, <2>2, <2>4 DEF Passed, Labelled
        <3> QED BY <1>1, <1>2, <2>2, <2>4, <3>1 DEF CollectorOK, At, Row, Id, Request
    <2> QED BY <2>1, <2>4, <2>5, <2>6, <2>7, <2>8, OneMoves, CheckpointsStay DEF StoreInv
<1>4. CASE ~(Row(c).input \in {"none", Request(c).input})
    <2>1. Become(c, Resting) /\ UNCHANGED <<row, checkpoint, control, serial, runs>>
        BY <1>4 DEF Ingest, Raise
    <2>2. TypeOK'
        BY <2>1, Rests DEF StoreInv, TypeOK, Positions, Position
    <2> QED BY <2>1, <2>2, Rests, OnlyMoves
<1> QED BY <1>3, <1>4

LEMMA FreezeKeeps ==
    ASSUME StoreInv, NEW c \in Collectors, Freeze(c)
    PROVE  StoreInv' /\ Growing
<1>1. ~At(c, "idle") /\ ~At(c, "ingest") /\ At(c, "freeze")
    BY DEF Freeze, At
<1>2. Id(c) \in Ids /\ CollectorOK(c) /\ collector[c].plan # None
    BY <1>1, RequestAt DEF StoreInv, CollectorOK
<1>3. CASE Row(c).plan = None
    <2>1. /\ Kept(Id(c), [plan |-> collector[c].plan, phase |-> "planned"])
          /\ Become(c, [step |-> "execute"])
          /\ UNCHANGED <<checkpoint, control, serial, runs>>
        BY <1>3 DEF Freeze
    <2>2. /\ \A i \in Ids : /\ row'[i].input = row[i].input /\ row'[i].result = row[i].result
                            /\ row[i].plan # None => row'[i].plan = row[i].plan
                            /\ row'[i].phase = "complete" => row[i].phase = "complete"
          /\ row'[Id(c)].plan = collector[c].plan
        <3>1. /\ row'[Id(c)].input = row[Id(c)].input /\ row'[Id(c)].result = row[Id(c)].result
              /\ row'[Id(c)].plan = collector[c].plan /\ row'[Id(c)].phase = "planned"
            BY <1>2, <2>1, Typed DEF Stored, Kept, Amend
        <3>2. \A i \in Ids \ {Id(c)} : row'[i] = row[i]
            BY <1>2, <2>1, Typed DEF Kept
        <3>3. row[Id(c)].plan = None
            BY <1>3 DEF Row
        <3> QED BY <3>1, <3>2, <3>3
    <2>3. row' \in [Ids -> Stored]
        <3>1. PICK p : p = Amend(row[Id(c)], [plan |-> collector[c].plan, phase |-> "planned"])
            OBVIOUS
        <3>2. row[Id(c)] \in Stored /\ collector[c].plan \in Plans
            BY <1>2, Typed DEF Position
        <3>3. p \in Stored
            BY <3>1, <3>2 DEF Amend, Stored
        <3> QED BY <1>2, <2>1, <3>1, <3>3, Typed DEF Kept
    <2>4. /\ \A d \in Collectors \ {c} : collector'[d] = collector[d]
          /\ collector' \in Positions
          /\ collector'[c].stream = collector[c].stream /\ collector'[c].cursor = collector[c].cursor
          /\ collector'[c].plan = collector[c].plan
          /\ collector'[c].step = "execute"
        BY <2>1, Typed DEF Become, Amend, Position, Positions, Steps
    <2>5. TypeOK'
        BY <2>1, <2>3, <2>4 DEF StoreInv, TypeOK, Positions, Position, Stored
    <2>6. Growing
        BY <2>1, <2>2 DEF Growing, Grows
    <2>7. \A i \in Ids : RowOK(i)'
        BY <2>1, <2>2 DEF StoreInv, RowOK
    <2>8. CollectorOK(c)'
        <3>1. ASSUME NEW k \in 1..(collector[c].cursor - 1)
              PROVE  Passed(collector[c].stream[k])'
            <4>1. /\ collector[c].stream[k].id \in Ids /\ Passed(collector[c].stream[k])
                  /\ collector[c].stream[k].input # "none"
                BY <1>1, <1>2, RequestAt DEF CollectorOK
            <4> QED BY <4>1, <2>1, <2>2, <2>4 DEF Passed, Labelled
        <3> QED BY <1>1, <1>2, <2>2, <2>4, <3>1 DEF CollectorOK, At, Row, Id, Request
    <2> QED BY <2>1, <2>4, <2>5, <2>6, <2>7, <2>8, OneMoves, CheckpointsStay DEF StoreInv
<1>4. CASE Row(c).plan # None
    <2>1. Become(c, Resting) /\ UNCHANGED <<row, checkpoint, control, serial, runs>>
        BY <1>4 DEF Freeze, Raise
    <2>2. TypeOK'
        BY <2>1, Rests DEF StoreInv, TypeOK, Positions, Position
    <2> QED BY <2>1, <2>2, Rests, OnlyMoves
<1> QED BY <1>3, <1>4

LEMMA TraceKeeps ==
    ASSUME StoreInv, NEW c \in Collectors, Trace(c)
    PROVE  StoreInv' /\ Growing
<1>1. ~At(c, "idle") /\ ~At(c, "ingest") /\ At(c, "trace")
    BY DEF Trace, At
<1>2. Id(c) \in Ids /\ CollectorOK(c) /\ Passed(Request(c))
    BY <1>1, RequestAt DEF StoreInv, CollectorOK
<1>3. CASE Row(c).trace = 0
    <2>1. /\ Kept(Id(c), [trace |-> 1]) /\ Advance(c)
          /\ UNCHANGED <<checkpoint, control, serial, runs>>
        BY <1>3 DEF Trace
    <2>2. \A i \in Ids : /\ row'[i].input = row[i].input /\ row'[i].result = row[i].result
                         /\ row'[i].plan = row[i].plan /\ row'[i].phase = row[i].phase
        BY <1>2, <1>3, <2>1, Typed DEF Stored, Kept, Amend, Row
    <2>3. row' \in [Ids -> Stored]
        BY <1>2, <2>1, Typed DEF Stored, Kept, Amend
    <2>6. Growing
        BY <2>1, <2>2 DEF Growing, Grows
    <2>4. /\ \A d \in Collectors \ {c} : collector'[d] = collector[d]
          /\ collector' \in Positions /\ CollectorOK(c)'
        BY <1>1, <1>2, <2>1, <2>2, <2>6, Advances DEF Passed, Labelled, Id
    <2>5. TypeOK'
        BY <2>1, <2>3, <2>4 DEF StoreInv, TypeOK, Positions, Position, Stored
    <2>7. \A i \in Ids : RowOK(i)'
        BY <2>1, <2>2 DEF StoreInv, RowOK
    <2> QED BY <2>1, <2>4, <2>5, <2>6, <2>7, OneMoves, CheckpointsStay DEF StoreInv
<1>4. CASE Row(c).trace # 0
    <2>1. Become(c, Resting) /\ UNCHANGED <<row, checkpoint, control, serial, runs>>
        BY <1>4 DEF Trace, Raise
    <2>2. TypeOK'
        BY <2>1, Rests DEF StoreInv, TypeOK, Positions, Position
    <2> QED BY <2>1, <2>2, Rests, OnlyMoves
<1> QED BY <1>3, <1>4

\* A collector that has audited its request goes on to its trace or leaves it.
LEMMA AfterAuditMoves ==
    ASSUME StoreInv, Growing, NEW c \in Collectors, At(c, "audit"), AfterAudit(c),
           row' = row,
           Selected(row[Request(c).id].result) =>
               control'[Request(c).id].outcome = row[Request(c).id].result
    PROVE  /\ \A d \in Collectors \ {c} : collector'[d] = collector[d]
           /\ collector' \in Positions
           /\ CollectorOK(c)'
<1>1. ~At(c, "idle") /\ ~At(c, "ingest")
    BY DEF At
<1>2. Id(c) \in Ids /\ CollectorOK(c)
    BY <1>1, RequestAt DEF StoreInv
<1>3. /\ row'[Request(c).id].input = Request(c).input
      /\ row'[Request(c).id].result # NoResult
      /\ row'[Request(c).id].result = collector[c].result
    BY <1>1, <1>2 DEF CollectorOK, Row, Id
<1>4. CASE ~collector[c].fresh
    BY <1>3, <1>4, Advances DEF AfterAudit
<1>5. CASE collector[c].fresh
    <2>1. Become(c, [step |-> "trace"])
        BY <1>5 DEF AfterAudit
    <2>2. /\ \A d \in Collectors \ {c} : collector'[d] = collector[d]
          /\ collector' \in Positions
          /\ collector'[c].stream = collector[c].stream /\ collector'[c].cursor = collector[c].cursor
          /\ collector'[c].result = collector[c].result
          /\ collector'[c].step = "trace"
        BY <2>1, Typed DEF Become, Amend, Position, Positions, Steps
    <2>3. ASSUME NEW k \in 1..(collector[c].cursor - 1)
          PROVE  Passed(collector[c].stream[k])'
        <3> DEFINE q == collector[c].stream[k]
        <3>1. q.id \in Ids /\ q.input # "none" /\ RowOK(q.id) /\ Passed(q)
            BY <1>1, <1>2, RequestAt DEF CollectorOK, StoreInv
        <3> HIDE DEF q
        <3>2. /\ row'[q.id].input = q.input /\ row'[q.id].result # NoResult
              /\ Selected(row'[q.id].result) => control'[q.id].outcome = row'[q.id].result
            BY <3>1, PassedStays DEF Passed, Labelled
        <3> QED BY <2>2, <3>2 DEF q, Passed, Labelled
    <2>4. Request(c)' = Request(c) /\ Row(c)' = row[Id(c)] /\ Passed(Request(c))'
        BY <1>3, <2>2 DEF Request, Row, Id, Passed, Labelled
    <2> QED BY <1>1, <1>2, <1>3, <2>2, <2>3, <2>4 DEF CollectorOK, At, Row, Id
<1> QED BY <1>4, <1>5

LEMMA AuditKeeps ==
    ASSUME StoreInv, NEW c \in Collectors, Audit(c)
    PROVE  StoreInv' /\ Growing
<1> DEFINE r == collector[c].result
<1>1. ~At(c, "idle") /\ ~At(c, "ingest") /\ At(c, "audit")
    BY DEF Audit, At
<1>2. /\ Id(c) \in Ids /\ CollectorOK(c) /\ r # NoResult /\ r = Row(c).result
      /\ Request(c).id = Id(c)
    BY <1>1, RequestAt DEF StoreInv, CollectorOK, Id
<1>3. CASE ~Selected(r)
    <2>1. AfterAudit(c) /\ UNCHANGED <<row, control, checkpoint, serial, runs>>
        BY <1>3 DEF Audit
    <2>2. Growing
        BY <2>1 DEF Growing, Grows
    <2>3. /\ \A d \in Collectors \ {c} : collector'[d] = collector[d]
          /\ collector' \in Positions /\ CollectorOK(c)'
        BY <1>1, <1>2, <1>3, <2>1, <2>2, AfterAuditMoves DEF Row
    <2>4. TypeOK'
        BY <2>1, <2>3 DEF StoreInv, TypeOK, Positions, Position
    <2> QED BY <2>1, <2>3, <2>4, OnlyMoves
<1>4. CASE Selected(r) /\ control[Id(c)].outcome \in {NoResult, r}
    <2>1. /\ AfterAudit(c) /\ UNCHANGED <<row, checkpoint, serial, runs>>
          /\ control' = [control EXCEPT ![Id(c)].outcome = r]
        BY <1>4 DEF Audit
    <2>2. /\ control' \in [Ids -> [draw : Selections, outcome : Results]]
          /\ control'[Id(c)].outcome = r
          /\ \A i \in Ids : /\ control'[i].draw = control[i].draw
                            /\ control'[i].outcome \in {control[i].outcome, row[i].result}
                            /\ control[i].outcome # NoResult =>
                                   control'[i].outcome = control[i].outcome
        BY <1>2, <1>4, <2>1, Typed DEF Position, StoreInv, TypeOK, Row
    <2>3. Growing
        BY <2>1, <2>2 DEF Growing, Grows
    <2>4. /\ \A d \in Collectors \ {c} : collector'[d] = collector[d]
          /\ collector' \in Positions /\ CollectorOK(c)'
        BY <1>1, <1>2, <2>1, <2>2, <2>3, AfterAuditMoves DEF Row
    <2>5. TypeOK'
        BY <2>1, <2>2, <2>4 DEF StoreInv, TypeOK, Positions, Position
    <2>6. \A i \in Ids : RowOK(i)'
        BY <2>1, <2>2 DEF StoreInv, RowOK
    <2> QED BY <2>1, <2>3, <2>4, <2>5, <2>6, OneMoves, CheckpointsStay DEF StoreInv
<1>5. CASE Selected(r) /\ ~(control[Id(c)].outcome \in {NoResult, r})
    <2>1. Become(c, Resting) /\ UNCHANGED <<row, checkpoint, control, serial, runs>>
        BY <1>5 DEF Audit, Raise
    <2>2. TypeOK'
        BY <2>1, Rests DEF StoreInv, TypeOK, Positions, Position
    <2> QED BY <2>1, <2>2, Rests, OnlyMoves
<1> QED BY <1>3, <1>4, <1>5

LEMMA FinishKeeps ==
    ASSUME StoreInv, NEW c \in Collectors, Finish(c)
    PROVE  StoreInv' /\ Growing
<1> DEFINE r == collector[c].result
           s == collector[c].stream
           n == collector[c].cursor
<1>1. ~At(c, "idle") /\ ~At(c, "ingest") /\ (At(c, "resume") \/ At(c, "finish"))
    BY DEF Finish, At
<1>2. /\ Id(c) \in Ids /\ CollectorOK(c) /\ r # NoResult /\ r.plan \in {None, Row(c).plan}
      /\ Row(c).input = Request(c).input
      /\ s \in Streams /\ n \in 1..Len(s) /\ Len(s) \in Nat /\ s[n] = Request(c)
      /\ Request(c).id = Id(c)
    BY <1>1, RequestAt DEF StoreInv, CollectorOK, Id, Request
<1>3. CASE Row(c).result \in {NoResult, r}
    <2>1. /\ IF Row(c).result = NoResult
             THEN Kept(Id(c), [result |-> r, phase |-> "complete"])
             ELSE UNCHANGED row
          /\ Checkpoint(c) /\ Become(c, [step |-> "audit"])
          /\ UNCHANGED <<control, serial, runs>>
        BY <1>3 DEF Finish
    <2>2. /\ \A i \in Ids : /\ row'[i].input = row[i].input /\ row'[i].plan = row[i].plan
                            /\ row[i].result # NoResult => row'[i].result = row[i].result
                            /\ i # Id(c) => row'[i] = row[i]
                            /\ row'[i].phase = "complete" =>
                                   row[i].phase = "complete" \/ row'[i].result # NoResult
          /\ row'[Id(c)].result = r
        <3>1. CASE Row(c).result = NoResult
            <4>1. row' = [row EXCEPT ![Id(c)] = Amend(@, [result |-> r, phase |-> "complete"])]
                BY <2>1, <3>1 DEF Kept
            <4>2. /\ row'[Id(c)].result = r /\ row'[Id(c)].input = row[Id(c)].input
                  /\ row'[Id(c)].plan = row[Id(c)].plan
                  /\ \A i \in Ids : i # Id(c) => row'[i] = row[i]
                BY <1>2, <4>1, Typed DEF Stored, Amend
            <4> QED BY <1>2, <3>1, <4>2 DEF Row
        <3>2. CASE Row(c).result # NoResult
            BY <1>2, <1>3, <2>1, <3>2 DEF Row
        <3> QED BY <3>1, <3>2
    <2>3. row' \in [Ids -> Stored]
        <3>1. r \in Results
            BY Typed DEF Position
        <3>2. Amend(row[Id(c)], [result |-> r, phase |-> "complete"]) \in Stored
            BY <1>2, <3>1, Typed DEF Stored, Amend
        <3> QED BY <2>1, <3>2, Typed DEF Kept
    <2>4. /\ \A d \in Collectors \ {c} : collector'[d] = collector[d]
          /\ collector' \in Positions
          /\ collector'[c].stream = s /\ collector'[c].cursor = n
          /\ collector'[c].result = r
          /\ collector'[c].step = "audit"
        BY <2>1, Typed DEF Become, Amend, Position, Positions, Steps
    <2>5. Growing
        BY <2>1, <2>2 DEF Growing, Grows
    <2>6. \A i \in Ids : RowOK(i)'
        BY <1>2, <2>1, <2>2 DEF StoreInv, RowOK, Row
    <2>7. \A k \in 1..(n - 1) : Passed(s[k])'
        <3> TAKE k \in 1..(n - 1)
        <3> DEFINE q == s[k]
        <3>1. q.id \in Ids /\ q.input # "none" /\ RowOK(q.id) /\ Passed(q)
            BY <1>1, <1>2, RequestAt DEF CollectorOK, StoreInv
        <3> HIDE DEF q
        <3>2. /\ row'[q.id].input = q.input /\ row'[q.id].result # NoResult
              /\ Selected(row'[q.id].result) => control'[q.id].outcome = row'[q.id].result
            BY <2>5, <3>1, PassedStays DEF Passed, Labelled
        <3> QED BY <2>4, <3>2 DEF q, Passed, Labelled
    <2>8. CollectorOK(c)'
        <3>1. /\ Request(c)' = Request(c) /\ Row(c)' = row'[Id(c)]
              /\ row'[Id(c)].input = Request(c).input
            BY <1>2, <2>2, <2>4 DEF Request, Row, Id
        <3> QED BY <1>1, <1>2, <2>2, <2>4, <2>7, <3>1 DEF CollectorOK, At
    <2>9. CheckpointOK'
        <3>1. /\ checkpoint \in [Streams -> Nat]
              /\ checkpoint' = [checkpoint EXCEPT ![s] = Larger(@, n)]
            BY <2>1 DEF Checkpoint, StoreInv, CheckpointOK
        <3>2. /\ checkpoint' \in [Streams -> Nat] /\ checkpoint'[s] \in {checkpoint[s], n}
              /\ \A t \in Streams \ {s} : checkpoint'[t] = checkpoint[t]
            BY <1>2, <3>1 DEF Larger
        <3>3. ASSUME NEW t \in Streams, NEW k \in 1..checkpoint[t]
              PROVE  Labelled(t[k])'
            <4> DEFINE q == t[k]
            <4>1. k \in 1..Len(t) /\ Labelled(q)
                BY StreamRequests DEF StoreInv, CheckpointOK
            <4>2. q.id \in Ids /\ q.input # "none" /\ RowOK(q.id)
                BY <4>1, StreamRequests DEF StoreInv
            <4> HIDE DEF q
            <4>3. row'[q.id].input = q.input /\ row'[q.id].result # NoResult
                BY <2>5, <4>1, <4>2, PassedStays DEF Labelled
            <4> QED BY <4>3 DEF q, Labelled
        <3>4. ASSUME NEW k \in 1..n
              PROVE  row'[s[k].id].input = s[k].input /\ row'[s[k].id].result # NoResult
            <4>1. CASE k = n
                BY <1>2, <2>2, <4>1 DEF Row
            <4>2. CASE k # n
                <5>1. k \in 1..(n - 1)
                    BY <1>2, <4>2
                <5> QED BY <2>4, <2>7, <5>1 DEF Passed, Labelled
            <4> QED BY <4>1, <4>2
        <3>5. ASSUME NEW t \in Streams
              PROVE  /\ checkpoint'[t] <= Len(t)
                     /\ \A k \in 1..checkpoint'[t] : Labelled(t[k])'
            <4>1. CASE checkpoint'[t] = checkpoint[t]
                BY <3>3, <4>1 DEF StoreInv, CheckpointOK
            <4>2. CASE t = s /\ checkpoint'[t] = n
                BY <1>2, <3>4, <4>2 DEF Labelled
            <4> QED BY <3>2, <4>1, <4>2
        <3> QED BY <3>2, <3>5 DEF CheckpointOK
    <2>10. TypeOK'
        <3>1. \A t \in Streams : checkpoint'[t] \in 0..Len(t)
            BY <2>9, StreamRequests DEF CheckpointOK
        <3> QED BY <2>1, <2>3, <2>4, <3>1 DEF StoreInv, TypeOK, Positions, Position, Stored
    <2> QED BY <2>4, <2>5, <2>6, <2>8, <2>9, <2>10, OneMoves DEF StoreInv
<1>4. CASE ~(Row(c).result \in {NoResult, r})
    <2>1. Become(c, Resting) /\ UNCHANGED <<row, checkpoint, control, serial, runs>>
        BY <1>4 DEF Finish, Raise
    <2>2. TypeOK'
        BY <2>1, Rests DEF StoreInv, TypeOK, Positions, Position
    <2> QED BY <2>1, <2>2, Rests, OnlyMoves
<1> QED BY <1>3, <1>4

-----------------------------------------------------------------------------
(* The invariant of the collectors.                                        *)

LEMMA StoreInvStarts == Init => StoreInv
<1> SUFFICES ASSUME Init PROVE StoreInv
    OBVIOUS
<1>1. collector \in Positions /\ row \in [Ids -> Stored]
    BY Constants DEF Init, Positions, Stored, Empty
<1>2. \A s \in Streams : 0 \in 0..Len(s)
    BY StreamRequests
<1>3. control \in [Ids -> [draw : Selections, outcome : Results]]
    BY Constants DEF Init, Selections
<1>4. TypeOK
    BY <1>1, <1>2, <1>3, Constants DEF Init, TypeOK, Positions, Position, Stored
<1>5. \A i \in Ids : RowOK(i)
    BY DEF Init, RowOK, Empty, NoResult
<1>6. \A c \in Collectors : CollectorOK(c)
    BY DEF Init, CollectorOK, At, Resting
<1>7. CheckpointOK
    BY <1>2, StreamRequests DEF Init, CheckpointOK
<1> QED BY <1>4, <1>5, <1>6, <1>7 DEF StoreInv

LEMMA StoreInvStays == StoreInv /\ [Next]_vars => StoreInv' /\ Growing
<1> SUFFICES ASSUME StoreInv, [Next]_vars PROVE StoreInv' /\ Growing
    OBVIOUS
<1>1. CASE UNCHANGED vars
    <2>1. Growing
        BY <1>1 DEF vars, Growing, Grows
    <2>2. \A c \in Collectors : CollectorOK(c)'
        BY <1>1, <2>1, StandsStill DEF vars
    <2> QED BY <1>1, <2>1, <2>2, CheckpointsStay DEF vars, StoreInv, TypeOK, RowOK
<1>2. ASSUME NEW c \in Collectors, Step(c)
      PROVE  StoreInv' /\ Growing
    BY <1>2, IngestKeeps, LookKeeps, PrepareKeeps, FallBackKeeps, FreezeKeeps, ExecuteKeeps,
       FinishKeeps, AuditKeeps, TraceKeeps DEF Step
<1> QED BY <1>1, <1>2, CrashKeeps, RunKeeps DEF Next

\* Whatever the collectors do, the registry is told only what the store holds,
\* a label is of the plan frozen for its id, and a checkpoint is passed only
\* by requests whose own input has a label.
THEOREM StoreIsAheadCorrect == Spec => []StoreIsAhead
<1>1. StoreInv => StoreIsAhead
    BY StreamRequests DEF StoreInv, StoreIsAhead, RowOK, CheckpointOK, Labelled
<1> QED BY <1>1, StoreInvStarts, StoreInvStays, PTL DEF Spec

\* No collector leaves a request behind whose control was drawn and simulated
\* but not counted by the registry.
THEOREM PassedIsAuditedCorrect == Spec => []PassedIsAudited
<1>1. StoreInv => PassedIsAudited
    <2> SUFFICES ASSUME StoreInv, NEW c \in Collectors, NEW k \in 1..(collector[c].cursor - 1)
                 PROVE  Passed(collector[c].stream[k])
        BY DEF PassedIsAudited, Passed
    <2>1. CollectorOK(c)
        BY DEF StoreInv
    <2>2. ~At(c, "idle")
        <3>1. At(c, "idle") => collector[c].cursor = 0
            BY <2>1 DEF CollectorOK
        <3> QED BY <3>1
    <2> QED BY <2>1, <2>2 DEF CollectorOK
<1> QED BY <1>1, StoreInvStarts, StoreInvStays, PTL DEF Spec

\* What is stored of an observation, its draw and its audited outcome never
\* change, in spite of crashes, restarts and other collectors.
THEOREM EvidenceIsFinalCorrect == Spec => EvidenceIsFinal
<1>1. Growing => \A i \in Ids :
          /\ row[i].input # "none" => row'[i].input = row[i].input
          /\ row[i].plan # None => row'[i].plan = row[i].plan
          /\ row[i].result # NoResult => row'[i].result = row[i].result
          /\ control[i].draw # "none" => control'[i].draw = control[i].draw
          /\ control[i].outcome # NoResult => control'[i].outcome = control[i].outcome
    BY DEF Growing, Grows
<1> QED BY <1>1, StoreInvStarts, StoreInvStays, PTL DEF Spec, EvidenceIsFinal

-----------------------------------------------------------------------------
(* Reconcilers, over the same store.  A signature is attached only to an   *)
(* observation with a frozen plan, and a frozen plan stays, so what was    *)
(* reported for a signature is what its plan says for ever.                *)

Calls == [step : {"idle", "report", "store"}, signature : Signatures \cup {"none"},
          body : Bodies \cup {NoBody}, seen : Bodies \cup {NoBody}]
RTypeOK ==
    /\ signatures \in [Signatures -> {NoSignature} \cup [id : Ids, commitment : Commitments]]
    /\ outcomes \in [Signatures -> Seq(Bodies)]
    /\ reconciler \in [Reconcilers -> Calls]

\* The registry knows of this outcome of this signature.
Reported(s, body) ==
    body.status # "unavailable" /\ PlanOf(s).draw # "none" =>
        /\ [plan |-> PlanOf(s), body |-> body] \in executions
        /\ body.excess => PlanOf(s) \in convicted

SignatureOK(s) ==
    /\ Attached(s) => PlanOf(s) # None
    /\ ~Attached(s) => outcomes[s] = <<>>
    /\ \A n \in DOMAIN outcomes[s] : Reported(s, outcomes[s][n])

ReconcilerOK(k) ==
    Doing(k, "report") \/ Doing(k, "store") =>
        /\ reconciler[k].signature \in Signatures /\ Attached(reconciler[k].signature)
        /\ reconciler[k].body \in Bodies
        /\ reconciler[k].seen.status = "finalized" => reconciler[k].seen = reconciler[k].body
        /\ Doing(k, "store") => Reported(reconciler[k].signature, reconciler[k].body)

ReconcileInv ==
    /\ RTypeOK
    /\ \A s \in Signatures : SignatureOK(s)
    /\ \A k \in Reconcilers : ReconcilerOK(k)

\* What is known of a signature stays known: its plan, and that an outcome of
\* it was reported.
Remembers(s) ==
    /\ PlanOf(s)' = PlanOf(s)
    /\ Attached(s)'
    /\ executions \subseteq executions' /\ convicted \subseteq convicted'

LEMMA BodyTypes ==
    /\ \A b \in Bodies : b.status \in {"unavailable", "confirmed", "finalized"} /\ b # NoBody
    /\ \A s \in Signatures : RTypeOK =>
          /\ Attached(s) => signatures[s].id \in Ids
          /\ outcomes[s] = <<>> => Latest(s) = NoBody
          /\ outcomes[s] # <<>> => Latest(s) \in Bodies
<1>1. \A b \in Bodies : b.status \in {"unavailable", "confirmed", "finalized"} /\ b # NoBody
    BY ReconciliationAssumption DEF NoBody
<1>2. ASSUME NEW s \in Signatures, RTypeOK
      PROVE  /\ Attached(s) => signatures[s].id \in Ids
             /\ outcomes[s] = <<>> => Latest(s) = NoBody
             /\ outcomes[s] # <<>> => Latest(s) \in Bodies
    <2>1. outcomes[s] \in Seq(Bodies)
        BY <1>2 DEF RTypeOK
    <2>2. outcomes[s] # <<>> => Latest(s) \in Bodies
        BY <2>1 DEF Latest
    <2> QED BY <1>2, <2>2 DEF RTypeOK, Attached, Latest
<1> QED BY <1>1, <1>2

\* A step of a collector, and one of a reconciler that attaches nothing.
LEMMA PlansRemain ==
    ASSUME StoreInv, Growing, ReconcileInv, signatures' = signatures,
           executions \subseteq executions', convicted \subseteq convicted'
    PROVE  \A s \in Signatures : Attached(s) => Remembers(s)
<1> SUFFICES ASSUME NEW s \in Signatures, Attached(s) PROVE Remembers(s)
    OBVIOUS
<1>1. signatures[s].id \in Ids /\ PlanOf(s) # None
    BY BodyTypes DEF ReconcileInv, SignatureOK
<1>2. Grows(signatures[s].id)
    BY <1>1 DEF Growing
<1> QED BY <1>1, <1>2 DEF Remembers, PlanOf, Attached, Grows

\* What was reported stays reported.
LEMMA StaysReported ==
    ASSUME NEW s, Remembers(s), NEW body, Reported(s, body)
    PROVE  Reported(s, body)'
BY DEF Remembers, Reported

\* A signature whose outcomes did not change.
LEMMA SignatureStays ==
    ASSUME ReconcileInv, NEW s \in Signatures, outcomes'[s] = outcomes[s],
           Attached(s) => Remembers(s), signatures'[s] = signatures[s]
    PROVE  SignatureOK(s)'
<1>1. CASE ~Attached(s)
    BY <1>1 DEF ReconcileInv, SignatureOK, Attached
<1>2. CASE Attached(s)
    <2>1. Remembers(s) /\ SignatureOK(s)
        BY <1>2 DEF ReconcileInv
    <2>2. \A n \in DOMAIN outcomes[s] : Reported(s, outcomes[s][n])'
        <3> TAKE n \in DOMAIN outcomes[s]
        <3>1. PICK b : b = outcomes[s][n] /\ b = outcomes'[s][n]
            OBVIOUS
        <3>2. Reported(s, b)
            BY <2>1, <3>1 DEF SignatureOK
        <3>3. Reported(s, b)'
            BY <2>1, <3>2, StaysReported
        <3> QED BY <3>1, <3>3
    <2> QED BY <1>2, <2>1, <2>2 DEF SignatureOK, Remembers
<1> QED BY <1>1, <1>2

\* A reconciler that does not move.
LEMMA ReconcilerStays ==
    ASSUME ReconcileInv, NEW k \in Reconcilers, reconciler'[k] = reconciler[k],
           \A s \in Signatures : Attached(s) => Remembers(s)
    PROVE  ReconcilerOK(k)'
<1>1. CASE ~(Doing(k, "report") \/ Doing(k, "store"))
    BY <1>1 DEF ReconcilerOK, Doing
<1>2. CASE Doing(k, "report") \/ Doing(k, "store")
    <2>1. PICK s, b : s = reconciler[k].signature /\ b = reconciler[k].body
        OBVIOUS
    <2>2. /\ s \in Signatures /\ Attached(s) /\ b \in Bodies /\ ReconcilerOK(k)
          /\ Doing(k, "store") => Reported(s, b)
        BY <1>2, <2>1 DEF ReconcileInv, ReconcilerOK
    <2>3. Attached(s)' /\ (Doing(k, "store") => Reported(s, b)')
        BY <2>2, StaysReported DEF Remembers
    <2>4. s = reconciler'[k].signature /\ b = reconciler'[k].body
        BY <2>1
    <2> QED BY <1>2, <2>1, <2>2, <2>3, <2>4 DEF ReconcilerOK, Doing
<1> QED BY <1>1, <1>2

\* A step of a collector.
LEMMA CollectingKeeps ==
    ASSUME StoreInv, Growing, ReconcileInv, UNCHANGED rvars
    PROVE  ReconcileInv'
<1>1. \A s \in Signatures : Attached(s) => Remembers(s)
    BY PlansRemain DEF rvars
<1>2. RTypeOK'
    BY DEF ReconcileInv, RTypeOK, rvars
<1> QED BY <1>1, <1>2, SignatureStays, ReconcilerStays DEF ReconcileInv, rvars

LEMMA AttachKeeps ==
    ASSUME StoreInv, ReconcileInv, NEW i \in Ids, NEW s \in Signatures,
           NEW commitment \in Commitments, Attach(i, s, commitment)
    PROVE  ReconcileInv'
<1> DEFINE new == [id |-> i, commitment |-> commitment]
<1>1. /\ signatures' = [signatures EXCEPT ![s] = new]
      /\ UNCHANGED <<vars, outcomes, executions, convicted, reconciler>>
      /\ ~Attached(s) /\ row[i].result.plan # None
    BY DEF Attach
<1>2. new \in [id : Ids, commitment : Commitments] /\ new # NoSignature
    BY DEF Commitments, NoSignature
<1>3. RTypeOK'
    BY <1>1, <1>2 DEF ReconcileInv, RTypeOK
<1>4. row[i].plan # None
    <2>1. RowOK(i)
        BY DEF StoreInv
    <2> QED BY <1>1, <2>1 DEF RowOK, NoResult
<1>5. /\ signatures'[s] = new
      /\ \A t \in Signatures \ {s} : signatures'[t] = signatures[t]
    BY <1>1 DEF ReconcileInv, RTypeOK
<1>6. \A t \in Signatures : Attached(t) => Remembers(t)
    BY <1>1, <1>5 DEF Attached, Remembers, PlanOf, vars
<1>7. SignatureOK(s)'
    <2>1. outcomes'[s] = <<>>
        BY <1>1 DEF ReconcileInv, SignatureOK
    <2>2. Attached(s)' /\ PlanOf(s)' # None
        BY <1>1, <1>2, <1>4, <1>5 DEF Attached, PlanOf, vars
    <2> QED BY <2>1, <2>2 DEF SignatureOK
<1>8. \A t \in Signatures : SignatureOK(t)'
    BY <1>1, <1>5, <1>6, <1>7, SignatureStays
<1>9. \A k \in Reconcilers : ReconcilerOK(k)'
    BY <1>1, <1>6, ReconcilerStays
<1> QED BY <1>3, <1>8, <1>9 DEF ReconcileInv

LEMMA ReadKeeps ==
    ASSUME StoreInv, ReconcileInv, NEW k \in Reconcilers, NEW s \in Signatures,
           NEW b \in Bodies, Read(k, s, b)
    PROVE  ReconcileInv'
<1>1. /\ UNCHANGED <<vars, signatures, outcomes, executions, convicted>>
      /\ Attached(s) /\ ~(Latest(s).status = "finalized" /\ Latest(s) # b)
      /\ Turn(k, [step |-> "report", signature |-> s, body |-> b, seen |-> Latest(s)])
    BY DEF Read
<1>2. Latest(s) \in Bodies \cup {NoBody}
    BY BodyTypes DEF ReconcileInv
<1>3. /\ reconciler' \in [Reconcilers -> Calls]
      /\ \A l \in Reconcilers \ {k} : reconciler'[l] = reconciler[l]
      /\ reconciler'[k].step = "report" /\ reconciler'[k].signature = s
      /\ reconciler'[k].body = b /\ reconciler'[k].seen = Latest(s)
    BY <1>1, <1>2 DEF ReconcileInv, RTypeOK, Turn, Amend, Calls
<1>4. RTypeOK'
    BY <1>1, <1>3 DEF ReconcileInv, RTypeOK
<1>5. \A t \in Signatures : Attached(t) => Remembers(t)
    BY <1>1 DEF Attached, Remembers, PlanOf, vars
<1>6. \A t \in Signatures : SignatureOK(t)'
    BY <1>1, <1>5, SignatureStays
<1>7. ReconcilerOK(k)'
    BY <1>1, <1>3 DEF ReconcilerOK, Doing, Attached
<1> QED BY <1>3, <1>4, <1>5, <1>6, <1>7, ReconcilerStays DEF ReconcileInv

LEMMA ReportKeeps ==
    ASSUME StoreInv, ReconcileInv, NEW k \in Reconcilers, Report(k)
    PROVE  ReconcileInv'
<1>1. PICK s, b : s = reconciler[k].signature /\ b = reconciler[k].body
    OBVIOUS
<1>2. /\ UNCHANGED <<vars, signatures, outcomes>> /\ Turn(k, [step |-> "store"])
      /\ IF b.status # "unavailable" /\ PlanOf(s).draw # "none"
         THEN /\ executions' = executions \cup {[plan |-> PlanOf(s), body |-> b]}
              /\ convicted' = IF b.excess THEN convicted \cup {PlanOf(s)} ELSE convicted
         ELSE UNCHANGED <<executions, convicted>>
    BY <1>1 DEF Report
<1>3. /\ reconciler' \in [Reconcilers -> Calls]
      /\ \A l \in Reconcilers \ {k} : reconciler'[l] = reconciler[l]
      /\ reconciler'[k].step = "store" /\ reconciler'[k].signature = s
      /\ reconciler'[k].body = b /\ reconciler'[k].seen = reconciler[k].seen
    BY <1>1, <1>2 DEF ReconcileInv, RTypeOK, Turn, Amend, Calls
<1>4. RTypeOK'
    BY <1>2, <1>3 DEF ReconcileInv, RTypeOK
<1>5. executions \subseteq executions' /\ convicted \subseteq convicted'
    BY <1>2
<1>6. \A t \in Signatures : Attached(t) => Remembers(t)
    BY <1>2, <1>5 DEF Attached, Remembers, PlanOf, vars
<1>7. \A t \in Signatures : SignatureOK(t)'
    BY <1>2, <1>6, SignatureStays
<1>8. PlanOf(s)' = PlanOf(s)
    BY <1>2 DEF PlanOf, vars
<1>9. Reported(s, b)'
    BY <1>2, <1>8 DEF Reported
<1>10. /\ s \in Signatures /\ Attached(s) /\ b \in Bodies
       /\ reconciler[k].seen.status = "finalized" => reconciler[k].seen = b
    BY <1>1 DEF ReconcileInv, ReconcilerOK, Report
<1>11. Attached(s)'
    BY <1>2, <1>10 DEF Attached
<1>12. ReconcilerOK(k)'
    BY <1>3, <1>9, <1>10, <1>11 DEF ReconcilerOK, Doing
<1> QED BY <1>3, <1>4, <1>6, <1>7, <1>12, ReconcilerStays DEF ReconcileInv

\* A reconciler that is done, or gives up.
LEMMA GoesAway ==
    ASSUME ReconcileInv, NEW k \in Reconcilers, Turn(k, Away)
    PROVE  /\ reconciler' \in [Reconcilers -> Calls]
           /\ \A l \in Reconcilers \ {k} : reconciler'[l] = reconciler[l]
           /\ ReconcilerOK(k)'
<1>1. Amend(reconciler[k], Away) = Away /\ Away \in Calls
    BY DEF ReconcileInv, RTypeOK, Amend, Away, Calls
<1>2. /\ reconciler' \in [Reconcilers -> Calls]
      /\ \A l \in Reconcilers \ {k} : reconciler'[l] = reconciler[l]
      /\ reconciler'[k] = Away
    BY <1>1 DEF ReconcileInv, RTypeOK, Turn
<1> QED BY <1>2 DEF ReconcilerOK, Doing, Away

LEMMA StoreOutcomeKeeps ==
    ASSUME StoreInv, ReconcileInv, NEW k \in Reconcilers, StoreOutcome(k)
    PROVE  ReconcileInv'
<1>1. PICK s, b : s = reconciler[k].signature /\ b = reconciler[k].body
    OBVIOUS
<1>2. /\ s \in Signatures /\ Attached(s) /\ b \in Bodies /\ Reported(s, b)
    BY <1>1 DEF ReconcileInv, ReconcilerOK, StoreOutcome
<1>3. /\ UNCHANGED <<vars, signatures, executions, convicted>> /\ Turn(k, Away)
      /\ outcomes' = [outcomes EXCEPT ![s] = IF Has(s, b) THEN @ ELSE Append(@, b)]
    BY <1>1 DEF StoreOutcome
<1>4. outcomes[s] \in Seq(Bodies) /\ outcomes \in [Signatures -> Seq(Bodies)]
    BY <1>2 DEF ReconcileInv, RTypeOK
<1>5. /\ outcomes' \in [Signatures -> Seq(Bodies)]
      /\ outcomes'[s] \in {outcomes[s], Append(outcomes[s], b)}
      /\ \A t \in Signatures \ {s} : outcomes'[t] = outcomes[t]
    BY <1>2, <1>3, <1>4
<1>6. RTypeOK'
    BY <1>3, <1>5, GoesAway DEF ReconcileInv, RTypeOK
<1>7. \A t \in Signatures : Attached(t) => Remembers(t)
    BY <1>3 DEF Attached, Remembers, PlanOf, vars
<1>8. SignatureOK(s)'
    <2>1. CASE outcomes'[s] = outcomes[s]
        BY <1>2, <1>3, <1>7, <2>1, SignatureStays
    <2>2. CASE outcomes'[s] = Append(outcomes[s], b)
        <3>1. Attached(s)' /\ PlanOf(s)' = PlanOf(s) /\ PlanOf(s) # None
            BY <1>2, <1>7 DEF Remembers, ReconcileInv, SignatureOK
        <3>2. ASSUME NEW n \in DOMAIN outcomes'[s]
              PROVE  Reported(s, outcomes[s][n])'
            <4>1. PICK c : c = outcomes'[s][n]
                OBVIOUS
            <4>2. c = b \/ (n \in DOMAIN outcomes[s] /\ c = outcomes[s][n])
                BY <1>2, <1>4, <2>2, <4>1
            <4>3. Reported(s, c)
                BY <1>2, <4>2 DEF ReconcileInv, SignatureOK
            <4>4. Reported(s, c)'
                BY <1>2, <1>7, <4>3, StaysReported
            <4> QED BY <4>1, <4>4
        <3> QED BY <3>1, <3>2 DEF SignatureOK
    <2> QED BY <1>5, <2>1, <2>2
<1>9. \A t \in Signatures : SignatureOK(t)'
    BY <1>3, <1>5, <1>7, <1>8, SignatureStays
<1> QED BY <1>3, <1>6, <1>7, <1>9, GoesAway, ReconcilerStays DEF ReconcileInv

LEMMA AbandonKeeps ==
    ASSUME StoreInv, ReconcileInv, NEW k \in Reconcilers, Abandon(k)
    PROVE  ReconcileInv'
<1>1. UNCHANGED <<vars, signatures, outcomes, executions, convicted>> /\ Turn(k, Away)
    BY DEF Abandon
<1>2. RTypeOK'
    BY <1>1, GoesAway DEF ReconcileInv, RTypeOK
<1>3. \A t \in Signatures : Attached(t) => Remembers(t)
    BY <1>1 DEF Attached, Remembers, PlanOf, vars
<1> QED BY <1>1, <1>2, <1>3, GoesAway, ReconcilerStays, SignatureStays DEF ReconcileInv

LEMMA ReconcileInvStarts == RInit => StoreInv /\ ReconcileInv
<1> SUFFICES ASSUME RInit PROVE ReconcileInv
    BY StoreInvStarts DEF RInit
<1>1. RTypeOK
    BY DEF RInit, NothingSent, RTypeOK, Calls, Away
<1>2. \A s \in Signatures : SignatureOK(s)
    BY DEF RInit, NothingSent, SignatureOK, Attached
<1>3. \A k \in Reconcilers : ReconcilerOK(k)
    BY DEF RInit, NothingSent, ReconcilerOK, Doing, Away
<1> QED BY <1>1, <1>2, <1>3 DEF ReconcileInv

\* A step of the whole is one of a reconciler, over a store that stays as it
\* is, or one the collectors can take alone.
LEMMA ReconcileSteps ==
    ASSUME [RNext]_<<vars, rvars>>
    PROVE  /\ [Next]_vars
           /\ Reconcile \/ UNCHANGED rvars
<1>1. ASSUME Reconcile PROVE UNCHANGED vars
    <2>1. CASE \E k \in Reconcilers : \/ \E s \in Signatures, b \in Bodies : Read(k, s, b)
                                      \/ Report(k) \/ StoreOutcome(k) \/ Abandon(k)
        BY <2>1 DEF Read, Report, StoreOutcome, Abandon
    <2>2. CASE \E i \in Ids, s \in Signatures, c \in Commitments : Attach(i, s, c)
        BY <2>2 DEF Attach
    <2> QED BY <1>1, <2>1, <2>2 DEF Reconcile
<1>2. CASE Reconcile
    BY <1>1, <1>2
<1>3. CASE Next /\ UNCHANGED rvars
    BY <1>3
<1>4. CASE UNCHANGED <<vars, rvars>>
    BY <1>4
<1> QED BY <1>2, <1>3, <1>4 DEF RNext

LEMMA ReconcileInvStays ==
    StoreInv /\ ReconcileInv /\ [RNext]_<<vars, rvars>> => StoreInv' /\ ReconcileInv'
<1> SUFFICES ASSUME StoreInv, ReconcileInv, [RNext]_<<vars, rvars>>
             PROVE  StoreInv' /\ ReconcileInv'
    OBVIOUS
<1>2. [Next]_vars /\ (Reconcile \/ UNCHANGED rvars)
    BY ReconcileSteps
<1>3. StoreInv' /\ Growing
    BY <1>2, StoreInvStays
<1>4. CASE Reconcile
    <2>1. ASSUME NEW k \in Reconcilers, \/ \E s \in Signatures, b \in Bodies : Read(k, s, b)
                                        \/ Report(k) \/ StoreOutcome(k) \/ Abandon(k)
          PROVE  ReconcileInv'
        BY <2>1, ReadKeeps, ReportKeeps, StoreOutcomeKeeps, AbandonKeeps
    <2>2. ASSUME NEW i \in Ids, NEW s \in Signatures, NEW c \in Commitments, Attach(i, s, c)
          PROVE  ReconcileInv'
        BY <2>2, AttachKeeps
    <2> QED BY <1>3, <1>4, <2>1, <2>2 DEF Reconcile
<1>5. CASE UNCHANGED rvars
    BY <1>3, <1>5, CollectingKeeps
<1> QED BY <1>2, <1>3, <1>4, <1>5

\* The collectors under reconcilers are the collectors alone, so what was
\* proved of them holds of the whole store.
THEOREM ReconcilingCollects == RSpec => Spec
<1>1. RInit => Init
    BY DEF RInit
<1>2. [RNext]_<<vars, rvars>> => [Next]_vars
    BY ReconcileSteps
<1> QED BY <1>1, <1>2, PTL DEF RSpec, Spec

\* Every outcome the store has of a transaction that relied on a prediction
\* was reported to the registry before it was stored, and an excess among them
\* keeps the artifact quarantined.
THEOREM OutcomesAreReportedCorrect == RSpec => []OutcomesAreReported
<1>1. ReconcileInv => OutcomesAreReported
    BY DEF ReconcileInv, SignatureOK, Reported, OutcomesAreReported
<1> QED BY <1>1, ReconcileInvStarts, ReconcileInvStays, PTL DEF RSpec

-----------------------------------------------------------------------------
(* The standing of an observation.                                         *)

\* The finalized standing is the last of the ranked ones.
LEMMA RankFinalized ==
    ASSUME NEW status \in {"missing", "unavailable", "pending", "pending_finality", "confirmed",
                           "finalized"}
    PROVE  Rank(status) \in 1..6 /\ (Rank(status) = 6 <=> status = "finalized")
<1>1. \E n \in DOMAIN Ranked : Ranked[n] = status
    BY DEF Ranked
<1>2. Rank(status) \in DOMAIN Ranked /\ Ranked[Rank(status)] = status
    BY <1>1 DEF Rank
<1> QED BY <1>2 DEF Ranked

LEMMA StandingFinalized ==
    ASSUME RTypeOK, NEW s \in Signatures
    PROVE  /\ Standing(s) \in {"missing", "unavailable", "pending", "pending_finality",
                               "confirmed", "finalized"}
           /\ Standing(s) = "finalized" <=> Latest(s).status = "finalized"
<1>1. CASE outcomes[s] = <<>>
    BY <1>1, BodyTypes DEF Standing, NoBody
<1>2. CASE outcomes[s] # <<>>
    <2>1. Latest(s).status \in {"unavailable", "confirmed", "finalized"}
        BY <1>2, BodyTypes
    <2> QED BY <1>2, <2>1 DEF Standing
<1> QED BY <1>1, <1>2

\* An observation is finalized when the latest outcome of one of its
\* signatures is.
FinalizedByOne ==
    \A i \in Ids :
        Aggregate(i) = "finalized" <=>
            \E s \in Signatures : signatures[s].id = i /\ Latest(s).status = "finalized"
LEMMA AggregateFinalized == RTypeOK => FinalizedByOne
<1> SUFFICES ASSUME RTypeOK, NEW i \in Ids
             PROVE  Aggregate(i) = "finalized" <=>
                        \E s \in Signatures :
                            signatures[s].id = i /\ Latest(s).status = "finalized"
    BY DEF FinalizedByOne
<1> DEFINE found == {Rank(Standing(s)) : s \in {x \in Signatures : signatures[x].id = i}} \cup {1}
           best == CHOOSE n \in found : \A x \in found : x <= n
<1>1. found \subseteq 1..6 /\ 1 \in found
    BY StandingFinalized, RankFinalized
<1>2. 6 \in found <=> \E s \in Signatures :
                          signatures[s].id = i /\ Latest(s).status = "finalized"
    BY StandingFinalized, RankFinalized
<1>3. Aggregate(i) = Ranked[best]
    BY DEF Aggregate
<1> HIDE DEF found
<1>4. \E n \in found : \A x \in found : x <= n
    <2>1. CASE 6 \in found BY <1>1, <2>1
    <2>2. CASE 6 \notin found /\ 5 \in found BY <1>1, <2>2
    <2>3. CASE 6 \notin found /\ 5 \notin found /\ 4 \in found BY <1>1, <2>3
    <2>4. CASE 6 \notin found /\ 5 \notin found /\ 4 \notin found /\ 3 \in found BY <1>1, <2>4
    <2>5. CASE 6 \notin found /\ 5 \notin found /\ 4 \notin found /\ 3 \notin found
        BY <1>1, <2>5
    <2> QED BY <2>1, <2>2, <2>3, <2>4, <2>5
<1>5. best \in found /\ \A x \in found : x <= best
    BY <1>4
<1> HIDE DEF best
<1>6. best \in 1..6 /\ (best = 6 <=> 6 \in found)
    BY <1>1, <1>5
<1>7. Ranked[best] = "finalized" <=> best = 6
    BY <1>6 DEF Ranked
<1> QED BY <1>2, <1>3, <1>6, <1>7

\* An observation loses its finalized standing only to a reconciler that had
\* read the outcomes before the finalized one was stored.
THEOREM FinalityStandsCorrect == RSpec => FinalityStands
<1>1. ASSUME ReconcileInv, ReconcileInv', [RNext]_<<vars, rvars>>, NEW i \in Ids,
             Aggregate(i) = "finalized", Aggregate(i)' # "finalized"
      PROVE  \E k \in Reconcilers : /\ StoreOutcome(k)
                                    /\ reconciler[k].seen.status # "finalized"
                                    /\ Latest(reconciler[k].signature).status = "finalized"
    <2>1. PICK s \in Signatures : signatures[s].id = i /\ Latest(s).status = "finalized"
        BY <1>1, AggregateFinalized DEF ReconcileInv, FinalizedByOne
    <2>2. (RTypeOK => FinalizedByOne)'
        BY AggregateFinalized, PTL
    <2>3. ~(signatures'[s].id = i /\ Latest(s)'.status = "finalized")
        BY <1>1, <2>2 DEF ReconcileInv, FinalizedByOne
    <2>4. ~(signatures'[s] = signatures[s] /\ outcomes'[s] = outcomes[s])
        BY <2>1, <2>3 DEF Latest
    <2>5. Attached(s)
        BY <1>1, <2>1 DEF ReconcileInv, SignatureOK, Latest, NoBody
    <2>6. CASE Reconcile
        <3>1. ASSUME NEW k \in Reconcilers, StoreOutcome(k)
              PROVE  /\ StoreOutcome(k) /\ reconciler[k].seen.status # "finalized"
                     /\ Latest(reconciler[k].signature).status = "finalized"
            <4>1. PICK r, b : r = reconciler[k].signature /\ b = reconciler[k].body
                OBVIOUS
            <4>2. /\ r \in Signatures /\ b \in Bodies
                  /\ reconciler[k].seen.status = "finalized" => reconciler[k].seen = b
                BY <1>1, <3>1, <4>1 DEF ReconcileInv, ReconcilerOK, StoreOutcome
            <4>3. /\ signatures' = signatures
                  /\ outcomes' = [outcomes EXCEPT ![r] =
                                      IF Has(r, b) THEN @ ELSE Append(@, b)]
                BY <3>1, <4>1 DEF StoreOutcome
            <4>4. outcomes \in [Signatures -> Seq(Bodies)]
                BY <1>1 DEF ReconcileInv, RTypeOK
            <4>5. s = r /\ outcomes'[s] = Append(outcomes[s], b)
                BY <2>4, <4>2, <4>3, <4>4
            <4>6. Latest(s)' = b
                BY <4>2, <4>4, <4>5 DEF Latest
            <4>7. b.status # "finalized"
                BY <2>1, <2>3, <4>3, <4>6
            <4> QED BY <2>1, <3>1, <4>1, <4>2, <4>5, <4>7
        <3>2. ASSUME NEW j \in Ids, NEW t \in Signatures, NEW c \in Commitments, Attach(j, t, c)
              PROVE  FALSE
            BY <2>4, <2>5, <3>2 DEF Attach
        <3> QED BY <2>4, <2>6, <3>1, <3>2 DEF Reconcile, Read, Report, Abandon
    <2>7. CASE UNCHANGED rvars
        BY <2>4, <2>7 DEF rvars
    <2> QED BY <1>1, <2>6, <2>7, ReconcileSteps
<1>2. ReconcileInv /\ ReconcileInv' /\ [RNext]_<<vars, rvars>> =>
          \A i \in Ids :
              Aggregate(i) = "finalized" /\ Aggregate(i)' # "finalized" =>
                  \E k \in Reconcilers : /\ StoreOutcome(k)
                                         /\ reconciler[k].seen.status # "finalized"
                                         /\ Latest(reconciler[k].signature).status = "finalized"
    BY <1>1
<1> QED BY <1>2, ReconcileInvStarts, ReconcileInvStays, PTL DEF RSpec, FinalityStands
==============================================================================
