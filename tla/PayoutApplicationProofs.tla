------------------------ MODULE PayoutApplicationProofs ------------------------
(***************************************************************************)
(* Proofs about the processes of the payout application: the control       *)
(* service with the selection its steps make, the collector of training    *)
(* rows, and the split and the training that follow.                       *)
(***************************************************************************)
EXTENDS PayoutServer, ProfileTraining, PayoutCollection, FiniteSetTheorems, TLAPS

-----------------------------------------------------------------------------
(* PayoutServer, for any number of handlers and any length of a run.  That *)
(* two threads are never inside a step is not inductive by itself: what is *)
(* kept is that one thread at most is anywhere between the lock and the    *)
(* release of the record, and that the record is taken while it is.  The   *)
(* selection of a batch changes none of this, so nothing is assumed of the *)
(* node.                                                                   *)

Engaged(h) == handler[h] # "idle"
Alive(w) == worker[w].at # "none"

\* The threads' places and the counts of their steps.
PlacesOK ==
    /\ handler \in [Handlers -> {"idle", "start", "step", "select", "close"}]
    /\ worker \in [Handlers -> [at : {"none", "check", "step", "select", "close"}, steps : Nat]]

\* One thread at most holds the worker record.
OneHolder ==
    /\ \A h, w \in Handlers : ~(Engaged(h) /\ Alive(w))
    /\ \A h, other \in Handlers : h # other => /\ ~(Engaged(h) /\ Engaged(other))
                                               /\ ~(Alive(h) /\ Alive(other))

\* The record is taken while a thread holds it.
RecordTaken == \A h \in Handlers : Engaged(h) \/ Alive(h) => running = TRUE

\* A stop that was asked for is still in the event.
StopKept == stopped = TRUE => stopping = TRUE

FlagsOK == running \in BOOLEAN /\ stopping \in BOOLEAN /\ stopped \in BOOLEAN

ServerInv == PlacesOK /\ FlagsOK /\ OneHolder /\ RecordTaken /\ StopKept

\* The service starts with no thread and a free record.
LEMMA ServerInitInv == ServerInit => ServerInv
  <1> SUFFICES ASSUME ServerInit PROVE ServerInv
    OBVIOUS
  <1>1. \A h \in Handlers : handler[h] = "idle" /\ worker[h].at = "none"
    BY DEF ServerInit, Absent
  <1>2. PlacesOK /\ FlagsOK
    BY DEF ServerInit, Absent, PlacesOK, FlagsOK
  <1>3. OneHolder /\ RecordTaken
    BY <1>1 DEF OneHolder, RecordTaken, Engaged, Alive
  <1>4. StopKept
    BY DEF ServerInit, StopKept
  <1>5. QED
    BY <1>2, <1>3, <1>4 DEF ServerInv

\* A request that takes the record finds it free, so nobody held it.
LEMMA ClaimKeeps ==
    ASSUME ServerInv, NEW h \in Handlers, NEW place \in {"start", "step"}, Claim(h, place), UNCHANGED worker
    PROVE  ServerInv'
  <1>1. \A x \in Handlers : handler[x] = "idle" /\ worker[x].at = "none"
    BY DEF ServerInv, FlagsOK, RecordTaken, Engaged, Alive, Claim
  <1>2. handler' = [handler EXCEPT ![h] = place] /\ running' = TRUE
        /\ stopping' = FALSE /\ stopped' = FALSE
    BY DEF Claim, Move
  <1>3. PlacesOK' /\ FlagsOK'
    BY <1>2 DEF ServerInv, PlacesOK, FlagsOK
  <1>4. \A x \in Handlers : (handler'[x] # "idle" => x = h) /\ worker'[x].at = "none"
    BY <1>1, <1>2 DEF ServerInv, PlacesOK
  <1>5. OneHolder' /\ RecordTaken' /\ StopKept'
    BY <1>2, <1>4 DEF OneHolder, RecordTaken, StopKept, Engaged, Alive
  <1>6. QED
    BY <1>3, <1>5 DEF ServerInv

\* The handler hands the record to the thread it starts.
LEMMA SpawnKeeps ==
    ASSUME ServerInv, NEW h \in Handlers, Spawn(h)
    PROVE  ServerInv'
  <1>1. /\ handler' = [handler EXCEPT ![h] = "idle"]
        /\ worker' = [worker EXCEPT ![h] = [at |-> "check", steps |-> 0]]
        /\ UNCHANGED <<running, stopping, stopped>>
    BY DEF Spawn, Move
  <1>2. \A x \in Handlers : (handler[x] # "idle" => x = h) /\ worker[x].at = "none"
    BY DEF ServerInv, OneHolder, Engaged, Alive, Spawn
  <1>3. PlacesOK' /\ FlagsOK'
    BY <1>1 DEF ServerInv, PlacesOK, FlagsOK
  <1>4. \A x \in Handlers : handler'[x] = "idle" /\ (worker'[x].at # "none" => x = h)
    BY <1>1, <1>2 DEF ServerInv, PlacesOK
  <1>5. running = TRUE
    BY DEF Spawn, ServerInv, RecordTaken, Engaged
  <1>6. OneHolder' /\ RecordTaken' /\ StopKept'
    BY <1>1, <1>4, <1>5 DEF ServerInv, OneHolder, RecordTaken, StopKept, Engaged, Alive
  <1>7. QED
    BY <1>3, <1>6 DEF ServerInv

\* A thread that holds the record moves on, and the record stays taken.
LEMMA MoveKeeps ==
    ASSUME ServerInv, NEW h \in Handlers, Engaged(h), NEW place \in {"step", "select", "close"},
           Move(h, place), UNCHANGED <<running, stopping, worker, stopped>>
    PROVE  ServerInv'
  <1>1. handler' = [handler EXCEPT ![h] = place]
    BY DEF Move
  <1>2. PlacesOK' /\ FlagsOK'
    BY <1>1 DEF ServerInv, PlacesOK, FlagsOK
  <1>3. \A x \in Handlers : handler'[x] # "idle" <=> handler[x] # "idle"
    BY <1>1 DEF ServerInv, PlacesOK, Engaged
  <1>4. OneHolder' /\ RecordTaken' /\ StopKept'
    BY <1>3 DEF ServerInv, OneHolder, RecordTaken, StopKept, Engaged, Alive
  <1>5. QED
    BY <1>2, <1>4 DEF ServerInv

LEMMA GoKeeps ==
    ASSUME ServerInv, NEW w \in Handlers, Alive(w), NEW place \in {"check", "step", "select", "close"},
           NEW n \in Nat, worker' = [worker EXCEPT ![w] = [at |-> place, steps |-> n]],
           UNCHANGED <<running, stopping, handler, stopped>>
    PROVE  ServerInv'
  <1>1. PlacesOK' /\ FlagsOK'
    BY DEF ServerInv, PlacesOK, FlagsOK
  <1>2. \A x \in Handlers : worker'[x].at # "none" <=> worker[x].at # "none"
    BY DEF ServerInv, PlacesOK, Alive
  <1>3. OneHolder' /\ RecordTaken' /\ StopKept'
    BY <1>2 DEF ServerInv, OneHolder, RecordTaken, StopKept, Engaged, Alive
  <1>4. QED
    BY <1>1, <1>3 DEF ServerInv

\* What Go does to a thread's place leaves its count alone.
LEMMA GoFact ==
    ASSUME PlacesOK, NEW w \in Handlers, NEW place, Go(w, place)
    PROVE  worker[w].steps \in Nat /\ worker' = [worker EXCEPT ![w] = [at |-> place, steps |-> worker[w].steps]]
  <1>1. worker[w] \in [at : {"none", "check", "step", "select", "close"}, steps : Nat]
    BY DEF PlacesOK
  <1>2. [worker[w] EXCEPT !.at = place] = [at |-> place, steps |-> worker[w].steps]
    BY <1>1
  <1>3. worker' = [worker EXCEPT ![w] = [worker[w] EXCEPT !.at = place]]
    BY DEF Go
  <1>4. QED
    BY <1>1, <1>2, <1>3

\* The end of a handler's step or of a worker's run frees the record, and with
\* it nobody is left who holds it.
LEMMA CloseKeeps ==
    ASSUME ServerInv, NEW h \in Handlers, HandlerCloses(h) \/ WorkerCloses(h)
    PROVE  ServerInv'
  <1>1. CASE HandlerCloses(h)
    <2>1. /\ handler' = [handler EXCEPT ![h] = "idle"] /\ worker' = worker
          /\ running' = FALSE /\ UNCHANGED <<stopping, stopped>>
      BY <1>1 DEF HandlerCloses, Move
    <2>2. \A x \in Handlers : handler'[x] = "idle" /\ worker'[x].at = "none"
      BY <1>1, <2>1 DEF ServerInv, PlacesOK, OneHolder, Engaged, Alive, HandlerCloses
    <2>3. PlacesOK' /\ FlagsOK'
      BY <2>1 DEF ServerInv, PlacesOK, FlagsOK
    <2>4. QED
      BY <2>1, <2>2, <2>3 DEF ServerInv, OneHolder, RecordTaken, StopKept, Engaged, Alive
  <1>2. CASE WorkerCloses(h)
    <2>1. /\ worker' = [worker EXCEPT ![h] = Absent] /\ handler' = handler
          /\ running' = FALSE /\ UNCHANGED <<stopping, stopped>>
      BY <1>2 DEF WorkerCloses
    <2>2. \A x \in Handlers : handler'[x] = "idle" /\ worker'[x].at = "none"
      BY <1>2, <2>1 DEF ServerInv, PlacesOK, OneHolder, Engaged, Alive, WorkerCloses, Absent
    <2>3. PlacesOK' /\ FlagsOK'
      BY <2>1 DEF ServerInv, PlacesOK, FlagsOK, Absent
    <2>4. QED
      BY <2>1, <2>2, <2>3 DEF ServerInv, OneHolder, RecordTaken, StopKept, Engaged, Alive
  <1>3. QED
    BY <1>1, <1>2

\* What a thread does between the lock and the release.
LEMMA HandlerKeeps ==
    ASSUME ServerInv, NEW h \in Handlers, HandlerPlans(h) \/ HandlerEnds(h)
    PROVE  ServerInv'
  <1>1. CASE HandlerPlans(h)
    BY <1>1, MoveKeeps DEF HandlerPlans, Engaged
  <1>2. CASE HandlerEnds(h)
    BY <1>2, MoveKeeps DEF HandlerEnds, Engaged
  <1>3. QED
    BY <1>1, <1>2

LEMMA WorkerKeeps ==
    ASSUME ServerInv, NEW w \in Handlers,
           \/ WorkerChecks(w) \/ WorkerPlans(w)
           \/ \E outcome \in Outcomes : WorkerEnds(w, outcome)
    PROVE  ServerInv'
  <1> USE DEF ServerInv
  <1>1. CASE WorkerChecks(w)
    <2>1. Alive(w) /\ UNCHANGED <<running, stopping, handler, stopped>>
      BY <1>1 DEF WorkerChecks, Alive
    <2>2. CASE stopping \/ worker[w].steps = MaxSteps
      <3>1. Go(w, "close")
        BY <1>1, <2>2 DEF WorkerChecks
      <3>2. QED
        BY <2>1, <3>1, GoFact, GoKeeps
    <2>3. CASE ~(stopping \/ worker[w].steps = MaxSteps)
      <3>1. /\ worker' = [worker EXCEPT ![w] = [at |-> "step", steps |-> worker[w].steps + 1]]
            /\ worker[w].steps + 1 \in Nat
        BY <1>1, <2>3 DEF WorkerChecks, PlacesOK
      <3>2. QED
        BY <2>1, <3>1, GoKeeps
    <2>4. QED
      BY <2>2, <2>3
  <1>2. CASE WorkerPlans(w)
    <2>1. Alive(w) /\ Go(w, "select") /\ UNCHANGED <<running, stopping, handler, stopped>>
      BY <1>2 DEF WorkerPlans, Alive
    <2>2. QED
      BY <2>1, GoFact, GoKeeps
  <1>3. ASSUME NEW outcome \in Outcomes, WorkerEnds(w, outcome) PROVE ServerInv'
    <2>1. Alive(w) /\ UNCHANGED <<running, stopping, handler, stopped>>
      BY <1>3 DEF WorkerEnds, Alive
    <2>2. PICK place \in {"check", "close"} : Go(w, place)
      BY <1>3 DEF WorkerEnds
    <2>3. QED
      BY <2>1, <2>2, GoFact, GoKeeps
  <1>4. QED
    BY <1>1, <1>2, <1>3

\* Every step of the service keeps the invariant.
LEMMA ServerNextInv == ServerInv /\ [ServerNext]_<<serverVars, rpc, selVars>> => ServerInv'
  <1> SUFFICES ASSUME ServerInv, [ServerNext]_<<serverVars, rpc, selVars>> PROVE ServerInv'
    OBVIOUS
  <1>1. ASSUME NEW h \in Handlers, StartRequest(h) \/ StepRequest(h) PROVE ServerInv'
    BY <1>1, ClaimKeeps DEF StartRequest, StepRequest
  <1>2. ASSUME NEW h \in Handlers, StopRequest(h) PROVE ServerInv'
    BY <1>2 DEF StopRequest, ServerInv, PlacesOK, FlagsOK, OneHolder, RecordTaken, StopKept, Engaged, Alive
  <1>3. ASSUME NEW h \in Handlers, HandlerWorks(h) PROVE ServerInv'
    BY <1>3, SpawnKeeps, HandlerKeeps, CloseKeeps DEF HandlerWorks
  <1>4. ASSUME NEW w \in Handlers, WorkerWorks(w) PROVE ServerInv'
    BY <1>4, WorkerKeeps, CloseKeeps DEF WorkerWorks
  <1>5. CASE Selecting \/ UNCHANGED <<serverVars, rpc, selVars>>
    BY <1>5 DEF Selecting, serverVars, ServerInv, PlacesOK, FlagsOK, OneHolder, RecordTaken, StopKept, Engaged, Alive
  <1>6. CASE Restart
    BY <1>6 DEF Restart, Absent, ServerInv, PlacesOK, FlagsOK, OneHolder, RecordTaken, StopKept, Engaged, Alive
  <1>7. QED
    BY <1>1, <1>2, <1>3, <1>4, <1>5, <1>6 DEF ServerNext

LEMMA ServerInvariance == ServerSpec => []ServerInv
  BY ServerInitInv, ServerNextInv, PTL DEF ServerSpec

\* The lock and the record keep every other thread out of a step (server.py
\* 204-240): two threads never plan one cursor.
THEOREM OneStepperCorrect == ServerSpec => []OneStepper
  <1>1. ServerInv => OneStepper
    BY DEF ServerInv, OneHolder, Engaged, Alive, OneStepper, InStep
  <1>2. QED
    BY <1>1, ServerInvariance, PTL

\* A stop that was asked for is in the event when the worker looks at it, so no
\* further step begins (server.py 40-75, 226-230).
THEOREM StopCorrect == ServerSpec => StopIsHonoured
  <1> DEFINE Honoured == \A w \in Handlers :
                            worker[w].at = "check" /\ InStep(worker'[w].at) => ~stopped
  <1>1. ServerInv /\ [ServerNext]_<<serverVars, rpc, selVars>>
            => [Honoured]_<<serverVars, rpc, selVars>>
    <2> SUFFICES ASSUME ServerInv, ServerNext, NEW w \in Handlers,
                        worker[w].at = "check", InStep(worker'[w].at)
                 PROVE  ~stopped
      BY DEF Honoured
    <2>1. worker'[w] # worker[w]
      BY DEF InStep
    <2>2. ASSUME NEW h \in Handlers,
                 StartRequest(h) \/ StopRequest(h) \/ StepRequest(h) \/ HandlerPlans(h)
                     \/ HandlerEnds(h) \/ HandlerCloses(h)
          PROVE FALSE
      BY <2>1, <2>2 DEF StartRequest, StopRequest, StepRequest, HandlerPlans, HandlerEnds, HandlerCloses
    <2>3. ASSUME NEW h \in Handlers, Spawn(h) PROVE FALSE
      BY <2>1, <2>3 DEF Spawn, ServerInv, PlacesOK, OneHolder, Engaged, Alive
    <2>4. ASSUME NEW x \in Handlers, WorkerWorks(x) PROVE ~stopped
      <3>1. x = w
        BY <2>1, <2>4 DEF ServerInv, PlacesOK, OneHolder, Alive, WorkerWorks, WorkerChecks,
                          WorkerPlans, WorkerEnds, WorkerCloses
      <3>2. WorkerChecks(w)
        BY <2>4, <3>1 DEF WorkerWorks, WorkerPlans, WorkerEnds, WorkerCloses
      <3>3. ~stopping
        BY <3>2 DEF WorkerChecks, Go, InStep, ServerInv, PlacesOK
      <3>4. QED
        BY <3>3 DEF ServerInv, FlagsOK, StopKept
    <2>5. CASE Selecting
      BY <2>1, <2>5 DEF Selecting, serverVars
    <2>6. CASE Restart
      BY <2>6 DEF Restart, Absent, InStep
    <2>7. QED
      BY <2>2, <2>3, <2>4, <2>5, <2>6 DEF ServerNext, HandlerWorks
  <1>2. QED
    BY <1>1, ServerInvariance, PTL DEF ServerSpec, StopIsHonoured

-----------------------------------------------------------------------------
(* The arithmetic of the limits.                                           *)

\* What is left of a division into tenths, hundreds and pages.
LEMMA Division ==
    ASSUME NEW a \in Nat, NEW b \in {10, 100, Page}
    PROVE  /\ a \div b \in Nat
           /\ b * (a \div b) <= a /\ a < b * (a \div b) + b
<1>1. CASE b = 10
    BY <1>1
<1>2. CASE b = 100
    BY <1>2
<1>3. CASE b = Page
    BY <1>3, SMT DEF Page
<1> QED BY <1>1, <1>2, <1>3

LEMMA PaddedCovers ==
    ASSUME NEW a \in Nat
    PROVE  /\ Padded(a) \in Nat
           /\ 10 * Padded(a) >= 11 * a /\ 10 * Padded(a) < 11 * a + 10
<1>1. a * 11 + 9 \in Nat
    OBVIOUS
<1> QED BY <1>1, Division DEF Padded

\* Rounding up reaches a bound only if the amount passes its whole parts.
LEMMA RoundedUp ==
    ASSUME NEW a \in Nat, NEW b \in {100, Page}, NEW cap \in Nat
    PROVE  /\ ((a + b - 1) \div b) * b \in Nat
           /\ ((a + b - 1) \div b) * b >= a
           /\ ((a + b - 1) \div b) * b > cap => a > b * (cap \div b)
<1> DEFINE q == (a + b - 1) \div b
           k == cap \div b
<1>1. b \in Nat /\ b > 0 /\ a + b - 1 \in Nat
    <2>1. CASE b = 100
        BY <2>1
    <2>2. CASE b = Page
        BY <2>2, SMT DEF Page
    <2> QED BY <2>1, <2>2
<1>2. q \in Nat /\ b * q <= a + b - 1 /\ a + b - 1 < b * q + b
    <2>1. CASE b = 100
        BY <2>1
    <2>2. CASE b = Page
        BY <2>2, SMT DEF Page
    <2> QED BY <2>1, <2>2
<1>3. k \in Nat /\ b * k <= cap /\ cap < b * k + b
    <2>1. CASE b = 100
        BY <2>1
    <2>2. CASE b = Page
        BY <2>2, SMT DEF Page
    <2> QED BY <2>1, <2>2
<1> HIDE DEF q, k
<1>4. q * b = b * q /\ b * q \in Nat /\ b * q >= a
    BY <1>1, <1>2
<1>5. ASSUME q * b > cap
      PROVE  a > b * k
    <2>1. q > k
        <3>1. CASE b = 100
            BY <1>2, <1>3, <1>5, <3>1
        <3>2. CASE b = Page
            BY <1>2, <1>3, <1>5, <3>2, SMT DEF Page
        <3> QED BY <3>1, <3>2
    <2>2. b * q >= b * k + b
        <3>1. CASE b = 100
            BY <1>2, <1>3, <2>1, <3>1
        <3>2. CASE b = Page
            BY <1>2, <1>3, <2>1, <3>2, SMT DEF Page
        <3> QED BY <3>1, <3>2
    <2> QED BY <1>1, <1>2, <1>3, <2>2
<1> QED BY <1>4, <1>5 DEF q, k

LEMMA WholeFact ==
    ASSUME NEW c, NEW p
    PROVE  Whole([compute |-> c, data |-> p]) = [compute |-> ((c + 99) \div 100) * 100, data |-> p]
<1>1. PICK r : r = [compute |-> c, data |-> p]
    OBVIOUS
<1>2. PICK w : w = ((c + 99) \div 100) * 100
    OBVIOUS
<1>3. r.compute = c
    BY <1>1
<1>4. Whole(r) = [r EXCEPT !.compute = w]
    BY <1>2, <1>3 DEF Whole
<1>5. [r EXCEPT !.compute = w] = [compute |-> w, data |-> p]
    BY <1>1
<1> QED BY <1>1, <1>2, <1>4, <1>5

LEMMA InRange ==
    ASSUME NEW k \in Nat, NEW x \in 1..k
    PROVE  x \in Nat /\ x > 0 /\ x <= k
OBVIOUS

LEMMA CapsAreBounded ==
    /\ ComputeCap \in Nat /\ ComputeCap > 0 /\ ComputeCap <= MaxComputeUnits
    /\ DataCap \in Nat /\ DataCap > 0 /\ DataCap <= MaxLoadedBytes
    /\ MaxComputeUnits = 1400000 /\ MaxLoadedBytes = 67108864 /\ Page = 32768
<1>1. MaxComputeUnits = 1400000 /\ MaxLoadedBytes = 67108864 /\ Page = 32768
    BY SMT DEF MaxComputeUnits, MaxLoadedBytes, Page
<1>2. MaxComputeUnits \in Nat /\ MaxLoadedBytes \in Nat
    BY <1>1, SMT
<1>3. ComputeCap \in Nat /\ ComputeCap > 0 /\ ComputeCap <= MaxComputeUnits
    BY <1>2, CapsAssumption, InRange
<1>4. DataCap \in Nat /\ DataCap > 0 /\ DataCap <= MaxLoadedBytes
    BY <1>2, CapsAssumption, InRange
<1> QED BY <1>1, <1>3, <1>4

LEMMA MeasuredCovers ==
    ASSUME NEW m \in Measurements
    PROVE  LET limits == Whole(MeasuredLimits(m))
           IN  /\ limits.compute \in Nat \ {0} /\ limits.data \in Nat \ {0}
               /\ 10 * limits.compute >= 11 * m.units /\ 10 * limits.data >= 11 * m.data
               /\ ~Fits(limits) => TooLarge(m)
               /\ ExceedsRuntime(MeasuredLimits(m)) => TooLarge(m)
<1> DEFINE u == Padded(m.units)
           d == Padded(m.data)
           c == AtLeast(1, u)
           pages == ((d + Page - 1) \div Page) * Page
           p == AtLeast(Page, pages)
           whole == ((c + 99) \div 100) * 100
<1>1. m.units \in Nat /\ m.data \in Nat
    BY MeasurementsAssumption
<1>2. /\ u \in Nat /\ 10 * u >= 11 * m.units /\ 10 * u < 11 * m.units + 10
      /\ d \in Nat /\ 10 * d >= 11 * m.data /\ 10 * d < 11 * m.data + 10
    BY <1>1, PaddedCovers
<1>3. MeasuredLimits(m) = [compute |-> c, data |-> p] /\ Whole(MeasuredLimits(m)) = [compute |-> whole, data |-> p]
    <2>1. MeasuredLimits(m) = [compute |-> c, data |-> p]
        BY DEF MeasuredLimits
    <2> HIDE DEF c, p
    <2> QED BY <2>1, WholeFact
<1> HIDE DEF u, d
<1>4. c \in Nat /\ c >= u /\ c >= 1 /\ (c = u \/ c = 1)
    BY <1>2 DEF AtLeast
<1>5. ComputeCap \in Nat /\ DataCap \in Nat /\ ComputeCap <= MaxComputeUnits /\ DataCap <= MaxLoadedBytes
    BY CapsAreBounded
<1> DEFINE kc == ComputeCap \div 100
           kd == DataCap \div Page
<1>6. /\ kc \in Nat /\ 100 * kc <= ComputeCap /\ ComputeCap < 100 * kc + 100
      /\ kd \in Nat /\ Page * kd <= DataCap /\ DataCap < Page * kd + Page
    BY <1>5, Division
<1> HIDE DEF c
<1>7. /\ whole \in Nat /\ whole >= c
      /\ whole > ComputeCap => c > 100 * kc
    <2>1. ((c + 100 - 1) \div 100) * 100 = whole
        BY <1>4
    <2> QED BY <1>4, <1>5, <2>1, RoundedUp
<1>8. /\ pages \in Nat /\ pages >= d
      /\ pages > DataCap => d > Page * kd
      /\ pages > MaxLoadedBytes => d > MaxLoadedBytes
    <2>1. MaxLoadedBytes \in Nat /\ Page * (MaxLoadedBytes \div Page) = MaxLoadedBytes
        BY SMT DEF MaxLoadedBytes, Page
    <2>2. pages \in Nat /\ pages >= d
        BY <1>2, <1>5, RoundedUp
    <2>3. pages > DataCap => d > Page * kd
        BY <1>2, <1>5, RoundedUp
    <2>4. pages > MaxLoadedBytes => d > Page * (MaxLoadedBytes \div Page)
        BY <1>2, <2>1, RoundedUp
    <2> QED BY <2>1, <2>2, <2>3, <2>4
<1> HIDE DEF whole, pages
<1>9. p \in Nat /\ p >= pages /\ p >= Page /\ (p = pages \/ p = Page)
    BY <1>8, SMT DEF AtLeast, Page
<1> HIDE DEF p, kc, kd
<1>10. ASSUME whole > ComputeCap PROVE ComputeCap < 100 \/ 1000 * kc < 11 * m.units
    BY <1>1, <1>2, <1>4, <1>5, <1>6, <1>7, <1>10
<1>11. ASSUME p > DataCap PROVE DataCap < Page \/ 10 * Page * kd < 11 * m.data
    <2>1. CASE p = Page
        BY <1>5, <1>9, <1>11, <2>1
    <2>2. CASE p = pages
        <3>1. d > Page * kd
            BY <1>8, <1>11, <2>2
        <3> QED BY <1>1, <1>2, <1>6, <3>1, SMT DEF Page
    <2> QED BY <1>9, <2>1, <2>2
<1>12. ASSUME c > MaxComputeUnits PROVE 1000 * kc < 11 * m.units
    BY <1>1, <1>2, <1>4, <1>5, <1>6, <1>12, SMT DEF MaxComputeUnits
<1>13. ASSUME p > MaxLoadedBytes PROVE 10 * Page * kd < 11 * m.data
    <2>1. p = pages /\ d > MaxLoadedBytes
        BY <1>8, <1>9, <1>13, SMT DEF Page, MaxLoadedBytes
    <2> QED BY <1>1, <1>2, <1>5, <1>6, <2>1, SMT DEF Page, MaxLoadedBytes
<1>14. whole > 0 /\ p > 0 /\ 10 * whole >= 11 * m.units /\ 10 * p >= 11 * m.data
    BY <1>1, <1>2, <1>4, <1>7, <1>8, <1>9, SMT DEF Page
<1>15. ~Fits(Whole(MeasuredLimits(m))) => whole > ComputeCap \/ p > DataCap
    BY <1>3, <1>5, <1>7, <1>9 DEF Fits
<1>16. ExceedsRuntime(MeasuredLimits(m)) => c > MaxComputeUnits \/ p > MaxLoadedBytes
    BY <1>3 DEF ExceedsRuntime
<1>17. (\/ ComputeCap < 100 \/ DataCap < Page
        \/ 1000 * kc < 11 * m.units \/ 10 * Page * kd < 11 * m.data) => TooLarge(m)
    BY DEF TooLarge, kc, kd
<1> QED BY <1>3, <1>7, <1>9, <1>10, <1>11, <1>12, <1>13, <1>14, <1>15, <1>16, <1>17

\* The menu is a few small numbers, so a part of it has a largest one.
LEMMA LargestFound ==
    ASSUME NEW S \in SUBSET EligibleCounts, S # {}
    PROVE  Largest(S) \in S /\ \A n \in S : n <= Largest(S)
<1>1. EligibleCounts \subseteq 1..8
    BY RemainingAssumption DEF EligibleCounts
<1>2. S \subseteq 1..8
    BY <1>1
<1>3. \E n \in S : \A other \in S : other <= n
    <2>1. CASE 8 \in S
        BY <1>2, <2>1
    <2>2. CASE 7 \in S /\ 8 \notin S
        BY <1>2, <2>2
    <2>3. CASE 6 \in S /\ 7 \notin S /\ 8 \notin S
        BY <1>2, <2>3
    <2>4. CASE 5 \in S /\ 6 \notin S /\ 7 \notin S /\ 8 \notin S
        BY <1>2, <2>4
    <2>5. CASE 4 \in S /\ 5 \notin S /\ 6 \notin S /\ 7 \notin S /\ 8 \notin S
        BY <1>2, <2>5
    <2>6. CASE 3 \in S /\ 4 \notin S /\ 5 \notin S /\ 6 \notin S /\ 7 \notin S /\ 8 \notin S
        BY <1>2, <2>6
    <2>7. CASE 2 \in S /\ 3 \notin S /\ 4 \notin S /\ 5 \notin S /\ 6 \notin S /\ 7 \notin S /\ 8 \notin S
        BY <1>2, <2>7
    <2>8. CASE 1 \in S /\ 2 \notin S /\ 3 \notin S /\ 4 \notin S /\ 5 \notin S /\ 6 \notin S /\ 7 \notin S /\ 8 \notin S
        BY <1>2, <2>8
    <2>9. CASE 1 \notin S /\ 2 \notin S /\ 3 \notin S /\ 4 \notin S /\ 5 \notin S /\ 6 \notin S /\ 7 \notin S /\ 8 \notin S
        <3>1. PICK n : n \in S
            OBVIOUS
        <3>2. n \in Nat /\ 1 <= n /\ n <= 8
            BY <1>2, <3>1
        <3>3. n = 1 \/ n = 2 \/ n = 3 \/ n = 4 \/ n = 5 \/ n = 6 \/ n = 7 \/ n = 8
            BY <3>2
        <3> QED BY <2>9, <3>1, <3>3
    <2> QED BY <2>1, <2>2, <2>3, <2>4, <2>5, <2>6, <2>7, <2>8, <2>9
<1> QED BY <1>3 DEF Largest

-----------------------------------------------------------------------------
(* The invariant of the selection.                                         *)

Phases == {"none", "probe", "slot", "execute", "simulate", "finish", "record", "judge", "over"}
Reasons == {"none", "prediction", "simulation", "invalid_bound_plan", "rpc_failure",
            "transaction_error", "missing_measurement", "resource_cap_exceeded"}
Trials == [status : {"none", "accepted", "simulated", "unresolved"}, reason : Reasons,
           success : BOOLEAN, limits : [compute : Nat, data : Nat]]

Selections == [phase : Phases, count : Nat, option : Options, trial : Trials,
               owed : BOOLEAN, status : {"none", "planning", "stopped", "selected"}]

SelTypes ==
    /\ sel \in Selections
    /\ learned \in [malformed : SUBSET EligibleCounts, demand : SUBSET (EligibleCounts \X Measurements)]

\* The planning row goes with the phase, and its count is on the menu.
PhasesOK ==
    /\ sel.phase = "none" <=> sel.status = "none"
    /\ sel.phase = "over" <=> sel.status \in {"stopped", "selected"}
    /\ sel.phase # "none" => sel.count \in EligibleCounts
    /\ sel.owed => sel.phase \in {"execute", "simulate", "finish", "record"}

\* A candidate that was passed over for a reason the policy allows.
PassedOver(n) == \/ n \in learned.malformed
                 \/ \E d \in learned.demand : d[1] = n /\ TooLarge(d[2])

Descends == sel.phase # "none" =>
    /\ \A n \in EligibleCounts : n > sel.count => PassedOver(n)
    /\ \A d \in learned.demand : d[1] >= sel.count

\* What is known of this very candidate: nothing before its trial, and after it
\* what the trial says.
Unmeasured == \A d \in learned.demand : d[1] # sel.count
Accepted == sel.trial.status = "accepted" /\ sel.trial.limits \in Fitted
            /\ Fits(sel.trial.limits) /\ Unmeasured
Measured == /\ sel.trial.status = "simulated"
            /\ \E m \in Measurements :
                 /\ sel.trial.limits = Whole(MeasuredLimits(m))
                 /\ <<sel.count, m>> \in learned.demand
                 /\ \A d \in learned.demand : d[1] = sel.count => d[2] = m
Undecided ==
    /\ sel.trial.status = "unresolved"
    /\ sel.trial.reason = "resource_cap_exceeded" =>
         \E m \in Measurements : <<sel.count, m>> \in learned.demand
                                 /\ ExceedsRuntime(MeasuredLimits(m))

TrialOK ==
    /\ sel.phase \in {"probe", "slot", "execute", "simulate"} => Unmeasured
    /\ sel.phase \in {"finish", "record", "judge"} => Accepted \/ Measured \/ Undecided
    /\ sel.status = "selected" => (Accepted \/ Measured) /\ Fits(sel.trial.limits)

SelInv == SelTypes /\ PhasesOK /\ Descends /\ TrialOK

LEMMA MenuIsNat == EligibleCounts \subseteq Nat /\ 1 \in EligibleCounts
BY RemainingAssumption DEF EligibleCounts

LEMMA SomeSelections == NoSelection \in Selections /\ Nothing.malformed = {} /\ Nothing.demand = {}
                        /\ NoTrial \in Trials /\ NoSelection.phase = "none" /\ NoSelection.status = "none"
                        /\ NoSelection.owed = FALSE
<1>1. NoTrial \in Trials
    BY DEF NoTrial, NoLimits, Trials, Reasons
<1>2. Nothing.malformed = {} /\ Nothing.demand = {}
    BY DEF Nothing
<1>3. NoOption \in Options
    BY DEF NoOption, Options
<1>4. NoSelection \in Selections
    BY <1>1, <1>3 DEF NoSelection, Selections, Phases
<1> QED BY <1>1, <1>2, <1>4 DEF NoSelection

\* Between two selections nothing is promised but the types.
LEMMA IdleKeeps ==
    ASSUME SelInv, sel' = NoSelection, learned' = learned \/ learned' = Nothing
    PROVE  SelInv'
<1>1. SelTypes'
    BY SomeSelections DEF SelInv, SelTypes, Nothing
<1>2. sel'.phase = "none" /\ sel'.status = "none" /\ sel'.owed = FALSE
    BY SomeSelections
<1> QED BY <1>1, <1>2 DEF SelInv, PhasesOK, Descends, TrialOK

LEMMA SelInitInv == SelInit => SelInv
<1> SUFFICES ASSUME SelInit PROVE SelInv
    OBVIOUS
<1>1. SelTypes
    BY SomeSelections DEF SelInit, SelTypes, Nothing
<1>2. sel.phase = "none" /\ sel.status = "none" /\ sel.owed = FALSE
    BY SomeSelections DEF SelInit
<1> QED BY <1>1, <1>2 DEF SelInv, PhasesOK, Descends, TrialOK

\* The first candidate is the largest on the menu.
LEMMA BeginKeeps ==
    ASSUME SelInv, Begin
    PROVE  SelInv'
<1> DEFINE top == Largest(EligibleCounts)
<1>1. top \in EligibleCounts /\ top \in Nat /\ \A n \in EligibleCounts : n <= top /\ n \in Nat
    BY MenuIsNat, LargestFound
<1>2. sel' = [NoSelection EXCEPT !.phase = "probe", !.status = "planning", !.count = top]
      /\ learned' = Nothing
    BY DEF Begin
<1> HIDE DEF top
<1>3. /\ sel' \in Selections /\ sel'.phase = "probe" /\ sel'.status = "planning"
      /\ sel'.count = top /\ sel'.owed = FALSE
    BY <1>1, <1>2, SomeSelections DEF Selections, Phases
<1>4. SelTypes'
    BY <1>2, <1>3 DEF SelTypes, Nothing
<1>5. learned'.demand = {}
    BY <1>2, SomeSelections
<1>6. PhasesOK'
    BY <1>1, <1>3 DEF PhasesOK
<1>7. Descends' /\ TrialOK'
    BY <1>1, <1>3, <1>5 DEF Descends, TrialOK, Unmeasured
<1> QED BY <1>4, <1>6, <1>7 DEF SelInv

\* What a step may learn without a new measurement.
SameDemand == /\ learned' \in [malformed : SUBSET EligibleCounts, demand : SUBSET (EligibleCounts \X Measurements)]
              /\ learned.malformed \subseteq learned'.malformed
              /\ learned'.demand = learned.demand

LEMMA StopKeeps ==
    ASSUME SelInv, sel.phase \notin {"none", "over"}, sel.owed = FALSE, SameDemand, Stop
    PROVE  SelInv'
<1>1. sel \in Selections
    BY DEF SelInv, SelTypes
<1>2. /\ sel' \in Selections /\ sel'.phase = "over" /\ sel'.status = "stopped"
      /\ sel'.count = sel.count /\ sel'.owed = FALSE
    BY <1>1 DEF Stop, Selections, Phases
<1>3. SelTypes'
    BY <1>2 DEF SelTypes, SameDemand
<1>4. PhasesOK'
    BY <1>2 DEF SelInv, PhasesOK
<1>5. Descends'
    BY <1>2 DEF SelInv, Descends, SameDemand, PassedOver
<1> QED BY <1>2, <1>3, <1>4, <1>5 DEF SelInv, TrialOK

\* The next candidate: everything between it and the last one would be on the menu.
LEMMA NextKeeps ==
    ASSUME SelInv, sel.phase \notin {"none", "over"}, sel.owed = FALSE, SameDemand,
           NEW last, last = sel.count, PassedOver(last)', NextCandidate
    PROVE  SelInv'
<1>1. CASE Smaller = {}
    BY <1>1, StopKeeps DEF NextCandidate
<1>2. CASE Smaller # {}
    <2>1. Smaller \in SUBSET EligibleCounts
        BY DEF Smaller
    <2> DEFINE next == Largest(Smaller)
    <2>2. next \in Smaller /\ \A n \in Smaller : n <= next
        BY <1>2, <2>1, LargestFound
    <2>3. sel' = [sel EXCEPT !.phase = "probe", !.count = next]
        BY <1>2 DEF NextCandidate
    <2> HIDE DEF next
    <2>4. PICK k : k = next
        OBVIOUS
    <2>5. k \in EligibleCounts /\ k \in Nat /\ k < sel.count /\ sel.count \in Nat
          /\ \A n \in EligibleCounts : n \in Nat /\ (n < sel.count => n <= k)
        BY <2>2, <2>4, MenuIsNat DEF Smaller, SelInv, SelTypes, Selections
    <2>6. /\ sel' \in Selections /\ sel'.phase = "probe" /\ sel'.status = sel.status
          /\ sel'.count = k /\ sel'.owed = FALSE
        BY <2>3, <2>4, <2>5 DEF SelInv, SelTypes, Selections, Phases
    <2>7. SelTypes'
        BY <2>6 DEF SelTypes, SameDemand
    <2>8. PhasesOK'
        BY <2>5, <2>6 DEF SelInv, PhasesOK
    <2>9. ASSUME NEW n \in EligibleCounts, n > k
          PROVE  PassedOver(n)'
        <3>1. n \in Nat /\ (n = sel.count \/ n > sel.count)
            BY <2>5, <2>9
        <3>2. CASE n > sel.count
            <4>1. PassedOver(n)
                BY <3>2 DEF SelInv, Descends
            <4> QED BY <4>1 DEF PassedOver, SameDemand
        <3>3. CASE n = sel.count
            BY <3>3
        <3> QED BY <3>1, <3>2, <3>3
    <2>10. \A d \in learned'.demand : d[1] > k
        <3> SUFFICES ASSUME NEW d \in learned.demand PROVE d[1] > k
            BY DEF SameDemand
        <3>1. d[1] \in Nat /\ d[1] >= sel.count
            BY MenuIsNat DEF SelInv, SelTypes, Descends
        <3> QED BY <2>5, <3>1
    <2>11. \A d \in learned'.demand : d[1] \in Nat
        BY MenuIsNat DEF SelInv, SelTypes, SameDemand
    <2>12. Descends'
        BY <2>5, <2>6, <2>9, <2>10, <2>11 DEF Descends
    <2>13. TrialOK'
        BY <2>5, <2>6, <2>8, <2>10, <2>11 DEF TrialOK, Unmeasured, PhasesOK
    <2> QED BY <2>7, <2>8, <2>12, <2>13 DEF SelInv
<1> QED BY <1>1, <1>2

LEMMA SameKeeps ==
    ASSUME SelInv, UNCHANGED selVars
    PROVE  SelInv'
BY DEF selVars, SelInv, SelTypes, PhasesOK, Descends, TrialOK, PassedOver, Unmeasured,
       Accepted, Measured, Undecided

\* The selection goes on with the same candidate, and its trial stands.
LEMMA ContinueKeeps ==
    ASSUME SelInv, sel.status = "planning", UNCHANGED learned, sel' \in Selections,
           sel'.count = sel.count, sel'.status = "planning", sel'.phase \notin {"none", "over"},
           sel'.owed => sel'.phase \in {"execute", "simulate", "finish", "record"},
           \/ sel'.phase \in {"slot", "execute", "simulate"} /\ sel.phase \in {"probe", "slot", "execute"}
           \/ sel'.phase \in {"finish", "record", "judge"} /\ (Accepted \/ Measured \/ Undecided)'
    PROVE  SelInv'
<1>1. SelTypes'
    BY DEF SelInv, SelTypes
<1>2. PhasesOK'
    BY DEF SelInv, PhasesOK
<1>3. Descends'
    BY DEF SelInv, PhasesOK, Descends, PassedOver
<1>4. CASE sel'.phase \in {"slot", "execute", "simulate"} /\ sel.phase \in {"probe", "slot", "execute"}
    BY <1>1, <1>2, <1>3, <1>4 DEF SelInv, TrialOK, Unmeasured
<1>5. CASE sel'.phase \in {"finish", "record", "judge"} /\ (Accepted \/ Measured \/ Undecided)'
    BY <1>1, <1>2, <1>3, <1>5 DEF SelInv, TrialOK
<1> QED BY <1>4, <1>5

\* In a probing phase the row is planning and nothing is owed before the draw.
LEMMA RowFact ==
    ASSUME SelInv, sel.phase \notin {"none", "over"}
    PROVE  /\ sel \in Selections /\ sel.status = "planning" /\ sel.count \in EligibleCounts
           /\ sel.phase \in {"probe", "slot", "judge"} => sel.owed = FALSE
BY DEF SelInv, SelTypes, PhasesOK, Selections

LEMMA ProbeKeeps ==
    ASSUME SelInv, NEW o \in Options, Probe(o)
    PROVE  SelInv'
<1>1. /\ sel.phase = "probe" /\ sel \in Selections /\ sel.status = "planning"
      /\ sel.count \in EligibleCounts /\ sel.owed = FALSE
    BY RowFact DEF Probe
<1>2. learned \in [malformed : SUBSET EligibleCounts, demand : SUBSET (EligibleCounts \X Measurements)]
    BY DEF SelInv, SelTypes
<1>3. CASE ~o.supported
    BY <1>1, <1>2, <1>3, StopKeeps DEF Probe, SameDemand
<1>4. CASE o.supported /\ ~o.wellFormed
    <2>1. PICK last : last = sel.count
        OBVIOUS
    <2>2. learned' = [learned EXCEPT !.malformed = learned.malformed \cup {last}] /\ NextCandidate
        BY <1>4, <2>1 DEF Probe
    <2>3. SameDemand /\ last \in learned'.malformed
        BY <1>1, <1>2, <2>1, <2>2 DEF SameDemand
    <2>4. PassedOver(last)'
        BY <2>3 DEF PassedOver
    <2> QED BY <1>1, <2>1, <2>2, <2>3, <2>4, NextKeeps
<1>5. CASE o.supported /\ o.wellFormed
    <2>1. sel' = [sel EXCEPT !.phase = "slot", !.option = o] /\ UNCHANGED learned
        BY <1>5 DEF Probe
    <2>2. /\ sel' \in Selections /\ sel'.phase = "slot" /\ sel'.count = sel.count
          /\ sel'.status = "planning" /\ sel'.owed = FALSE
        BY <1>1, <2>1 DEF Selections, Phases
    <2> QED BY <1>1, <2>1, <2>2, ContinueKeeps
<1> QED BY <1>3, <1>4, <1>5

LEMMA SlotReadKeeps ==
    ASSUME SelInv, SlotRead
    PROVE  SelInv'
<1>1. /\ sel.phase = "slot" /\ sel \in Selections /\ sel.status = "planning"
      /\ sel.count \in EligibleCounts /\ sel.owed = FALSE
    BY RowFact DEF SlotRead
<1>2. learned \in [malformed : SUBSET EligibleCounts, demand : SUBSET (EligibleCounts \X Measurements)]
      /\ UNCHANGED learned
    BY DEF SelInv, SelTypes, SlotRead
<1>3. CASE Stop
    BY <1>1, <1>2, <1>3, StopKeeps DEF SameDemand
<1>4. CASE sel' = [sel EXCEPT !.phase = "execute", !.owed = sel.option.control]
    <2>1. sel.option.control \in BOOLEAN
        BY <1>1 DEF Selections, Options
    <2>2. /\ sel' \in Selections /\ sel'.phase = "execute" /\ sel'.count = sel.count
          /\ sel'.status = "planning"
        BY <1>1, <1>4, <2>1 DEF Selections, Phases
    <2> QED BY <1>1, <1>2, <2>2, ContinueKeeps
<1> QED BY <1>3, <1>4 DEF SlotRead

\* Limits that a prediction carries are on the menu of the profiles.
LEMMA PredictionFact ==
    ASSUME SelInv, UsePrediction(sel.option)
    PROVE  sel.option.limits \in Fitted /\ Fits(sel.option.limits)
           /\ sel.option.limits \in [compute : Nat, data : Nat]
BY FittedAssumption DEF SelInv, SelTypes, Selections, Options, UsePrediction

LEMMA ExecuteKeeps ==
    ASSUME SelInv, NEW binds \in BOOLEAN, NEW granted \in BOOLEAN, Execute(binds, granted)
    PROVE  SelInv'
<1>1. /\ sel.phase = "execute" /\ sel \in Selections /\ sel.status = "planning"
      /\ sel.count \in EligibleCounts /\ UNCHANGED learned
    BY RowFact DEF Execute
<1>2. CASE ~binds
    <2> DEFINE t == Unresolved("invalid_bound_plan", FALSE)
    <2>1. t \in Trials /\ t.status = "unresolved" /\ t.reason = "invalid_bound_plan"
        BY DEF Unresolved, Trials, Reasons, NoLimits
    <2>2. sel' = [sel EXCEPT !.phase = "finish", !.trial = t]
        BY <1>2 DEF Execute
    <2> HIDE DEF t
    <2>3. /\ sel' \in Selections /\ sel'.phase = "finish" /\ sel'.count = sel.count
          /\ sel'.status = "planning" /\ sel'.trial = t
        BY <1>1, <2>1, <2>2 DEF Selections, Phases
    <2>4. Undecided'
        BY <2>1, <2>3 DEF Undecided
    <2> QED BY <1>1, <2>3, <2>4, ContinueKeeps
<1>3. CASE binds /\ UsePrediction(sel.option) /\ granted /\ ~sel.option.control
    <2>1. PICK limits : limits = sel.option.limits
        OBVIOUS
    <2>2. limits \in Fitted /\ Fits(limits) /\ limits \in [compute : Nat, data : Nat]
        BY <1>3, <2>1, PredictionFact
    <2> DEFINE t == [status |-> "accepted", reason |-> "prediction", success |-> FALSE, limits |-> limits]
    <2>3. t \in Trials /\ t.status = "accepted" /\ t.limits = limits
        BY <2>2 DEF Trials, Reasons
    <2>4. sel' = [sel EXCEPT !.phase = "finish", !.trial = t]
        BY <1>3, <2>1 DEF Execute
    <2> HIDE DEF t
    <2>5. /\ sel' \in Selections /\ sel'.phase = "finish" /\ sel'.count = sel.count
          /\ sel'.status = "planning" /\ sel'.trial = t
        BY <1>1, <2>3, <2>4 DEF Selections, Phases
    <2>6. Accepted'
        BY <1>1, <2>2, <2>3, <2>5 DEF Accepted, SelInv, TrialOK, Unmeasured
    <2> QED BY <1>1, <2>5, <2>6, ContinueKeeps
<1>4. CASE binds /\ ~(UsePrediction(sel.option) /\ granted /\ ~sel.option.control)
    <2>1. sel' = [sel EXCEPT !.phase = "simulate"]
        BY <1>4 DEF Execute
    <2>2. /\ sel' \in Selections /\ sel'.phase = "simulate" /\ sel'.count = sel.count
          /\ sel'.status = "planning"
        BY <1>1, <2>1 DEF Selections, Phases
    <2> QED BY <1>1, <2>2, ContinueKeeps
<1> QED BY <1>2, <1>3, <1>4

\* A successful measurement is a trial of this candidate and of no other, and the
\* limits it leads to are the application's only if the runtime allows them.
LEMMA MeasurementKeeps ==
    ASSUME SelInv, sel.phase = "simulate", NEW m \in Measurements,
           sel' = [sel EXCEPT !.phase = "finish", !.trial =
                      IF ExceedsRuntime(MeasuredLimits(m))
                      THEN Unresolved("resource_cap_exceeded", TRUE)
                      ELSE [status |-> "simulated", reason |-> "simulation",
                            success |-> TRUE, limits |-> Whole(MeasuredLimits(m))]],
           learned' = [learned EXCEPT !.demand = @ \cup {<<sel.count, m>>}]
    PROVE  SelInv'
<1>1. /\ sel \in Selections /\ sel.status = "planning" /\ sel.count \in EligibleCounts
      /\ sel.count \in Nat
    BY RowFact, MenuIsNat
<1>2. PICK k, whole : k = sel.count /\ whole = Whole(MeasuredLimits(m))
    OBVIOUS
<1>3. /\ learned'.demand = learned.demand \cup {<<k, m>>} /\ learned'.malformed = learned.malformed
      /\ learned' \in [malformed : SUBSET EligibleCounts, demand : SUBSET (EligibleCounts \X Measurements)]
    BY <1>1, <1>2 DEF SelInv, SelTypes
<1>4. whole \in [compute : Nat, data : Nat]
    <2>1. whole.compute \in Nat /\ whole.data \in Nat
        BY <1>2, MeasuredCovers
    <2>2. whole = [compute |-> whole.compute, data |-> whole.data]
        <3>1. PICK u, d : MeasuredLimits(m) = [compute |-> u, data |-> d]
            BY DEF MeasuredLimits
        <3>2. PICK w : w = ((u + 99) \div 100) * 100
            OBVIOUS
        <3>3. whole = [compute |-> w, data |-> d]
            BY <1>2, <3>1, <3>2, WholeFact
        <3> QED BY <3>3
    <2> QED BY <2>1, <2>2
<1> DEFINE t == IF ExceedsRuntime(MeasuredLimits(m))
                THEN Unresolved("resource_cap_exceeded", TRUE)
                ELSE [status |-> "simulated", reason |-> "simulation",
                      success |-> TRUE, limits |-> whole]
<1>5. /\ t \in Trials
      /\ \/ /\ ExceedsRuntime(MeasuredLimits(m))
            /\ t.status = "unresolved" /\ t.reason = "resource_cap_exceeded"
         \/ t.status = "simulated" /\ t.limits = whole
    <2>1. CASE ExceedsRuntime(MeasuredLimits(m))
        BY <2>1 DEF Unresolved, Trials, Reasons, NoLimits
    <2>2. CASE ~ExceedsRuntime(MeasuredLimits(m))
        BY <1>4, <2>2 DEF Trials, Reasons
    <2> QED BY <2>1, <2>2
<1>6. sel' = [sel EXCEPT !.phase = "finish", !.trial = t]
    BY <1>2
<1> HIDE DEF t
<1>7. /\ sel' \in Selections /\ sel'.phase = "finish" /\ sel'.count = k
      /\ sel'.status = "planning" /\ sel'.trial = t /\ sel'.owed = sel.owed
    BY <1>1, <1>2, <1>5, <1>6 DEF Selections, Phases
<1>8. SelTypes'
    BY <1>3, <1>7 DEF SelTypes
<1>9. PhasesOK'
    BY <1>1, <1>2, <1>7 DEF SelInv, PhasesOK
<1>10. Descends'
    <2>1. \A n \in EligibleCounts : n > k => PassedOver(n)
        BY <1>2 DEF SelInv, Descends
    <2>2. \A n \in EligibleCounts : n > k => PassedOver(n)'
        BY <1>3, <2>1 DEF PassedOver
    <2>3. \A d \in learned.demand : d[1] >= k
        BY <1>2 DEF SelInv, Descends
    <2>4. \A d \in learned'.demand : d[1] >= k
        BY <1>1, <1>2, <1>3, <2>3
    <2> QED BY <1>7, <2>2, <2>4 DEF Descends
<1>11. \A d \in learned'.demand : d[1] = k => d[2] = m
    <2>1. \A d \in learned.demand : d[1] # k
        BY <1>2 DEF SelInv, TrialOK, Unmeasured
    <2> QED BY <1>3, <2>1
<1>12. <<k, m>> \in learned'.demand
    BY <1>3
<1>13. Measured' \/ Undecided'
    <2>1. CASE ExceedsRuntime(MeasuredLimits(m)) /\ t.status = "unresolved"
        BY <1>7, <1>12, <2>1 DEF Undecided
    <2>2. CASE t.status = "simulated" /\ t.limits = whole
        <3>1. sel'.trial.status = "simulated" /\ sel'.trial.limits = Whole(MeasuredLimits(m))
            BY <1>2, <1>7, <2>2
        <3>2. <<sel'.count, m>> \in learned'.demand /\ \A d \in learned'.demand : d[1] = sel'.count => d[2] = m
            BY <1>7, <1>11, <1>12
        <3>3. Measured'
            BY <3>1, <3>2, Zenon DEF Measured
        <3> QED BY <3>3
    <2> QED BY <1>5, <2>1, <2>2
<1>14. TrialOK'
    BY <1>7, <1>13 DEF TrialOK
<1> QED BY <1>8, <1>9, <1>10, <1>14 DEF SelInv

LEMMA SimulatedKeeps ==
    ASSUME SelInv, Simulated
    PROVE  SelInv'
<1>1. /\ sel.phase = "simulate" /\ sel \in Selections /\ sel.status = "planning"
      /\ sel.count \in EligibleCounts
    BY RowFact DEF Simulated
<1>2. ASSUME NEW reason \in {"rpc_failure", "transaction_error", "missing_measurement"},
             NEW success \in BOOLEAN,
             sel' = [sel EXCEPT !.phase = "finish", !.trial = Unresolved(reason, success)],
             UNCHANGED learned
      PROVE  SelInv'
    <2> DEFINE t == Unresolved(reason, success)
    <2>1. t \in Trials /\ t.status = "unresolved" /\ t.reason # "resource_cap_exceeded"
        BY DEF Unresolved, Trials, Reasons, NoLimits
    <2>2. sel' = [sel EXCEPT !.phase = "finish", !.trial = t]
        BY <1>2
    <2> HIDE DEF t
    <2>3. /\ sel' \in Selections /\ sel'.phase = "finish" /\ sel'.count = sel.count
          /\ sel'.status = "planning" /\ sel'.trial = t
        BY <1>1, <2>1, <2>2 DEF Selections, Phases
    <2>4. Undecided'
        BY <2>1, <2>3 DEF Undecided
    <2> QED BY <1>1, <1>2, <2>3, <2>4, ContinueKeeps
<1>3. \/ sel' = [sel EXCEPT !.phase = "finish", !.trial = Unresolved("rpc_failure", FALSE)] /\ UNCHANGED learned
      \/ \E reason \in {"transaction_error", "missing_measurement"} :
            /\ sel' = [sel EXCEPT !.phase = "finish",
                                  !.trial = Unresolved(reason, reason = "missing_measurement")]
            /\ UNCHANGED learned
      \/ \E m \in Measurements :
            /\ sel' = [sel EXCEPT !.phase = "finish", !.trial =
                          IF ExceedsRuntime(MeasuredLimits(m))
                          THEN Unresolved("resource_cap_exceeded", TRUE)
                          ELSE [status |-> "simulated", reason |-> "simulation",
                                success |-> TRUE, limits |-> Whole(MeasuredLimits(m))]]
            /\ learned' = [learned EXCEPT !.demand = @ \cup {<<sel.count, m>>}]
    BY Zenon DEF Simulated
<1>4. CASE sel' = [sel EXCEPT !.phase = "finish", !.trial = Unresolved("rpc_failure", FALSE)] /\ UNCHANGED learned
    BY <1>2, <1>4
<1>5. ASSUME NEW reason \in {"transaction_error", "missing_measurement"},
             sel' = [sel EXCEPT !.phase = "finish",
                                !.trial = Unresolved(reason, reason = "missing_measurement")],
             UNCHANGED learned
      PROVE  SelInv'
    BY <1>2, <1>5
<1> QED BY <1>1, <1>3, <1>4, <1>5, MeasurementKeeps

LEMMA RecordsKeep ==
    ASSUME SelInv, Finish \/ Record
    PROVE  SelInv'
<1>1. /\ sel.phase \in {"finish", "record"} /\ sel \in Selections /\ sel.status = "planning"
      /\ sel.count \in EligibleCounts /\ UNCHANGED learned
      /\ sel' = [sel EXCEPT !.phase = "record"] \/ sel' = [sel EXCEPT !.phase = "judge", !.owed = FALSE]
    BY RowFact DEF Finish, Record
<1>2. /\ sel' \in Selections /\ sel'.phase \in {"record", "judge"} /\ sel'.count = sel.count
      /\ sel'.status = "planning" /\ sel'.trial = sel.trial
      /\ sel'.owed => sel'.phase = "record"
    BY <1>1 DEF Selections, Phases
<1>3. Accepted \/ Measured \/ Undecided
    BY <1>1 DEF SelInv, TrialOK
<1>4. (Accepted \/ Measured \/ Undecided)'
    BY <1>1, <1>2, <1>3 DEF Accepted, Measured, Undecided, Unmeasured
<1> QED BY <1>1, <1>2, <1>4, ContinueKeeps

\* A candidate is passed over only for a demand that is too large, and selected
\* only with limits within the policy.
LEMMA JudgeKeeps ==
    ASSUME SelInv, Judge
    PROVE  SelInv'
<1>1. /\ sel.phase = "judge" /\ sel \in Selections /\ sel.status = "planning"
      /\ sel.count \in EligibleCounts /\ sel.owed = FALSE /\ UNCHANGED learned
    BY RowFact DEF Judge
<1>2. Accepted \/ Measured \/ Undecided
    BY <1>1 DEF SelInv, TrialOK
<1>3. SameDemand
    BY <1>1 DEF SelInv, SelTypes, SameDemand
<1>4. CASE Stop
    BY <1>1, <1>3, <1>4, StopKeeps
<1>5. ASSUME NextCandidate, NEW m \in Measurements, <<sel.count, m>> \in learned.demand, TooLarge(m)
      PROVE  SelInv'
    <2>1. PICK last : last = sel.count
        OBVIOUS
    <2>2. <<last, m>> \in learned'.demand
        BY <1>1, <1>5, <2>1
    <2>3. PassedOver(last)'
        BY <1>5, <2>2 DEF PassedOver
    <2> QED BY <1>1, <1>3, <1>5, <2>1, <2>3, NextKeeps
<1>6. CASE NextCandidate /\ sel.trial.status = "unresolved" /\ sel.trial.reason = "resource_cap_exceeded"
    <2>1. PICK m \in Measurements : <<sel.count, m>> \in learned.demand /\ ExceedsRuntime(MeasuredLimits(m))
        BY <1>2, <1>6 DEF Accepted, Measured, Undecided
    <2>2. TooLarge(m)
        BY <2>1, MeasuredCovers
    <2> QED BY <1>5, <1>6, <2>1, <2>2
<1>7. CASE NextCandidate /\ sel.trial.status = "simulated" /\ ~Fits(sel.trial.limits)
    <2>1. PICK m \in Measurements : <<sel.count, m>> \in learned.demand /\ sel.trial.limits = Whole(MeasuredLimits(m))
        BY <1>2, <1>7 DEF Accepted, Measured, Undecided
    <2>2. TooLarge(m)
        BY <1>7, <2>1, MeasuredCovers
    <2> QED BY <1>5, <1>7, <2>1, <2>2
<1>8. CASE /\ sel.trial.status # "unresolved" /\ Fits(sel.trial.limits)
           /\ sel' = [sel EXCEPT !.phase = "over", !.status = "selected"]
    <2>1. /\ sel' \in Selections /\ sel'.phase = "over" /\ sel'.status = "selected"
          /\ sel'.count = sel.count /\ sel'.trial = sel.trial /\ sel'.owed = FALSE
        BY <1>1, <1>8 DEF Selections, Phases
    <2>2. SelTypes' /\ PhasesOK' /\ Descends'
        BY <1>1, <2>1 DEF SelInv, SelTypes, PhasesOK, Descends, PassedOver
    <2>3. Accepted \/ Measured
        BY <1>2, <1>8 DEF Undecided
    <2>4. (Accepted \/ Measured)'
        BY <1>1, <2>1, <2>3 DEF Accepted, Measured, Unmeasured
    <2>5. Fits(sel.trial.limits)'
        BY <1>8, <2>1 DEF Fits
    <2>6. TrialOK'
        BY <2>1, <2>4, <2>5 DEF TrialOK
    <2> QED BY <2>2, <2>6 DEF SelInv
<1> QED BY <1>4, <1>6, <1>7, <1>8 DEF Judge

\* A step of the service leaves the selection alone, begins or drops one, or is
\* the selection's own.
LEMMA SelNextInv ==
    ASSUME SelInv, [ServerNext]_<<serverVars, rpc, selVars>>
    PROVE  SelInv'
<1>1. CASE UNCHANGED selVars
    BY <1>1, SameKeeps
<1>2. CASE Begin
    BY <1>2, BeginKeeps
<1>3. CASE sel' = NoSelection /\ (learned' = learned \/ learned' = Nothing)
    BY <1>3, IdleKeeps
<1>4. CASE SelStep
    BY <1>1, <1>4, ProbeKeeps, SlotReadKeeps, ExecuteKeeps, SimulatedKeeps, RecordsKeep, JudgeKeeps
       DEF SelStep
<1>5. ASSUME NEW h \in Handlers, HandlerWorks(h) \/ WorkerWorks(h)
      PROVE  \/ UNCHANGED selVars \/ Begin
             \/ sel' = NoSelection /\ learned' = learned
    BY <1>5 DEF HandlerWorks, WorkerWorks, Spawn, HandlerPlans, HandlerEnds, HandlerCloses,
       WorkerChecks, WorkerPlans, WorkerCloses, WorkerEnds, Planning, selVars
<1>6. ASSUME NEW h \in Handlers, StartRequest(h) \/ StopRequest(h) \/ StepRequest(h)
      PROVE  UNCHANGED selVars
    BY <1>6 DEF StartRequest, StopRequest, StepRequest, Planning
<1>7. CASE Restart
    BY <1>3, <1>7 DEF Restart
<1>8. CASE UNCHANGED <<serverVars, rpc, selVars>>
    BY <1>1, <1>8
<1> QED BY <1>1, <1>2, <1>3, <1>4, <1>5, <1>6, <1>7, <1>8 DEF ServerNext, Selecting

LEMMA SelInvariance == ServerSpec => []SelInv
<1>1. ServerInit => SelInv
    BY SelInitInv DEF ServerInit
<1> QED BY <1>1, SelNextInv, PTL DEF ServerSpec

\* AdaptiveSelection.LargestVerified for any queue, caps, prices and predictions:
\* the batch selected is the largest one whose measured demand the policy allows,
\* and no candidate is passed over before its control's outcome is recorded.
THEOREM LargestVerifiedCorrect == ServerSpec => []LargestVerified
<1>1. SelInv => LargestVerified
    BY DEF SelInv, PhasesOK, Descends, PassedOver, LargestVerified
<1> QED BY <1>1, SelInvariance, PTL

\* AdaptiveSelection.LimitsCover for the same: the limits selected are within both
\* caps and cover with their margin the demand measured for the batch.
THEOREM LimitsCoverCorrect == ServerSpec => []LimitsCover
<1>1. ASSUME SelInv, sel.status = "selected"
      PROVE  LET limits == sel.trial.limits
             IN  /\ limits.compute \in 1..ComputeCap /\ limits.data \in 1..DataCap
                 /\ \A d \in learned.demand : d[1] = sel.count =>
                       10 * limits.compute >= 11 * d[2].units /\ 10 * limits.data >= 11 * d[2].data
                 /\ sel.trial.status = "accepted" => limits \in Fitted
    <2>1. Accepted \/ Measured
        BY <1>1 DEF SelInv, TrialOK
    <2>2. Fits(sel.trial.limits)
        BY <1>1 DEF SelInv, TrialOK
    <2>3. CASE Accepted
        <3>1. sel.trial.limits \in Fitted /\ Unmeasured
            BY <2>3 DEF Accepted
        <3>2. sel.trial.limits.compute \in Nat \ {0} /\ sel.trial.limits.data \in Nat \ {0}
            BY <3>1, FittedAssumption
        <3> QED BY <2>2, <3>1, <3>2, CapsAreBounded DEF Fits, Unmeasured
    <2>4. CASE Measured
        <3>1. PICK m \in Measurements :
                /\ sel.trial.limits = Whole(MeasuredLimits(m))
                /\ \A d \in learned.demand : d[1] = sel.count => d[2] = m
            BY <2>4 DEF Measured
        <3>2. /\ sel.trial.limits.compute \in Nat \ {0} /\ sel.trial.limits.data \in Nat \ {0}
              /\ 10 * sel.trial.limits.compute >= 11 * m.units
              /\ 10 * sel.trial.limits.data >= 11 * m.data
            BY <3>1, MeasuredCovers
        <3>3. sel.trial.limits.compute \in 1..ComputeCap /\ sel.trial.limits.data \in 1..DataCap
            BY <2>2, <3>2, CapsAreBounded DEF Fits
        <3>4. sel.trial.status # "accepted"
            BY <2>4 DEF Measured
        <3> QED BY <3>1, <3>2, <3>3, <3>4
    <2> QED BY <2>1, <2>3, <2>4
<1>2. SelInv => LimitsCover
    BY <1>1 DEF LimitsCover
<1> QED BY <1>2, SelInvariance, PTL

-----------------------------------------------------------------------------
(* The selection advances: no step of it leaves it where it was, so a node *)
(* that answers or times out lets it end.  A call is under way only while  *)
(* the selection waits for it, and a selection is on only while a thread   *)
(* is inside its step: a thread whose step ends drops no other's call.     *)

CallPhases == {"quiet", "ready", "waiting", "failed", "answered"}
Methods == {"none", "getSlot", "simulateTransaction"}
Calls == [method : Methods, attempt : 0..(Attempts - 1), phase : CallPhases]

Selects(h) == handler[h] = "select" \/ worker[h].at = "select"

\* The selection belongs to a thread, and the call to the selection.
SelOwned == sel.phase # "none" => \E h \in Handlers : Selects(h)
CallOwned == rpc.phase \in {"ready", "waiting"} => sel.phase \in {"slot", "simulate"}
CallMade == sel.phase \in {"slot", "simulate"} => rpc.phase # "quiet"
CallInv == rpc \in Calls /\ SelOwned /\ CallOwned /\ CallMade

\* Requests a call may still post, two steps each, and the steps left to decide
\* about a candidate.
RequestsLeft(call) == CASE call.phase = "ready" -> 2 * (Attempts - call.attempt)
                        [] call.phase = "waiting" -> 2 * (Attempts - call.attempt) - 1
                        [] OTHER -> 0
StepsLeft(s, call) == CASE s.phase = "judge" -> 1
                        [] s.phase = "record" -> 2
                        [] s.phase = "finish" -> 3
                        [] s.phase = "simulate" -> 4 + RequestsLeft(call)
                        [] s.phase = "execute" -> 5 + 2 * Attempts
                        [] s.phase = "slot" -> 6 + 2 * Attempts + RequestsLeft(call)
                        [] s.phase = "probe" -> 7 + 4 * Attempts
                        [] OTHER -> 0

SmallerBatch == sel'.count < sel.count /\ sel'.phase = "probe"
Closer == sel'.count = sel.count /\ StepsLeft(sel', rpc') < StepsLeft(sel, rpc)

LEMMA CallIsBounded ==
    ASSUME NEW call \in Calls
    PROVE  /\ Attempts \in 1..5 /\ RequestsLeft(call) \in 0..(2 * Attempts)
           /\ call.phase \in {"ready", "waiting"} => RequestsLeft(call) > 0
BY AttemptsAssumption DEF Calls, CallPhases, RequestsLeft

LEMMA SelectionIsBounded ==
    ASSUME NEW s \in Selections, NEW call \in Calls
    PROVE  /\ StepsLeft(s, call) \in 0..(4 * Attempts + 7)
           /\ s.phase \notin {"none", "over"} => StepsLeft(s, call) > 0
<1>1. Attempts \in 1..5 /\ RequestsLeft(call) \in 0..(2 * Attempts)
    BY CallIsBounded
<1>2. s.phase \in Phases
    BY DEF Selections
<1> QED BY <1>1, <1>2 DEF StepsLeft, Phases

LEMMA IssuedFact ==
    ASSUME NEW method \in Methods, Issue(method)
    PROVE  rpc' \in Calls /\ rpc'.phase = "ready" /\ RequestsLeft(rpc') = 2 * Attempts
BY AttemptsAssumption DEF Issue, Calls, CallPhases, RequestsLeft

LEMMA QuietFact == Quiet \in Calls /\ Quiet.phase = "quiet" /\ RequestsLeft(Quiet) = 0
BY AttemptsAssumption DEF Quiet, Calls, CallPhases, Methods, RequestsLeft

\* A step of the call brings its end nearer.
LEMMA CallAdvances ==
    ASSUME rpc \in Calls, RpcStep
    PROVE  /\ rpc' \in Calls /\ rpc.phase \in {"ready", "waiting"} /\ rpc'.phase # "quiet"
           /\ RequestsLeft(rpc') < RequestsLeft(rpc)
<1>1. Attempts \in 1..5 /\ rpc.attempt \in 0..(Attempts - 1) /\ rpc.method \in Methods
    BY AttemptsAssumption DEF Calls
<1>2. CASE Post
    <2>1. rpc'.phase = "waiting" /\ rpc'.attempt = rpc.attempt /\ rpc.phase = "ready" /\ rpc' \in Calls
        BY <1>2 DEF Post, Calls, CallPhases
    <2> QED BY <1>1, <2>1 DEF RequestsLeft
<1>3. CASE Refuse \/ Answer
    <2>1. rpc'.phase \in {"failed", "answered"} /\ rpc.phase = "waiting" /\ rpc' \in Calls
        BY <1>3 DEF Refuse, Answer, Calls, CallPhases
    <2> QED BY <1>1, <2>1 DEF RequestsLeft
<1>4. CASE Busy
    <2>1. CASE rpc.attempt + 1 < Attempts
        <3>1. PICK n : n = rpc.attempt + 1
            OBVIOUS
        <3>2. rpc.phase = "waiting" /\ rpc' = [rpc EXCEPT !.phase = "ready", !.attempt = n]
            BY <1>4, <2>1, <3>1 DEF Busy
        <3>3. n \in 0..(Attempts - 1)
            BY <1>1, <2>1, <3>1
        <3>4. rpc'.phase = "ready" /\ rpc'.attempt = n /\ rpc' \in Calls
            BY <3>2, <3>3 DEF Calls, CallPhases
        <3> QED BY <1>1, <3>1, <3>2, <3>4 DEF RequestsLeft
    <2>2. CASE ~(rpc.attempt + 1 < Attempts)
        <3>1. rpc'.phase = "failed" /\ rpc.phase = "waiting" /\ rpc' \in Calls
            BY <1>1, <1>4, <2>2 DEF Busy, Calls, CallPhases
        <3> QED BY <1>1, <3>1 DEF RequestsLeft
    <2> QED BY <2>1, <2>2
<1> QED BY <1>2, <1>3, <1>4 DEF RpcStep

\* What a step of the selection does to its phase and its call: it is over, it is
\* at the next candidate, or it is further with this one.
Ended == sel'.phase = "over" /\ sel'.count = sel.count /\ UNCHANGED rpc
Shrunk == SmallerBatch /\ UNCHANGED rpc
Moved == sel'.count = sel.count /\ \/ sel.phase = "probe" /\ sel'.phase = "slot" /\ Issue("getSlot")
                                   \/ sel.phase = "execute" /\ sel'.phase = "simulate" /\ Issue("simulateTransaction")
                                   \/ /\ UNCHANGED rpc
                                      /\ \/ sel.phase = "slot" /\ sel'.phase = "execute"
                                         \/ sel.phase \in {"simulate", "execute"} /\ sel'.phase = "finish"
                                         \/ sel.phase = "finish" /\ sel'.phase = "record"
                                         \/ sel.phase = "record" /\ sel'.phase = "judge"
Called == UNCHANGED sel /\ RpcStep
Working == sel.phase \notin {"none", "over"}
Quiescent == rpc.phase \notin {"ready", "waiting"}

LEMMA StopEnds ==
    ASSUME sel \in Selections, Stop, UNCHANGED rpc
    PROVE  Ended
BY DEF Stop, Selections, Ended

LEMMA NextEndsOrShrinks ==
    ASSUME SelInv, NextCandidate, UNCHANGED rpc
    PROVE  Ended \/ Shrunk
<1>1. sel \in Selections
    BY DEF SelInv, SelTypes
<1>2. CASE Smaller = {}
    BY <1>1, <1>2, StopEnds DEF NextCandidate
<1>3. CASE Smaller # {}
    <2>1. Smaller \in SUBSET EligibleCounts
        BY DEF Smaller
    <2> DEFINE next == Largest(Smaller)
    <2>2. next \in Smaller
        BY <1>3, <2>1, LargestFound
    <2>3. sel' = [sel EXCEPT !.phase = "probe", !.count = next]
        BY <1>3 DEF NextCandidate
    <2> HIDE DEF next
    <2>4. next < sel.count
        BY <2>2 DEF Smaller
    <2>5. sel'.count = next /\ sel'.phase = "probe"
        BY <1>1, <2>3 DEF Selections
    <2> QED BY <2>4, <2>5 DEF Shrunk, SmallerBatch
<1> QED BY <1>2, <1>3

LEMMA SelStepShape ==
    ASSUME SelInv, CallInv, SelStep
    PROVE  Called \/ (Working /\ Quiescent /\ (Ended \/ Shrunk \/ Moved))
<1>1. sel \in Selections
    BY DEF SelInv, SelTypes
<1>2. ASSUME NEW o \in Options, Probe(o)
      PROVE  Working /\ (Ended \/ Shrunk \/ Moved)
    <2>1. Working /\ sel.phase = "probe"
        BY <1>2 DEF Probe, Working
    <2>2. CASE ~o.supported
        BY <1>1, <1>2, <2>1, <2>2, StopEnds DEF Probe
    <2>3. CASE o.supported /\ ~o.wellFormed
        BY <1>2, <2>1, <2>3, NextEndsOrShrinks DEF Probe
    <2>4. CASE o.supported /\ o.wellFormed
        <3>1. sel' = [sel EXCEPT !.phase = "slot", !.option = o] /\ Issue("getSlot")
            BY <1>2, <2>4 DEF Probe
        <3>2. sel'.phase = "slot" /\ sel'.count = sel.count
            BY <1>1, <3>1 DEF Selections
        <3> QED BY <2>1, <3>1, <3>2 DEF Moved
    <2> QED BY <2>2, <2>3, <2>4
<1>3. ASSUME SlotRead
      PROVE  Working /\ (Ended \/ Shrunk \/ Moved)
    <2>1. Working /\ sel.phase = "slot" /\ UNCHANGED rpc
        BY <1>3 DEF SlotRead, Working
    <2>2. CASE Stop
        BY <1>1, <2>1, <2>2, StopEnds
    <2>3. CASE sel' = [sel EXCEPT !.phase = "execute", !.owed = sel.option.control]
        <3>1. sel'.phase = "execute" /\ sel'.count = sel.count
            BY <1>1, <2>3 DEF Selections
        <3> QED BY <2>1, <3>1 DEF Moved
    <2> QED BY <1>3, <2>2, <2>3 DEF SlotRead
<1>4. ASSUME NEW binds \in BOOLEAN, NEW granted \in BOOLEAN, Execute(binds, granted)
      PROVE  Working /\ (Ended \/ Shrunk \/ Moved)
    <2>1. sel.phase = "execute" /\ Working
        BY <1>4 DEF Execute, Working
    <2>2. CASE UNCHANGED rpc /\ \E t : sel' = [sel EXCEPT !.phase = "finish", !.trial = t]
        <3>1. sel'.phase = "finish" /\ sel'.count = sel.count
            BY <1>1, <2>2 DEF Selections
        <3> QED BY <2>1, <2>2, <3>1 DEF Moved
    <2>3. CASE sel' = [sel EXCEPT !.phase = "simulate"] /\ Issue("simulateTransaction")
        <3>1. sel'.phase = "simulate" /\ sel'.count = sel.count
            BY <1>1, <2>3 DEF Selections
        <3> QED BY <2>1, <2>3, <3>1 DEF Moved
    <2>4. CASE ~binds
        BY <1>4, <2>2, <2>4 DEF Execute
    <2>5. CASE binds /\ UsePrediction(sel.option) /\ granted /\ ~sel.option.control
        BY <1>4, <2>2, <2>5 DEF Execute
    <2>6. CASE binds /\ ~(UsePrediction(sel.option) /\ granted /\ ~sel.option.control)
        BY <1>4, <2>3, <2>6 DEF Execute
    <2> QED BY <2>4, <2>5, <2>6
<1>5. ASSUME Simulated
      PROVE  Working /\ (Ended \/ Shrunk \/ Moved)
    <2>1. sel.phase = "simulate" /\ Working /\ UNCHANGED rpc
        BY <1>5 DEF Simulated, Working
    <2>2. \E t : sel' = [sel EXCEPT !.phase = "finish", !.trial = t]
        BY <1>5, Zenon DEF Simulated
    <2>3. sel'.phase = "finish" /\ sel'.count = sel.count
        BY <1>1, <2>2 DEF Selections
    <2> QED BY <2>1, <2>3 DEF Moved
<1>6. ASSUME Finish \/ Record
      PROVE  Working /\ (Ended \/ Shrunk \/ Moved)
    <2>1. /\ Working /\ UNCHANGED rpc /\ sel'.count = sel.count
          /\ \/ sel.phase = "finish" /\ sel'.phase = "record"
             \/ sel.phase = "record" /\ sel'.phase = "judge"
        BY <1>1, <1>6 DEF Finish, Record, Working, Selections
    <2> QED BY <2>1 DEF Moved
<1>7. ASSUME Judge
      PROVE  Working /\ (Ended \/ Shrunk \/ Moved)
    <2>1. Working /\ UNCHANGED rpc /\ sel.phase = "judge"
        BY <1>7 DEF Judge, Working
    <2>2. CASE Stop
        BY <1>1, <2>1, <2>2, StopEnds
    <2>3. CASE NextCandidate
        BY <2>1, <2>3, NextEndsOrShrinks
    <2>4. CASE sel' = [sel EXCEPT !.phase = "over", !.status = "selected"]
        <3>1. sel'.phase = "over" /\ sel'.count = sel.count
            BY <1>1, <2>4 DEF Selections
        <3> QED BY <2>1, <3>1 DEF Ended
    <2> QED BY <1>7, <2>1, <2>2, <2>3, <2>4 DEF Judge
<1>8. CASE RpcStep /\ UNCHANGED selVars
    BY <1>8 DEF Called, selVars
<1>9. SlotRead \/ Simulated => Quiescent
    BY DEF SlotRead, Simulated, Quiescent
<1>10. sel.phase \notin {"slot", "simulate"} => Quiescent
    BY DEF CallInv, CallOwned, Quiescent
<1>11. ASSUME NEW o \in Options, Probe(o)
       PROVE  Quiescent
    BY <1>10, <1>11 DEF Probe
<1>12. ASSUME NEW binds \in BOOLEAN, NEW granted \in BOOLEAN, Execute(binds, granted)
       PROVE  Quiescent
    BY <1>10, <1>12 DEF Execute
<1>13. Finish \/ Record \/ Judge => Quiescent
    BY <1>10 DEF Finish, Record, Judge
<1> QED BY <1>2, <1>3, <1>4, <1>5, <1>6, <1>7, <1>8, <1>9, <1>11, <1>12, <1>13 DEF SelStep

\* Such a step keeps the call with the selection and brings the end nearer.
LEMMA SelStepAdvances ==
    ASSUME SelInv, SelInv', CallInv, SelStep, UNCHANGED serverVars
    PROVE  CallInv' /\ (SmallerBatch \/ Closer)
<1>1. /\ sel \in Selections /\ sel' \in Selections /\ rpc \in Calls /\ Attempts \in 1..5
      /\ RequestsLeft(rpc) \in 0..(2 * Attempts)
    BY CallIsBounded, AttemptsAssumption DEF SelInv, SelTypes, CallInv
<1>2. ASSUME sel.phase # "none"
      PROVE  SelOwned'
    <2>1. PICK h \in Handlers : Selects(h)
        BY <1>2 DEF CallInv, SelOwned
    <2>2. Selects(h)'
        BY <2>1 DEF Selects, serverVars
    <2> QED BY <2>2 DEF SelOwned
<1>3. CASE Called
    <2>1. /\ rpc' \in Calls /\ rpc.phase \in {"ready", "waiting"} /\ rpc'.phase # "quiet"
          /\ RequestsLeft(rpc') < RequestsLeft(rpc) /\ UNCHANGED sel
        BY <1>1, <1>3, CallAdvances DEF Called
    <2>2. sel.phase \in {"slot", "simulate"}
        BY <2>1 DEF CallInv, CallOwned
    <2>3. RequestsLeft(rpc') \in 0..(2 * Attempts)
        BY <2>1, CallIsBounded
    <2>4. CallInv'
        BY <1>2, <2>1, <2>2 DEF CallInv, CallOwned, CallMade
    <2>5. StepsLeft(sel', rpc') < StepsLeft(sel, rpc)
        BY <1>1, <2>1, <2>2, <2>3 DEF StepsLeft
    <2> QED BY <2>1, <2>4, <2>5 DEF Closer
<1>4. CASE Working /\ Quiescent /\ Ended
    <2>1. StepsLeft(sel', rpc') = 0 /\ StepsLeft(sel, rpc) > 0 /\ StepsLeft(sel, rpc) \in Nat
        BY <1>1, <1>4, SelectionIsBounded DEF Working, Ended, StepsLeft
    <2>2. CallInv'
        BY <1>1, <1>2, <1>4 DEF Working, Quiescent, Ended, CallInv, CallOwned, CallMade
    <2> QED BY <1>4, <2>1, <2>2 DEF Ended, Closer
<1>5. CASE Working /\ Quiescent /\ Shrunk
    <2>1. CallInv'
        BY <1>1, <1>2, <1>5 DEF Working, Quiescent, Shrunk, SmallerBatch, CallInv, CallOwned, CallMade
    <2> QED BY <1>5, <2>1 DEF Shrunk
<1>6. CASE Working /\ Quiescent /\ Moved
    <2>1. CASE sel.phase = "probe" /\ sel'.phase = "slot" /\ Issue("getSlot")
        <3>1. rpc' \in Calls /\ rpc'.phase = "ready" /\ RequestsLeft(rpc') = 2 * Attempts
            BY <2>1, IssuedFact DEF Methods
        <3>2. StepsLeft(sel', rpc') < StepsLeft(sel, rpc)
            BY <1>1, <2>1, <3>1 DEF StepsLeft
        <3>3. CallInv'
            BY <1>2, <2>1, <3>1 DEF CallInv, CallOwned, CallMade
        <3> QED BY <1>6, <3>2, <3>3 DEF Moved, Closer
    <2>2. CASE sel.phase = "execute" /\ sel'.phase = "simulate" /\ Issue("simulateTransaction")
        <3>1. rpc' \in Calls /\ rpc'.phase = "ready" /\ RequestsLeft(rpc') = 2 * Attempts
            BY <2>2, IssuedFact DEF Methods
        <3>2. StepsLeft(sel', rpc') < StepsLeft(sel, rpc)
            BY <1>1, <2>2, <3>1 DEF StepsLeft
        <3>3. CallInv'
            BY <1>2, <2>2, <3>1 DEF CallInv, CallOwned, CallMade
        <3> QED BY <1>6, <3>2, <3>3 DEF Moved, Closer
    <2>3. CASE /\ UNCHANGED rpc
               /\ \/ sel.phase = "slot" /\ sel'.phase = "execute"
                  \/ sel.phase \in {"simulate", "execute"} /\ sel'.phase = "finish"
                  \/ sel.phase = "finish" /\ sel'.phase = "record"
                  \/ sel.phase = "record" /\ sel'.phase = "judge"
        <3>1. StepsLeft(sel', rpc') < StepsLeft(sel, rpc)
            BY <1>1, <2>3 DEF StepsLeft
        <3>2. CallInv'
            BY <1>1, <1>2, <1>6, <2>3 DEF Quiescent, CallInv, CallOwned, CallMade
        <3> QED BY <1>6, <3>1, <3>2 DEF Moved, Closer
    <2> QED BY <1>6, <2>1, <2>2, <2>3 DEF Moved
<1> QED BY <1>3, <1>4, <1>5, <1>6, SelStepShape

\* With no selection there is no call, and any thread may be anywhere.
LEMMA IdleCall ==
    ASSUME rpc' \in Calls, sel'.phase = "none", rpc'.phase \notin {"ready", "waiting"}
    PROVE  CallInv'
BY DEF CallInv, SelOwned, CallOwned, CallMade

\* The thread that selects goes on selecting when another one steps.
LEMMA OwnerStays ==
    ASSUME CallInv, UNCHANGED <<rpc, selVars>>, \A h \in Handlers : Selects(h) => Selects(h)'
    PROVE  CallInv'
<1>1. SelOwned'
    BY DEF CallInv, SelOwned, selVars
<1> QED BY <1>1 DEF CallInv, CallOwned, CallMade, selVars

\* A thread begins the selection of its own step.
LEMMA BeginOwns ==
    ASSUME NEW h \in Handlers, Begin, Selects(h)'
    PROVE  CallInv'
<1>1. sel'.phase = "probe" /\ rpc' = Quiet
    BY SomeSelections DEF Begin, NoSelection
<1>2. SelOwned'
    BY DEF SelOwned
<1> QED BY <1>1, <1>2, QuietFact DEF CallInv, CallOwned, CallMade

\* A thread at the start of its step is the only one inside, so nothing is being
\* selected; one that has selected drops a selection that is over.
LEMMA EndDrops ==
    ASSUME ServerInv, CallInv, NEW h \in Handlers, UNCHANGED rpc, sel' = NoSelection,
           \/ handler[h] = "step" \/ worker[h].at = "step"
           \/ sel.phase = "over"
    PROVE  CallInv'
<1>1. CASE sel.phase = "over"
    BY <1>1, IdleCall, SomeSelections DEF CallInv, CallOwned
<1>2. CASE handler[h] = "step" \/ worker[h].at = "step"
    <2>1. ~\E x \in Handlers : Selects(x)
        BY <1>2 DEF ServerInv, OneHolder, Engaged, Alive, Selects
    <2>2. sel.phase = "none"
        BY <2>1 DEF CallInv, SelOwned
    <2> QED BY <2>2, IdleCall, SomeSelections DEF CallInv, CallOwned
<1> QED BY <1>1, <1>2

\* The threads of the service keep the call with its selection.
LEMMA ThreadsKeepCall ==
    ASSUME ServerInv, CallInv, NEW h \in Handlers,
           StartRequest(h) \/ StopRequest(h) \/ StepRequest(h) \/ HandlerWorks(h) \/ WorkerWorks(h)
    PROVE  CallInv'
<1>1. handler \in [Handlers -> {"idle", "start", "step", "select", "close"}]
      /\ worker \in [Handlers -> [at : {"none", "check", "step", "select", "close"}, steps : Nat]]
    BY DEF ServerInv, PlacesOK
<1>2. ASSUME NEW place, handler' = [handler EXCEPT ![h] = place], worker' = worker,
             handler[h] # "select"
      PROVE  \A x \in Handlers : Selects(x) => Selects(x)'
    BY <1>1, <1>2 DEF Selects
<1>3. ASSUME NEW it, worker' = [worker EXCEPT ![h] = it], handler' = handler,
             worker[h].at # "select"
      PROVE  \A x \in Handlers : Selects(x) => Selects(x)'
    BY <1>1, <1>3 DEF Selects
<1>4. CASE StartRequest(h) \/ StopRequest(h) \/ StepRequest(h)
    <2>1. /\ UNCHANGED <<rpc, selVars>>
          /\ worker' = worker
          /\ \/ handler' = handler
             \/ handler[h] = "idle" /\ \E place : handler' = [handler EXCEPT ![h] = place]
        BY <1>4 DEF StartRequest, StopRequest, StepRequest, Claim, Move, Planning
    <2>2. \A x \in Handlers : Selects(x) => Selects(x)'
        BY <1>2, <2>1 DEF Selects
    <2> QED BY <2>1, <2>2, OwnerStays
<1>5. CASE Spawn(h)
    <2>1. /\ UNCHANGED <<rpc, selVars>> /\ handler[h] = "start"
          /\ handler' = [handler EXCEPT ![h] = "idle"]
          /\ worker' = [worker EXCEPT ![h] = [at |-> "check", steps |-> 0]]
        BY <1>5 DEF Spawn, Move, Planning
    <2>2. worker[h].at # "select"
        BY <2>1 DEF ServerInv, OneHolder, Engaged, Alive
    <2>3. \A x \in Handlers : Selects(x) => Selects(x)'
        BY <1>1, <2>1, <2>2 DEF Selects
    <2> QED BY <2>1, <2>3, OwnerStays
<1>6. CASE HandlerPlans(h)
    <2>1. handler'[h] = "select" /\ Begin
        BY <1>1, <1>6 DEF HandlerPlans, Move
    <2> QED BY <2>1, BeginOwns DEF Selects
<1>7. CASE HandlerEnds(h)
    BY <1>7, EndDrops DEF HandlerEnds
<1>8. CASE HandlerCloses(h)
    <2>1. /\ UNCHANGED <<rpc, selVars>> /\ handler[h] = "close" /\ worker' = worker
          /\ handler' = [handler EXCEPT ![h] = "idle"]
        BY <1>8 DEF HandlerCloses, Move, Planning
    <2> QED BY <1>2, <2>1, OwnerStays
<1>9. CASE WorkerChecks(h)
    <2>1. /\ UNCHANGED <<rpc, selVars>> /\ worker[h].at = "check" /\ handler' = handler
          /\ \E it : worker' = [worker EXCEPT ![h] = it]
        BY <1>9 DEF WorkerChecks, Go, Planning
    <2> QED BY <1>3, <2>1, OwnerStays
<1>10. CASE WorkerPlans(h)
    <2>1. worker'[h].at = "select" /\ Begin
        BY <1>1, <1>10 DEF WorkerPlans, Go
    <2> QED BY <2>1, BeginOwns DEF Selects
<1>11. CASE WorkerCloses(h)
    <2>1. /\ UNCHANGED <<rpc, selVars>> /\ worker[h].at = "close" /\ handler' = handler
          /\ worker' = [worker EXCEPT ![h] = Absent]
        BY <1>11 DEF WorkerCloses, Planning
    <2> QED BY <1>3, <2>1, OwnerStays
<1>12. ASSUME NEW outcome \in Outcomes, WorkerEnds(h, outcome)
       PROVE  CallInv'
    BY <1>12, EndDrops DEF WorkerEnds, Ends
<1> QED BY <1>4, <1>5, <1>6, <1>7, <1>8, <1>9, <1>10, <1>11, <1>12 DEF HandlerWorks, WorkerWorks

LEMMA CallNextInv ==
    ASSUME ServerInv, SelInv, SelInv', CallInv, [ServerNext]_<<serverVars, rpc, selVars>>
    PROVE  CallInv'
<1>1. CASE Restart
    <2>1. rpc' = Quiet /\ sel' = NoSelection
        BY <1>1 DEF Restart
    <2> QED BY <2>1, QuietFact, SomeSelections, IdleCall
<1>2. CASE Selecting
    BY <1>2, SelStepAdvances DEF Selecting
<1>3. CASE UNCHANGED <<serverVars, rpc, selVars>>
    <2>1. \A h \in Handlers : Selects(h) => Selects(h)'
        BY <1>3 DEF Selects, serverVars
    <2> QED BY <1>3, <2>1, OwnerStays
<1> QED BY <1>1, <1>2, <1>3, ThreadsKeepCall DEF ServerNext

LEMMA CallInvariance == ServerSpec => []CallInv
<1>1. ServerInit => CallInv
    <2> SUFFICES ASSUME ServerInit PROVE CallInv
        OBVIOUS
    <2>1. rpc = Quiet /\ sel.phase = "none"
        BY SomeSelections DEF ServerInit, RpcInit, SelInit
    <2> QED BY <2>1, QuietFact DEF CallInv, SelOwned, CallOwned, CallMade
<1> QED BY <1>1, CallNextInv, SelInvariance, ServerInvariance, PTL DEF ServerSpec

\* Every step of a selection (AdaptiveSelection.SelStep, whatever the node answers
\* and however the plans, the grants and the draws fall) goes on to a smaller batch
\* of the menu or comes nearer to the decision about this one, which is at most
\* 4 * Attempts + 7 steps away: a selection cannot go round in circles.  It is the
\* safety half of RunsEnd; that some step is taken is fairness, and left to TLC.
SelectionAdvances ==
    [][/\ StepsLeft(sel, rpc) \in 0..(4 * Attempts + 7)
       /\ sel.phase # "none" => sel.count \in EligibleCounts
       /\ Selecting => SmallerBatch \/ Closer]_<<serverVars, rpc, selVars>>

\* For any handlers, menu, caps and measurements.
THEOREM SelectionAdvancesCorrect == ServerSpec => SelectionAdvances
<1>1. ASSUME SelInv, SelInv', CallInv
      PROVE  /\ StepsLeft(sel, rpc) \in 0..(4 * Attempts + 7)
             /\ sel.phase # "none" => sel.count \in EligibleCounts
             /\ Selecting => SmallerBatch \/ Closer
    <2>1. StepsLeft(sel, rpc) \in 0..(4 * Attempts + 7)
        BY <1>1, SelectionIsBounded DEF SelInv, SelTypes, CallInv
    <2>2. sel.phase # "none" => sel.count \in EligibleCounts
        BY <1>1 DEF SelInv, PhasesOK
    <2>3. Selecting => SmallerBatch \/ Closer
        BY <1>1, SelStepAdvances DEF Selecting
    <2> QED BY <2>1, <2>2, <2>3
<1> QED BY <1>1, SelInvariance, CallInvariance, PTL DEF ServerSpec, SelectionAdvances

-----------------------------------------------------------------------------
(* PayoutCollection: a training row's label was measured in the state the  *)
(* row describes, for any number of overlapping runs.  Two facts meet in   *)
(* the middle: an observation without a label bounds the accounts open in  *)
(* the batch from above, because nobody goes on to the next one, and a run *)
(* that works on it bounds them from below, because it opened them.  Both  *)
(* speak of the queue while its cursor is at Base.  Runs that pay twice    *)
(* move it on, and then nothing is snapshotted or measured any more.       *)

Paying == {"step", "plan", "sign", "sent", "check"}
Opening == {"look", "open"}
Placed == {"snapshot", "ingest", "freeze", "execute", "finish"}
Places == {"idle", "create", "book", "read", "ended"} \cup Paying \cup Opening \cup Placed
Cursors == 0..(Count + 1)
Accounts == SUBSET (0..Count)
Inputs == [cursor : {-1} \cup Cursors, accounts : Accounts]
LabelRecords == [found : BOOLEAN, measured : BOOLEAN, cursor : {-1} \cup Cursors,
                 accounts : Accounts]
ChainStates == [created : BOOLEAN, cursor : Cursors, accounts : Accounts, warmed : BOOLEAN]
RecordStates == [input : Inputs, planned : BOOLEAN, label : LabelRecords]
Payments == [cursor : Cursors,
             phase : {"none", "planned", "signed", "paid", "refused", "settled"}]
RunStates == [at : Places, cursor : Cursors, existing : Records, found : BOOLEAN,
              input : Inputs, label : LabelRecords]

CollectionTypeOK ==
    /\ scheduled \in BOOLEAN
    /\ chain \in ChainStates
    /\ record \in [Records -> RecordStates]
    /\ payment \in [Runs -> Payments]
    /\ run \in [Runs -> RunStates]

Frozen(e) == record[e].input # NoInput
Labelled(e) == record[e].label # NoLabel

\* The accounts that an observation's state has, and those of the whole batch.
OpenedFor(e) == Base..(Base + e - 1)
WholeBatch == Base..(Base + Count - 1)

\* As long as only the payment made first has been made, the accounts open in the
\* batch reach no further than any observation without a label.
Bounded == chain.cursor <= Base =>
               \A e \in Records : Labelled(e) \/ chain.accounts \cap WholeBatch \subseteq OpenedFor(e)

\* Only a queue that starts with a payment pays, and never beyond its end.
PaysIfWarmed == /\ chain.cursor > 0 => chain.warmed
                /\ \A p \in Runs : payment[p].phase # "none" => chain.warmed /\ payment[p].cursor <= Count

\* A frozen input is the state its observation names, and a measured label is of
\* the same.
RecordOK(e) ==
    /\ Frozen(e) => /\ record[e].input.cursor = Base
                    /\ record[e].input.accounts = OpenedFor(e)
                    /\ OpenedFor(e) \subseteq chain.accounts
    /\ Labelled(e) => Frozen(e)
    /\ Labelled(e) /\ record[e].label.measured =>
          record[e].label.cursor = Base /\ record[e].label.accounts = OpenedFor(e)

\* A state that a run holds is that of its observation, unless it has come too late.
Held(state, e) == /\ state.cursor = Base
                  /\ Labelled(e) \/ state.accounts = OpenedFor(e)

\* What a run knows about the observation it works on.  A run that works with
\* another cursor than Base finds the chain beyond it.
Knows(it) ==
    /\ chain.cursor >= Base
    /\ it.cursor = Base \/ chain.cursor > Base
    /\ \A x \in Records : x < it.existing => Labelled(x)
    /\ it.at = "open" => it.existing > 0
    /\ it.at \in Placed /\ it.cursor = Base => OpenedFor(it.existing) \subseteq chain.accounts
    /\ it.at \in {"open", "snapshot"} /\ it.found => Frozen(it.existing)
    /\ it.at \in {"freeze", "execute", "finish"} => Frozen(it.existing)
    /\ it.at = "ingest" => it.cursor = Base /\ Held(it.input, it.existing)
    /\ it.at = "finish" => it.label.found /\ (it.label.measured => Held(it.label, it.existing))

RunOK(r) ==
    /\ run[r].at \notin Opening \cup Placed => run[r].existing = 0
    /\ run[r].at \in Paying => chain.warmed
    /\ run[r].at = "sign" => payment[r].phase # "none"
    /\ run[r].at \in Opening \cup Placed => Knows(run[r])

CollectionInv ==
    /\ CollectionTypeOK
    /\ PaysIfWarmed
    /\ Bounded
    /\ \A e \in Records : RecordOK(e)
    /\ \A r \in Runs : RunOK(r)

\* What every step does to the chain, the observations and the payments: the cursor
\* moves on, accounts are opened, inputs frozen, labels stored and rows of payments
\* written, and none of it is taken back.
Grows ==
    /\ chain'.warmed = chain.warmed
    /\ chain.cursor <= chain'.cursor
    /\ chain.accounts \subseteq chain'.accounts
    /\ \A e \in Records : /\ Frozen(e) => Frozen(e)'
                          /\ Labelled(e) => Labelled(e)'
    /\ \A p \in Runs : payment[p].phase # "none" => payment'[p].phase # "none"

LEMMA BaseFact ==
    /\ Base \in {0, 1} /\ Count \in 1..8 /\ QueueEnd = Base + Count
    /\ \A e \in Records : e \in 0..Count
  BY CountAssumption DEF Base, QueueEnd, Records

\* So a run that is not stepping knows what it knew.
LEMMA KnowsKeeps ==
    ASSUME CollectionTypeOK, chain' \in ChainStates, Grows, NEW it \in RunStates, Knows(it)
    PROVE  Knows(it)'
  <1>1. Base' = Base /\ Base \in Int
    BY DEF Grows, Base
  <1>2. it.existing \in Records /\ it.cursor \in Int
    BY DEF RunStates, Cursors
  <1>3. chain.cursor \in Int /\ chain'.cursor \in Int /\ chain.cursor <= chain'.cursor
    BY DEF Grows, CollectionTypeOK, ChainStates, Cursors
  <1>4. Labelled(it.existing) => Labelled(it.existing)'
    BY <1>2 DEF Grows
  <1>5. /\ Held(it.input, it.existing) => Held(it.input, it.existing)'
        /\ Held(it.label, it.existing) => Held(it.label, it.existing)'
    BY <1>1, <1>4 DEF Held, OpenedFor
  <1>6. Frozen(it.existing) => Frozen(it.existing)'
    BY <1>2 DEF Grows
  <1>7. \A x \in Records : Labelled(x) => Labelled(x)'
    BY DEF Grows
  <1>8. /\ chain'.cursor >= Base'
        /\ it.cursor = Base' \/ chain'.cursor > Base'
    BY <1>1, <1>2, <1>3 DEF Knows
  <1>9. it.at \in Placed /\ it.cursor = Base' => OpenedFor(it.existing)' \subseteq chain'.accounts
    BY <1>1 DEF Knows, OpenedFor, Grows
  <1>10. QED
    BY <1>1, <1>5, <1>6, <1>7, <1>8, <1>9 DEF Knows

LEMMA OthersKeep ==
    ASSUME CollectionTypeOK, chain' \in ChainStates, Grows, NEW x \in Runs, RunOK(x), run'[x] = run[x]
    PROVE  RunOK(x)'
  <1>1. PICK it \in RunStates : it = run[x]
    BY DEF CollectionTypeOK
  <1>2. run'[x] = it /\ chain'.warmed = chain.warmed
    BY <1>1 DEF Grows
  <1>3. it.at \in Opening \cup Placed => Knows(it)
    BY <1>1 DEF RunOK, Knows
  <1>4. it.at \in Opening \cup Placed => Knows(it)'
    BY <1>3, KnowsKeeps
  <1>5. it.at \in Opening \cup Placed => Knows(run[x])'
    BY <1>2, <1>4 DEF Knows
  <1>6. payment[x].phase # "none" => payment'[x].phase # "none"
    BY DEF Grows
  <1>7. QED
    BY <1>1, <1>2, <1>5, <1>6 DEF RunOK

\* A step of one run, or of the chain.
LEMMA StepKeeps ==
    ASSUME CollectionInv, NEW r \in Runs, NEW it \in RunStates, run' = [run EXCEPT ![r] = it],
           Grows, scheduled' \in BOOLEAN, chain' \in ChainStates, record' \in [Records -> RecordStates],
           payment' \in [Runs -> Payments],
           PaysIfWarmed', Bounded', \A e \in Records : RecordOK(e)', RunOK(r)'
    PROVE  CollectionInv'
  <1>1. run' \in [Runs -> RunStates] /\ \A x \in Runs : x # r => run'[x] = run[x]
    BY DEF CollectionInv, CollectionTypeOK
  <1>2. CollectionTypeOK /\ \A x \in Runs : RunOK(x)
    BY DEF CollectionInv
  <1>3. ASSUME NEW x \in Runs, x # r PROVE RunOK(x)'
    BY <1>1, <1>2, <1>3, OthersKeep
  <1>4. \A x \in Runs : RunOK(x)'
    BY <1>3
  <1>5. CollectionTypeOK'
    BY <1>1 DEF CollectionTypeOK
  <1>6. QED
    BY <1>4, <1>5 DEF CollectionInv

\* Observations that no step touches stay right.
LEMMA RecordKeeps ==
    ASSUME Grows, NEW e \in Records, RecordOK(e), record'[e] = record[e]
    PROVE  RecordOK(e)'
  <1>1. Base' = Base
    BY DEF Grows, Base
  <1>2. OpenedFor(e)' = OpenedFor(e)
    BY <1>1 DEF OpenedFor
  <1>3. QED
    BY <1>1, <1>2 DEF RecordOK, Frozen, Labelled, Grows

LEMMA BoundedKeeps ==
    ASSUME Bounded, Grows, chain'.cursor = chain.cursor, chain'.accounts = chain.accounts
    PROVE  Bounded'
  <1>1. Base' = Base
    BY DEF Grows, Base
  <1>2. WholeBatch' = WholeBatch
    BY <1>1 DEF WholeBatch
  <1>3. \A e : OpenedFor(e)' = OpenedFor(e)
    BY <1>1 DEF OpenedFor
  <1>4. \A e \in Records : Labelled(e) => Labelled(e)'
    BY DEF Grows
  <1>5. QED
    BY <1>1, <1>2, <1>3, <1>4 DEF Bounded

\* A step that leaves the chain and the observations alone.
LEMMA QuietStep ==
    ASSUME CollectionInv, NEW r \in Runs, NEW it \in RunStates, run' = [run EXCEPT ![r] = it],
           UNCHANGED <<chain, record>>, scheduled' \in BOOLEAN, payment' \in [Runs -> Payments],
           \A p \in Runs : payment[p].phase # "none" => payment'[p].phase # "none",
           \A p \in Runs : payment'[p].phase # "none" => chain.warmed /\ payment'[p].cursor <= Count,
           RunOK(r)'
    PROVE  CollectionInv'
  <1>1. Grows
    <2>1. chain.cursor \in Int
      BY DEF CollectionInv, CollectionTypeOK, ChainStates, Cursors
    <2>2. QED
      BY <2>1 DEF Grows, Frozen, Labelled
  <1>2. PaysIfWarmed'
    BY DEF PaysIfWarmed, CollectionInv
  <1>3. Bounded'
    BY <1>1, BoundedKeeps DEF CollectionInv
  <1>4. \A e \in Records : RecordOK(e)'
    <2>1. ASSUME NEW e \in Records PROVE RecordOK(e)'
      BY <1>1, RecordKeeps DEF CollectionInv
    <2>2. QED
      BY <2>1
  <1>5. chain' \in ChainStates /\ record' \in [Records -> RecordStates]
    BY DEF CollectionInv, CollectionTypeOK
  <1>6. QED
    BY <1>1, <1>2, <1>3, <1>4, <1>5, StepKeeps

\* A step of a run alone.
LEMMA RunStep ==
    ASSUME CollectionInv, NEW r \in Runs, NEW it \in RunStates, run' = [run EXCEPT ![r] = it],
           UNCHANGED <<chain, record, payment>>, scheduled' \in BOOLEAN, RunOK(r)'
    PROVE  CollectionInv'
  <1>1. /\ payment' \in [Runs -> Payments]
        /\ \A p \in Runs : payment[p].phase # "none" => payment'[p].phase # "none"
        /\ \A p \in Runs : payment'[p].phase # "none" => chain.warmed /\ payment'[p].cursor <= Count
    BY DEF CollectionInv, CollectionTypeOK, PaysIfWarmed
  <1>2. QED
    BY <1>1, QuietStep

LEMMA NotRunningType ==
    /\ NoInput \in Inputs /\ NoLabel \in LabelRecords
    /\ NotRunning \in RunStates
    /\ Over \in RunStates /\ Over.at = "ended" /\ Over.existing = 0
  <1>1. 0 \in Records /\ 0 \in Cursors /\ {} \in Accounts
    BY BaseFact DEF Records, Cursors, Accounts
  <1>2. NoInput \in Inputs /\ NoLabel \in LabelRecords
    BY <1>1 DEF NoInput, NoLabel, Inputs, LabelRecords
  <1>3. NotRunning \in RunStates
    BY <1>1, <1>2 DEF NotRunning, RunStates, Places
  <1>4. Over \in RunStates /\ Over.at = "ended" /\ Over.existing = 0
    BY <1>1, <1>2 DEF Over, NotRunning, RunStates, Places
  <1>5. QED
    BY <1>2, <1>3, <1>4

\* A run that ends or dies.
LEMMA DeadFact ==
    ASSUME CollectionTypeOK, NEW r \in Runs, Dies(r)
    PROVE  run' = [run EXCEPT ![r] = Over] /\ RunOK(r)'
  <1>1. run' = [run EXCEPT ![r] = Over] /\ run'[r] = Over
    BY DEF Dies, CollectionTypeOK
  <1>2. QED
    BY <1>1, NotRunningType DEF RunOK, Opening, Placed, Paying

LEMMA DieStep ==
    ASSUME CollectionInv, NEW r \in Runs, Dies(r), UNCHANGED <<chain, record, payment>>,
           scheduled' \in BOOLEAN
    PROVE  CollectionInv'
  <1>1. run' = [run EXCEPT ![r] = Over] /\ RunOK(r)'
    BY DeadFact DEF CollectionInv
  <1>2. QED
    BY <1>1, RunStep, NotRunningType

\* A run that goes to another place.
LEMMA GoesFact ==
    ASSUME CollectionTypeOK, NEW r \in Runs, NEW place \in Places, Goes(r, place)
    PROVE  \E it \in RunStates :
              /\ run' = [run EXCEPT ![r] = it] /\ run'[r] = it
              /\ it.at = place /\ it.cursor = run[r].cursor /\ it.existing = run[r].existing
              /\ it.found = run[r].found /\ it.input = run[r].input /\ it.label = run[r].label
  <1>1. PICK old \in RunStates : old = run[r]
    BY DEF CollectionTypeOK
  <1>2. PICK it : it = [old EXCEPT !.at = place]
    OBVIOUS
  <1>3. it \in RunStates
    BY <1>2 DEF RunStates
  <1>4. /\ it.at = place /\ it.cursor = old.cursor /\ it.existing = old.existing
        /\ it.found = old.found /\ it.input = old.input /\ it.label = old.label
    BY <1>2 DEF RunStates
  <1>5. run' = [run EXCEPT ![r] = it] /\ run'[r] = it
    BY <1>1, <1>2 DEF Goes, CollectionTypeOK
  <1>6. QED
    BY <1>1, <1>3, <1>4, <1>5

\* A run that goes to a place where it neither pays nor works on an observation.
LEMMA PlaceFact ==
    ASSUME CollectionInv, NEW r \in Runs, NEW place \in Places \ (Paying \cup Opening \cup Placed),
           Goes(r, place), run[r].at \notin Opening \cup Placed
    PROVE  RunOK(r)'
  <1>1. CollectionTypeOK /\ place \in Places
    BY DEF CollectionInv
  <1>2. PICK it \in RunStates : run'[r] = it /\ it.at = place /\ it.existing = run[r].existing
    BY <1>1, GoesFact
  <1>3. run[r].existing = 0
    BY DEF CollectionInv, RunOK
  <1>4. QED
    BY <1>2, <1>3 DEF RunOK, Paying

\* Starting and entering the queue in the schedule come before any observation.
LEMMA EarlyStep ==
    ASSUME CollectionInv, NEW r \in Runs, StartRun(r) \/ Book(r)
    PROVE  CollectionInv'
  <1>1. PICK place \in {"create", "read"} : Goes(r, place)
    BY DEF StartRun, Book
  <1>2. UNCHANGED <<chain, record, payment>> /\ scheduled' \in BOOLEAN
    BY DEF StartRun, Book, CollectionInv, CollectionTypeOK
  <1>3. place \in Places /\ place \in Places \ (Paying \cup Opening \cup Placed)
    BY DEF Places, Opening, Placed, Paying
  <1>4. run[r].at \notin Opening \cup Placed
    BY DEF StartRun, Book, Stands, Opening, Placed
  <1>5. RunOK(r)'
    BY <1>1, <1>3, <1>4, PlaceFact
  <1>6. PICK it \in RunStates : run' = [run EXCEPT ![r] = it]
    BY <1>1, <1>3, GoesFact DEF CollectionInv
  <1>7. QED
    BY <1>2, <1>5, <1>6, RunStep

\* Creating the queue opens at most the account paid first, which is outside the batch.
LEMMA CreateStep ==
    ASSUME CollectionInv, NEW r \in Runs, TakeQueue(r)
    PROVE  CollectionInv'
  <1>1. Goes(r, "book") /\ UNCHANGED <<scheduled, record, payment>>
    BY DEF TakeQueue
  <1>2. /\ "book" \in Places /\ "book" \in Places \ (Paying \cup Opening \cup Placed)
        /\ run[r].at \notin Opening \cup Placed
    BY DEF TakeQueue, Stands, Places, Opening, Placed, Paying
  <1>3. chain \in ChainStates /\ Base \in {0, 1} /\ Count \in 1..8
    BY BaseFact DEF CollectionInv, CollectionTypeOK
  <1>4. PICK first : first = 0..(Base - 1)
    OBVIOUS
  <1>5. first \subseteq 0..Count /\ first \cap WholeBatch = {}
    BY <1>3, <1>4 DEF WholeBatch
  <1>6. /\ chain' \in ChainStates /\ chain'.warmed = chain.warmed /\ chain'.cursor = chain.cursor
        /\ chain'.accounts \in {chain.accounts, chain.accounts \cup first}
    BY <1>3, <1>4, <1>5 DEF TakeQueue, ChainStates, Accounts
  <1>7. chain.cursor \in Int /\ Base' = Base /\ WholeBatch' = WholeBatch
    BY <1>3, <1>6 DEF ChainStates, Cursors, Base, WholeBatch
  <1>8. Grows
    BY <1>1, <1>6, <1>7 DEF Grows, Frozen, Labelled
  <1>9. PaysIfWarmed'
    BY <1>1, <1>6 DEF CollectionInv, PaysIfWarmed
  <1>10. Bounded'
    <2>1. chain'.accounts \cap WholeBatch = chain.accounts \cap WholeBatch
      BY <1>5, <1>6
    <2>2. \A e \in Records : OpenedFor(e)' = OpenedFor(e) /\ (Labelled(e) => Labelled(e)')
      BY <1>1, <1>7 DEF OpenedFor, Labelled
    <2>3. QED
      BY <1>6, <1>7, <2>1, <2>2 DEF CollectionInv, Bounded
  <1>11. \A e \in Records : RecordOK(e)'
    <2>1. ASSUME NEW e \in Records PROVE RecordOK(e)'
      BY <1>1, <1>8, RecordKeeps DEF CollectionInv
    <2>2. QED
      BY <2>1
  <1>12. RunOK(r)'
    BY <1>1, <1>2, PlaceFact
  <1>13. PICK it \in RunStates : run' = [run EXCEPT ![r] = it]
    BY <1>1, <1>2, GoesFact DEF CollectionInv
  <1>14. /\ scheduled' \in BOOLEAN /\ record' \in [Records -> RecordStates]
         /\ payment' \in [Runs -> Payments]
    BY <1>1 DEF CollectionInv, CollectionTypeOK
  <1>15. QED
    BY <1>6, <1>8, <1>9, <1>10, <1>11, <1>12, <1>13, <1>14, StepKeeps

\* A run that begins with the observations at a cursor it has read.
LEMMA BeginFact ==
    ASSUME CollectionInv, NEW it \in RunStates, it.at = "look", it.existing = 0,
           chain.cursor >= Base, it.cursor = Base \/ chain.cursor > Base
    PROVE  Knows(it)
  <1>1. \A x \in Records : ~(x < 0)
    BY BaseFact
  <1>2. QED
    BY <1>1 DEF Knows, Placed

LEMMA ReadStep ==
    ASSUME CollectionInv, NEW r \in Runs, ReadCursor(r) \/ CheckCursor(r)
    PROVE  CollectionInv'
  <1>1. /\ UNCHANGED <<scheduled, chain, record, payment>> /\ scheduled' \in BOOLEAN
        /\ run[r].existing = 0
    BY DEF ReadCursor, CheckCursor, Stands, CollectionInv, CollectionTypeOK, RunOK, Opening, Placed
  <1>2. /\ chain.cursor \in Cursors /\ chain.cursor \in Int /\ chain.cursor >= 0
        /\ chain.warmed \in BOOLEAN
    BY BaseFact DEF CollectionInv, CollectionTypeOK, ChainStates, Cursors
  <1>3. PICK old \in RunStates : old = run[r]
    BY DEF CollectionInv, CollectionTypeOK
  <1>4. ASSUME NEW place \in {"look", "step"}, NEW cursor \in Cursors,
               run' = [run EXCEPT ![r].at = place, ![r].cursor = cursor],
               place = "step" => chain.warmed,
               place = "look" => chain.cursor >= Base /\ (cursor = Base \/ chain.cursor > Base)
        PROVE  CollectionInv'
    <2>1. PICK it : it = [old EXCEPT !.at = place, !.cursor = cursor]
      OBVIOUS
    <2>2. it \in RunStates /\ it.at = place /\ it.cursor = cursor /\ it.existing = 0
      BY <1>1, <1>3, <2>1 DEF RunStates, Places, Opening, Paying
    <2>3. run' = [run EXCEPT ![r] = it] /\ run'[r] = it
      BY <1>3, <1>4, <2>1 DEF CollectionInv, CollectionTypeOK
    <2>4. place = "look" => Knows(it)
      BY <1>4, <2>2, BeginFact
    <2>5. place = "look" => Knows(run[r])'
      BY <1>1, <2>3, <2>4 DEF Knows, Base, Labelled, Frozen, Held, OpenedFor
    <2>6. RunOK(r)'
      BY <1>1, <1>4, <2>2, <2>3, <2>5 DEF RunOK, Opening, Placed, Paying
    <2>7. QED
      BY <1>1, <2>2, <2>3, <2>6, RunStep
  <1>5. CASE ReadCursor(r)
    <2>1. PICK place \in {"look", "step"} :
              place = IF chain.warmed /\ chain.cursor = 0 THEN "step" ELSE "look"
      OBVIOUS
    <2>2. run' = [run EXCEPT ![r].at = place, ![r].cursor = chain.cursor]
      BY <1>5, <2>1 DEF ReadCursor
    <2>3. place = "step" => chain.warmed
      BY <2>1
    <2>4. place = "look" => chain.cursor >= Base /\ (chain.cursor = Base \/ chain.cursor > Base)
      BY <1>2, <2>1 DEF Base
    <2>5. QED
      BY <1>2, <1>4, <2>2, <2>3, <2>4
  <1>6. CASE CheckCursor(r)
    <2>1. CASE Dies(r)
      BY <1>1, <2>1, DieStep
    <2>2. CASE chain.cursor = 1 /\ run' = [run EXCEPT ![r].at = "look", ![r].cursor = 1]
      <3>1. chain.warmed
        BY <1>6 DEF CheckCursor, Stands, CollectionInv, RunOK, Paying
      <3>2. chain.cursor >= Base /\ 1 = Base
        BY <2>2, <3>1 DEF Base
      <3>3. 1 \in Cursors
        BY <1>2, <2>2
      <3>4. QED
        BY <1>4, <2>2, <3>2, <3>3
    <2>3. QED
      BY <1>6, <2>1, <2>2 DEF CheckCursor
  <1>7. QED
    BY <1>5, <1>6

\* The step of a run that pays: rows of payments are written and go on.
LEMMA PayingStep ==
    ASSUME CollectionInv, NEW r \in Runs,
           StepRecovers(r) \/ StepFindsNone(r) \/ PlanPayment(r) \/ SignPayment(r)
    PROVE  CollectionInv'
  <1>1. /\ UNCHANGED <<scheduled, chain, record>> /\ scheduled' \in BOOLEAN
        /\ run[r].at \in Paying
    BY DEF StepRecovers, StepFindsNone, PlanPayment, SignPayment, Stands, Paying, CollectionInv, CollectionTypeOK
  <1>2. chain.warmed /\ run[r].existing = 0
    BY <1>1 DEF CollectionInv, RunOK, Paying, Opening, Placed
  <1>3. PaysIfWarmed /\ payment \in [Runs -> Payments]
    BY DEF CollectionInv, CollectionTypeOK
  <1>4. ASSUME NEW place \in Paying, Goes(r, place), payment' \in [Runs -> Payments],
               place = "sign" => payment'[r].phase # "none",
               \A p \in Runs : payment[p].phase # "none" => payment'[p].phase # "none",
               \A p \in Runs : payment'[p].phase # "none" => payment'[p].cursor <= Count
        PROVE  CollectionInv'
    <2>1. place \in Places /\ place \notin Opening \cup Placed
      BY DEF Places, Paying, Opening, Placed
    <2>2. PICK it \in RunStates : /\ run' = [run EXCEPT ![r] = it] /\ run'[r] = it
                                  /\ it.at = place /\ it.existing = run[r].existing
      BY <1>4, <2>1, GoesFact DEF CollectionInv
    <2>3. RunOK(r)'
      BY <1>1, <1>2, <1>4, <2>1, <2>2 DEF RunOK
    <2>4. QED
      BY <1>1, <1>2, <1>4, <2>2, <2>3, QuietStep
  <1>5. ASSUME NEW p \in Runs, NEW row \in Payments, payment' = [payment EXCEPT ![p] = row],
               row.phase # "none", row.cursor <= Count
        PROVE  /\ payment' \in [Runs -> Payments] /\ payment'[p] = row
               /\ \A q \in Runs : payment[q].phase # "none" => payment'[q].phase # "none"
               /\ \A q \in Runs : payment'[q].phase # "none" => payment'[q].cursor <= Count
    BY <1>3, <1>5 DEF PaysIfWarmed
  <1>6. CASE UNCHANGED payment /\ Dies(r)
    BY <1>1, <1>6, DieStep
  <1>7. ASSUME UNCHANGED payment, NEW place \in Paying, place # "sign", Goes(r, place)
        PROVE  CollectionInv'
    BY <1>3, <1>4, <1>7 DEF PaysIfWarmed
  <1>8. CASE StepRecovers(r)
    <2>1. PICK p \in Runs : /\ payment[p].phase \in {"paid", "refused"}
                            /\ payment' = [payment EXCEPT ![p].phase = "settled"]
      BY <1>8 DEF StepRecovers
    <2>2. PICK old \in Payments : old = payment[p]
      BY <1>3
    <2>3. PICK row : row = [old EXCEPT !.phase = "settled"]
      OBVIOUS
    <2>4. row \in Payments /\ row.phase # "none" /\ row.cursor = old.cursor
      BY <2>3 DEF Payments
    <2>5. row.cursor <= Count
      BY <1>3, <2>1, <2>2, <2>4 DEF PaysIfWarmed
    <2>6. payment' = [payment EXCEPT ![p] = row]
      BY <1>3, <2>1, <2>2, <2>3
    <2>7. "check" \in Paying /\ Goes(r, "check")
      BY <1>8 DEF StepRecovers, Paying
    <2>8. QED
      BY <1>4, <1>5, <2>4, <2>5, <2>6, <2>7
  <1>9. CASE StepFindsNone(r)
    BY <1>7, <1>9 DEF StepFindsNone, Paying
  <1>10. CASE PlanPayment(r)
    <2>1. CASE Goes(r, "check") /\ UNCHANGED payment
      BY <1>7, <2>1 DEF Paying
    <2>2. CASE /\ chain.cursor < QueueEnd /\ Goes(r, "sign")
               /\ payment' = [payment EXCEPT ![r] = [cursor |-> chain.cursor, phase |-> "planned"]]
      <3>1. PICK row : row = [cursor |-> chain.cursor, phase |-> "planned"]
        OBVIOUS
      <3>2. chain.cursor \in Cursors /\ chain.cursor \in Int
        BY DEF CollectionInv, CollectionTypeOK, ChainStates, Cursors
      <3>3. chain.cursor <= Count
        BY <1>2, <2>2, <3>2, BaseFact DEF QueueEnd, Base
      <3>4. row \in Payments /\ row.phase # "none" /\ row.cursor <= Count
        BY <3>1, <3>2, <3>3 DEF Payments
      <3>5. "sign" \in Paying /\ payment' = [payment EXCEPT ![r] = row]
        BY <2>2, <3>1 DEF Paying
      <3>6. QED
        BY <1>4, <1>5, <2>2, <3>4, <3>5
    <2>3. QED
      BY <1>10, <2>1, <2>2 DEF PlanPayment
  <1>11. CASE SignPayment(r)
    <2>1. CASE Goes(r, "sent") /\ payment' = [payment EXCEPT ![r].phase = "signed"]
      <3>1. payment[r].phase # "none"
        BY <1>11 DEF SignPayment, Stands, CollectionInv, RunOK
      <3>2. PICK old \in Payments : old = payment[r]
        BY <1>3
      <3>3. PICK row : row = [old EXCEPT !.phase = "signed"]
        OBVIOUS
      <3>4. row \in Payments /\ row.phase # "none" /\ row.cursor = old.cursor
        BY <3>3 DEF Payments
      <3>5. row.cursor <= Count
        BY <1>3, <3>1, <3>2, <3>4 DEF PaysIfWarmed
      <3>6. payment' = [payment EXCEPT ![r] = row]
        BY <1>3, <2>1, <3>2, <3>3
      <3>7. "sent" \in Paying
        BY DEF Paying
      <3>8. QED
        BY <1>4, <1>5, <2>1, <3>4, <3>5, <3>6, <3>7
    <2>2. QED
      BY <1>6, <1>11, <2>1 DEF SignPayment
  <1>12. QED
    BY <1>8, <1>9, <1>10, <1>11

\* A payment moves the cursor and opens its account.  While the cursor is not beyond
\* Base, that is the payment made first.
LEMMA PaidStep ==
    ASSUME CollectionInv, NEW p \in Runs, ExecutePayment(p)
    PROVE  CollectionInv'
  <1>1. UNCHANGED <<scheduled, record, run>>
    BY DEF ExecutePayment
  <1>2. /\ payment \in [Runs -> Payments] /\ payment[p] \in Payments
        /\ chain \in ChainStates /\ run[p] \in RunStates /\ run' = [run EXCEPT ![p] = run[p]]
        /\ scheduled' \in BOOLEAN /\ record' \in [Records -> RecordStates]
    BY <1>1 DEF CollectionInv, CollectionTypeOK
  <1>3. PICK row \in Payments : row = payment[p]
    BY <1>2
  <1>4. PICK phase \in {"paid", "refused"} :
            /\ payment' = [payment EXCEPT ![p].phase = phase]
            /\ \/ UNCHANGED chain
               \/ /\ chain.cursor = row.cursor
                  /\ chain' = [chain EXCEPT !.cursor = @ + 1, !.accounts = @ \cup {row.cursor}]
    BY <1>3 DEF ExecutePayment
  <1>5. chain.warmed /\ row.cursor <= Count /\ row.cursor \in Cursors
    BY <1>3 DEF ExecutePayment, CollectionInv, PaysIfWarmed, Payments
  <1>6. PICK made : made = [row EXCEPT !.phase = phase]
    OBVIOUS
  <1>7. made \in Payments /\ made.phase # "none" /\ made.cursor = row.cursor
    BY <1>6 DEF Payments
  <1>8. payment' = [payment EXCEPT ![p] = made]
    BY <1>2, <1>3, <1>4, <1>6
  <1>9. payment' \in [Runs -> Payments] /\ payment'[p] = made
        /\ \A q \in Runs : q # p => payment'[q] = payment[q]
    BY <1>2, <1>7, <1>8
  <1>10. PICK n \in Nat : n = chain.cursor
    BY <1>2, BaseFact DEF ChainStates, Cursors
  <1>11. row.cursor = n => n + 1 \in Cursors
    BY <1>5, <1>10, BaseFact DEF Cursors
  <1>12. /\ chain' \in ChainStates /\ chain'.warmed = chain.warmed
         /\ \/ chain'.cursor = chain.cursor /\ chain'.accounts = chain.accounts
            \/ chain'.cursor = n + 1 /\ chain'.accounts = chain.accounts \cup {n}
    <2>1. CASE UNCHANGED chain
      BY <1>2, <2>1
    <2>2. CASE /\ n = row.cursor
               /\ chain' = [chain EXCEPT !.cursor = n + 1, !.accounts = @ \cup {n}]
      <3>1. n \in 0..Count
        BY <1>5, <1>10, <2>2, BaseFact
      <3>2. QED
        BY <1>2, <1>11, <2>2, <3>1 DEF ChainStates, Accounts
    <2>3. QED
      BY <1>4, <1>10, <2>1, <2>2
  <1>13. Base = 1 /\ Base' = 1
    BY <1>5, <1>12 DEF Base
  <1>14. Grows
    <2>1. chain.cursor <= chain'.cursor /\ chain.accounts \subseteq chain'.accounts
      BY <1>10, <1>12
    <2>2. \A q \in Runs : payment[q].phase # "none" => payment'[q].phase # "none"
      BY <1>7, <1>9
    <2>3. QED
      BY <1>1, <1>12, <2>1, <2>2 DEF Grows, Frozen, Labelled
  <1>15. PaysIfWarmed'
    <2>1. \A q \in Runs : payment'[q].phase # "none" => payment'[q].cursor <= Count
      BY <1>5, <1>7, <1>9 DEF CollectionInv, PaysIfWarmed
    <2>2. QED
      BY <1>5, <1>12, <2>1 DEF PaysIfWarmed
  <1>16. Bounded'
    <2>1. CASE chain'.cursor = chain.cursor /\ chain'.accounts = chain.accounts
      BY <1>14, <2>1, BoundedKeeps DEF CollectionInv
    <2>2. CASE chain'.cursor = n + 1 /\ chain'.accounts = chain.accounts \cup {n}
      <3> SUFFICES ASSUME n + 1 <= 1
                   PROVE  \A e \in Records : \/ Labelled(e)'
                                             \/ (chain'.accounts \cap WholeBatch') \subseteq OpenedFor(e)'
        BY <1>13, <2>2 DEF Bounded
      <3>1. n = 0 /\ chain.cursor <= Base
        BY <1>10, <1>13
      <3>2. WholeBatch' = WholeBatch /\ 0 \notin WholeBatch
        BY <1>13, BaseFact DEF WholeBatch
      <3>3. chain'.accounts \cap WholeBatch = chain.accounts \cap WholeBatch
        BY <2>2, <3>1, <3>2
      <3>4. \A e \in Records : Labelled(e) \/ chain.accounts \cap WholeBatch \subseteq OpenedFor(e)
        BY <3>1 DEF CollectionInv, Bounded
      <3>5. \A e \in Records : OpenedFor(e)' = OpenedFor(e) /\ Labelled(e)' = Labelled(e)
        BY <1>1, <1>13 DEF OpenedFor, Labelled
      <3>6. QED
        BY <3>2, <3>3, <3>4, <3>5
    <2>3. QED
      BY <1>12, <2>1, <2>2
  <1>17. \A e \in Records : RecordOK(e)'
    <2>1. ASSUME NEW e \in Records PROVE RecordOK(e)'
      BY <1>1, <1>14, RecordKeeps DEF CollectionInv
    <2>2. QED
      BY <2>1
  <1>18. RunOK(p)'
    <2>1. CollectionTypeOK /\ RunOK(p) /\ run'[p] = run[p]
      BY <1>1 DEF CollectionInv
    <2>2. QED
      BY <1>12, <1>14, <2>1, OthersKeep
  <1>19. PICK it \in RunStates : it = run[p]
    BY <1>2
  <1>20. run' = [run EXCEPT ![p] = it]
    BY <1>2, <1>19
  <1>21. QED
    BY <1>2, <1>9, <1>12, <1>14, <1>15, <1>16, <1>17, <1>18, <1>20, StepKeeps

\* Going on to the next observation once this one has its label.
LEMMA NextFact ==
    ASSUME CollectionTypeOK, NEW r \in Runs, NextRecord(r)
    PROVE  \/ Dies(r)
           \/ /\ run[r].existing + 1 \in Records
              /\ \E it \in RunStates :
                    /\ run' = [run EXCEPT ![r] = it] /\ run'[r] = it
                    /\ it.at = "look" /\ it.cursor = run[r].cursor
                    /\ it.existing = run[r].existing + 1
  <1>1. PICK e \in 0..Count : e = run[r].existing
    BY BaseFact DEF CollectionTypeOK, RunStates
  <1>2. PICK cursor \in Cursors : cursor = run[r].cursor
    BY DEF CollectionTypeOK, RunStates
  <1>3. CASE e < Count
    <2>1. PICK next \in Records : next = e + 1
      BY <1>3, BaseFact DEF Records
    <2>2. PICK it : it = [NotRunning EXCEPT !.at = "look", !.cursor = cursor, !.existing = next]
      OBVIOUS
    <2>3. it \in RunStates /\ it.at = "look" /\ it.cursor = cursor /\ it.existing = next
      BY <2>2, NotRunningType DEF RunStates, Places, Opening
    <2>4. run' = [run EXCEPT ![r] = it] /\ run'[r] = it
      BY <1>1, <1>2, <1>3, <2>1, <2>2 DEF NextRecord, Existing, CollectionTypeOK
    <2>5. QED
      BY <1>1, <1>2, <2>1, <2>3, <2>4
  <1>4. QED
    BY <1>1, <1>3 DEF NextRecord, Existing

\* A run that goes on knows what it needs, when its observation has the label.
LEMMA NextKnows ==
    ASSUME CollectionTypeOK, chain' \in ChainStates, Grows, NEW r \in Runs,
           run[r].at \in Opening \cup Placed, RunOK(r),
           NEW it \in RunStates, it.at = "look", it.cursor = run[r].cursor,
           run'[r] = it, NEW e \in Records, e = run[r].existing, it.existing = e + 1,
           Labelled(e)'
    PROVE  RunOK(r)'
  <1>1. Base' = Base /\ Base \in Int /\ chain.cursor \in Int /\ chain'.cursor \in Int
        /\ chain.cursor <= chain'.cursor
    BY DEF Grows, Base, CollectionTypeOK, ChainStates, Cursors
  <1>2. Knows(run[r])
    BY DEF RunOK
  <1>3. chain'.cursor >= Base' /\ (it.cursor = Base' \/ chain'.cursor > Base')
    BY <1>1, <1>2 DEF Knows
  <1>4. \A x \in Records : x < e => Labelled(x)
    BY <1>2 DEF Knows
  <1>5. \A x \in Records : x < e + 1 => Labelled(x)'
    <2>1. record'[e].label # NoLabel
      BY DEF Labelled
    <2>2. ASSUME NEW x \in Records, x < e + 1 PROVE Labelled(x)'
      <3>1. CASE x = e
        BY <2>1, <3>1 DEF Labelled
      <3>2. CASE x < e
        BY <1>4, <3>2 DEF Grows
      <3>3. x < e \/ x = e
        BY <2>2, BaseFact
      <3>4. QED
        BY <3>1, <3>2, <3>3
    <2>3. QED
      BY <2>2
  <1>6. Knows(run[r])'
    BY <1>3, <1>5 DEF Knows, Placed
  <1>7. QED
    BY <1>6 DEF RunOK, Opening, Placed, Paying

LEMMA LookStep ==
    ASSUME CollectionInv, NEW r \in Runs, LookUp(r)
    PROVE  CollectionInv'
  <1>1. PICK e \in Records : e = run[r].existing
    BY DEF CollectionInv, CollectionTypeOK, RunStates
  <1>2. /\ run[r].at = "look" /\ UNCHANGED <<scheduled, chain, record, payment>>
        /\ scheduled' \in BOOLEAN /\ CollectionTypeOK /\ RunOK(r) /\ chain' \in ChainStates
        /\ chain.cursor \in Int
    BY DEF LookUp, Stands, CollectionInv, CollectionTypeOK, ChainStates, Cursors
  <1>3. Grows
    BY <1>2 DEF Grows, Frozen, Labelled
  <1>4. run[r].at \in Opening \cup Placed /\ Knows(run[r])
    BY <1>2 DEF RunOK, Opening
  <1>5. CASE Labelled(e)
    <2>1. NextRecord(r)
      BY <1>1, <1>5 DEF LookUp, Collected, Labelled, Existing
    <2>2. CASE Dies(r)
      BY <1>2, <2>2, DieStep
    <2>3. ASSUME NEW it \in RunStates, run' = [run EXCEPT ![r] = it], run'[r] = it,
                 it.at = "look", it.cursor = run[r].cursor, it.existing = run[r].existing + 1
          PROVE  CollectionInv'
      <3>1. Labelled(e)'
        BY <1>2, <1>5 DEF Labelled
      <3>2. RunOK(r)'
        BY <1>1, <1>2, <1>3, <1>4, <2>3, <3>1, NextKnows
      <3>3. QED
        BY <1>2, <2>3, <3>2, RunStep
    <2>4. QED
      BY <1>2, <2>1, <2>2, <2>3, NextFact
  <1>6. CASE ~Labelled(e)
    <2>1. PICK old \in RunStates : old = run[r]
      BY <1>2 DEF CollectionTypeOK
    <2>2. PICK place \in {"open", "snapshot"} : place = IF e > 0 THEN "open" ELSE "snapshot"
      OBVIOUS
    <2>3. PICK found \in BOOLEAN : found = Frozen(e)
      BY DEF Frozen
    <2>4. PICK it : it = [old EXCEPT !.at = place, !.found = found]
      OBVIOUS
    <2>5. /\ it \in RunStates /\ it.at = place /\ it.cursor = old.cursor
          /\ it.existing = e /\ it.found = found
      BY <1>1, <2>1, <2>4 DEF RunStates, Places, Opening, Placed
    <2>6. run' = [run EXCEPT ![r] = it] /\ run'[r] = it
      BY <1>1, <1>2, <1>6, <2>1, <2>2, <2>3, <2>4
         DEF LookUp, Collected, Labelled, Frozen, Existing, CollectionTypeOK
    <2>7. place = "snapshot" => OpenedFor(e) = {}
      BY <2>2, BaseFact DEF OpenedFor
    <2>8. Knows(it)
      BY <1>1, <1>4, <2>1, <2>2, <2>3, <2>5, <2>7 DEF Knows, Placed
    <2>9. Knows(run[r])'
      BY <1>2, <2>6, <2>8 DEF Knows, Base, Labelled, Frozen, Held, OpenedFor
    <2>10. RunOK(r)'
      BY <2>5, <2>6, <2>9 DEF RunOK, Opening, Placed, Paying
    <2>11. QED
      BY <1>2, <2>5, <2>6, <2>10, RunStep
  <1>7. QED
    BY <1>5, <1>6

\* Opening the account of an observation: all earlier ones have their labels, so
\* those without one allow it.  A run with another cursor than Base opens what it
\* likes, because the chain has left the batch.
LEMMA OpenStep ==
    ASSUME CollectionInv, NEW r \in Runs, OpenNext(r)
    PROVE  CollectionInv'
  <1>1. PICK e \in Records : e = run[r].existing
    BY DEF CollectionInv, CollectionTypeOK, RunStates
  <1>2. PICK cursor \in Cursors : cursor = run[r].cursor
    BY DEF CollectionInv, CollectionTypeOK, RunStates
  <1>3. /\ run[r].at = "open" /\ UNCHANGED <<scheduled, record, payment>>
        /\ scheduled' \in BOOLEAN /\ CollectionTypeOK /\ RunOK(r)
        /\ chain \in ChainStates /\ chain.cursor \in Int
        /\ record' \in [Records -> RecordStates] /\ payment' \in [Runs -> Payments]
    BY DEF OpenNext, Stands, CollectionInv, CollectionTypeOK, ChainStates, Cursors
  <1>4. Knows(run[r]) /\ e > 0
    BY <1>1, <1>3 DEF RunOK, Opening, Knows
  <1>5. Base \in {0, 1} /\ Count \in 1..8 /\ e \in 1..Count /\ e - 1 \in Records
    BY <1>4, BaseFact DEF Records
  <1>6. CASE UNCHANGED chain /\ Dies(r)
    BY <1>3, <1>6, DieStep
  <1>7. ASSUME NEW index, index = cursor + e - 1, index < QueueEnd,
               chain' = [chain EXCEPT !.accounts = @ \cup {index}], Goes(r, "snapshot")
        PROVE  CollectionInv'
    <2>1. index \in 0..Count
      BY <1>2, <1>5, <1>7, BaseFact DEF Cursors
    <2>2. /\ chain' \in ChainStates /\ chain'.warmed = chain.warmed /\ chain'.cursor = chain.cursor
          /\ chain'.accounts = chain.accounts \cup {index}
      BY <1>3, <1>7, <2>1 DEF ChainStates, Accounts
    <2>3. Grows
      BY <1>3, <2>2 DEF Grows, Frozen, Labelled
    <2>4. Base' = Base /\ WholeBatch' = WholeBatch
      BY <2>2 DEF Base, WholeBatch
    <2>5. PICK it \in RunStates :
              /\ run' = [run EXCEPT ![r] = it] /\ run'[r] = it /\ it.at = "snapshot"
              /\ it.cursor = cursor /\ it.existing = e /\ it.found = run[r].found
      BY <1>1, <1>2, <1>3, <1>7, GoesFact DEF Places, Placed
    <2>6. Bounded'
      <3> SUFFICES ASSUME chain.cursor <= Base, NEW x \in Records, ~Labelled(x)
                   PROVE  chain'.accounts \cap WholeBatch \subseteq OpenedFor(x)
        <4>1. \A x \in Records : OpenedFor(x)' = OpenedFor(x) /\ Labelled(x)' = Labelled(x)
          BY <1>3, <2>4 DEF OpenedFor, Labelled
        <4>2. QED
          BY <2>2, <2>4, <4>1 DEF Bounded
      <3>1. chain.accounts \cap WholeBatch \subseteq OpenedFor(x)
        BY DEF CollectionInv, Bounded
      <3>2. cursor = Base
        BY <1>2, <1>3, <1>4, <1>5 DEF Knows
      <3>3. ~(x < e) /\ x \in 0..Count
        BY <1>1, <1>4, BaseFact DEF Knows
      <3>4. index \in OpenedFor(x)
        BY <1>5, <1>7, <3>2, <3>3 DEF OpenedFor
      <3>5. QED
        BY <2>2, <3>1, <3>4
    <2>7. cursor = Base => OpenedFor(e) \subseteq chain'.accounts
      <3>1. e - 1 < e /\ Labelled(e - 1)
        BY <1>1, <1>4, <1>5 DEF Knows
      <3>2. OpenedFor(e - 1) \subseteq chain.accounts
        BY <1>5, <3>1 DEF CollectionInv, RecordOK
      <3>3. cursor = Base => OpenedFor(e) \subseteq OpenedFor(e - 1) \cup {index}
        BY <1>5, <1>7 DEF OpenedFor
      <3>4. QED
        BY <2>2, <3>2, <3>3
    <2>8. Knows(it)'
      <3>1. /\ chain'.cursor >= Base' /\ (it.cursor = Base' \/ chain'.cursor > Base')
            /\ \A x \in Records : x < e => Labelled(x)'
            /\ it.found => Frozen(e)'
        BY <1>1, <1>2, <1>3, <1>4, <2>2, <2>4, <2>5 DEF Knows, Labelled, Frozen
      <3>2. it.cursor = Base' => OpenedFor(e)' \subseteq chain'.accounts
        BY <2>4, <2>5, <2>7 DEF OpenedFor
      <3>3. QED
        BY <2>5, <3>1, <3>2 DEF Knows
    <2>9. Knows(run[r])'
      BY <2>5, <2>8 DEF Knows
    <2>10. RunOK(r)'
      BY <2>5, <2>9 DEF RunOK, Opening, Placed, Paying
    <2>11. PaysIfWarmed'
      BY <1>3, <2>2 DEF CollectionInv, PaysIfWarmed
    <2>12. \A x \in Records : RecordOK(x)'
      <3>1. ASSUME NEW x \in Records PROVE RecordOK(x)'
        BY <1>3, <2>3, RecordKeeps DEF CollectionInv
      <3>2. QED
        BY <3>1
    <2>13. QED
      BY <1>3, <2>2, <2>3, <2>5, <2>6, <2>10, <2>11, <2>12, StepKeeps
  <1>8. QED
    BY <1>1, <1>2, <1>6, <1>7 DEF OpenNext, Existing

\* At Base the chain shows an observation's state to a run that has opened its
\* accounts.
LEMMA BatchFact ==
    ASSUME CollectionInv, NEW e \in Records, chain.cursor = Base, OpenedFor(e) \subseteq chain.accounts
    PROVE  /\ Batch.cursor \in Cursors /\ Batch.accounts \in Accounts
           /\ Held(Batch, e)
  <1>1. Base \in {0, 1} /\ Count \in 1..8 /\ e \in 0..Count
    BY BaseFact
  <1>2. Batch.cursor = Base /\ Batch.accounts = chain.accounts \cap WholeBatch
    BY DEF Batch, WholeBatch
  <1>3. chain.accounts \in Accounts
    BY DEF CollectionInv, CollectionTypeOK, ChainStates
  <1>4. Batch.cursor \in Cursors /\ Batch.accounts \in Accounts
    BY <1>1, <1>2, <1>3 DEF Cursors, Accounts
  <1>5. OpenedFor(e) \subseteq WholeBatch
    BY <1>1 DEF OpenedFor, WholeBatch
  <1>6. Base <= Base
    BY <1>1
  <1>7. Labelled(e) \/ chain.accounts \cap WholeBatch \subseteq OpenedFor(e)
    BY <1>6 DEF CollectionInv, Bounded
  <1>8. QED
    BY <1>2, <1>4, <1>5, <1>7 DEF Held

\* A chain with a whole batch left has not moved beyond Base.
LEMMA SnapshotStep ==
    ASSUME CollectionInv, NEW r \in Runs, Snapshot(r)
    PROVE  CollectionInv'
  <1>1. PICK e \in Records : e = run[r].existing
    BY DEF CollectionInv, CollectionTypeOK, RunStates
  <1>2. /\ run[r].at = "snapshot" /\ UNCHANGED <<scheduled, chain, record, payment>>
        /\ scheduled' \in BOOLEAN /\ CollectionTypeOK /\ RunOK(r)
        /\ chain.cursor \in Cursors /\ run[r].cursor \in Cursors
    BY DEF Snapshot, Stands, CollectionInv, CollectionTypeOK, ChainStates, RunStates
  <1>3. Knows(run[r])
    BY <1>2 DEF RunOK, Placed
  <1>4. CASE Dies(r)
    BY <1>2, <1>4, DieStep
  <1>5. CASE chain.cursor + Count <= QueueEnd
    <2>1. chain.cursor = Base /\ run[r].cursor = Base
      BY <1>2, <1>3, <1>5, BaseFact DEF Knows, Cursors
    <2>2. OpenedFor(e) \subseteq chain.accounts
      BY <1>1, <1>2, <1>3, <2>1 DEF Knows, Placed
    <2>3. ASSUME NEW it \in RunStates, run' = [run EXCEPT ![r] = it], run'[r] = it,
                 it.at \in {"ingest", "freeze"}, it.cursor = Base, it.existing = e,
                 it.at = "freeze" => Frozen(e), it.at = "ingest" => Held(it.input, e)
          PROVE  CollectionInv'
      <3>1. Knows(it)
        BY <1>1, <1>3, <2>2, <2>3 DEF Knows
      <3>2. Knows(run[r])'
        BY <1>2, <2>3, <3>1 DEF Knows, Base, Labelled, Frozen, Held, OpenedFor
      <3>3. RunOK(r)'
        BY <2>3, <3>2 DEF RunOK, Opening, Placed, Paying
      <3>4. QED
        BY <1>2, <2>3, <3>3, RunStep
    <2>4. CASE run[r].found
      <3>1. Goes(r, "freeze") \/ Dies(r)
        BY <2>4 DEF Snapshot
      <3>2. Frozen(e)
        BY <1>1, <1>2, <1>3, <2>4 DEF Knows
      <3>3. CASE Goes(r, "freeze")
        <4>1. "freeze" \in Places
          BY DEF Places, Placed
        <4>2. QED
          BY <1>1, <1>2, <2>1, <2>3, <3>2, <3>3, <4>1, GoesFact
      <3>4. QED
        BY <1>4, <3>1, <3>3
    <2>5. CASE ~run[r].found
      <3>1. PICK old \in RunStates : old = run[r]
        BY <1>2 DEF CollectionTypeOK
      <3>2. PICK state : state = Batch
        OBVIOUS
      <3>3. state \in Inputs /\ Held(state, e)
        <4>1. state = [cursor |-> state.cursor, accounts |-> state.accounts]
          BY <3>2 DEF Batch
        <4>2. state.cursor \in Cursors /\ state.accounts \in Accounts /\ Held(state, e)
          BY <2>1, <2>2, <3>2, BatchFact
        <4>3. QED
          BY <4>1, <4>2 DEF Inputs
      <3>4. PICK it : it = [old EXCEPT !.at = "ingest", !.input = state]
        OBVIOUS
      <3>5. /\ it \in RunStates /\ it.at = "ingest" /\ it.cursor = old.cursor
            /\ it.existing = old.existing /\ it.input = state
        BY <3>3, <3>4 DEF RunStates, Places, Placed
      <3>6. CASE run' = [run EXCEPT ![r].at = "ingest", ![r].input = Batch]
        <4>1. run' = [run EXCEPT ![r] = it] /\ run'[r] = it
          BY <1>2, <3>1, <3>2, <3>4, <3>6 DEF CollectionTypeOK
        <4>2. QED
          BY <1>1, <2>1, <2>3, <3>1, <3>3, <3>5, <4>1
      <3>7. QED
        BY <1>4, <2>5, <3>6 DEF Snapshot
    <2>6. QED
      BY <2>4, <2>5
  <1>6. QED
    BY <1>4, <1>5 DEF Snapshot

\* A step that changes one observation, keeping what it has frozen and labelled.
LEMMA RecordStep ==
    ASSUME CollectionInv, NEW r \in Runs, NEW it \in RunStates, run' = [run EXCEPT ![r] = it],
           NEW e \in Records, NEW rec \in RecordStates, record' = [record EXCEPT ![e] = rec],
           UNCHANGED <<chain, scheduled, payment>>,
           Frozen(e) => rec.input # NoInput, Labelled(e) => rec.label # NoLabel,
           RecordOK(e)', RunOK(r)'
    PROVE  CollectionInv'
  <1>1. record'[e] = rec /\ \A x \in Records : x # e => record'[x] = record[x]
    BY DEF CollectionInv, CollectionTypeOK
  <1>2. Grows
    <2>1. chain.cursor \in Int
      BY DEF CollectionInv, CollectionTypeOK, ChainStates, Cursors
    <2>2. QED
      BY <1>1, <2>1 DEF Grows, Frozen, Labelled
  <1>3. /\ scheduled' \in BOOLEAN /\ chain' \in ChainStates /\ payment' \in [Runs -> Payments]
        /\ record' \in [Records -> RecordStates]
    BY DEF CollectionInv, CollectionTypeOK
  <1>4. \A x \in Records : RecordOK(x)'
    <2>1. ASSUME NEW x \in Records, x # e PROVE RecordOK(x)'
      BY <1>1, <1>2, <2>1, RecordKeeps DEF CollectionInv
    <2>2. QED
      BY <2>1
  <1>5. PaysIfWarmed'
    BY DEF CollectionInv, PaysIfWarmed
  <1>6. Bounded'
    BY <1>2, BoundedKeeps DEF CollectionInv
  <1>7. QED
    BY <1>2, <1>3, <1>4, <1>5, <1>6, StepKeeps

\* A run that has snapshotted stays with its observation while the cursor it works
\* with is Base or the chain is beyond it.
LEMMA WorkFact ==
    ASSUME CollectionTypeOK, NEW r \in Runs, RunOK(r), run[r].at \in Placed, UNCHANGED chain,
           NEW e \in Records, e = run[r].existing, NEW it \in RunStates, run'[r] = it,
           it.at \in {"freeze", "execute", "finish"}, it.existing = e, it.cursor = run[r].cursor,
           \A x \in Records : Labelled(x) => Labelled(x)', Frozen(e)',
           it.at = "finish" => it.label.found /\ (it.label.measured => Held(it.label, e)')
    PROVE  RunOK(r)'
  <1>1. Knows(run[r])
    BY DEF RunOK
  <1>2. OpenedFor(e)' = OpenedFor(e) /\ Base' = Base
    BY DEF OpenedFor, Base
  <1>3. Knows(run[r])'
    BY <1>1, <1>2 DEF Knows
  <1>4. QED
    BY <1>3 DEF RunOK, Opening, Placed, Paying

\* The first input is frozen: the run opened its accounts, and without a label
\* nobody opened more.
LEMMA IngestStep ==
    ASSUME CollectionInv, NEW r \in Runs, IngestRow(r)
    PROVE  CollectionInv'
  <1>1. PICK e \in Records : e = run[r].existing
    BY DEF CollectionInv, CollectionTypeOK, RunStates
  <1>2. /\ run[r].at = "ingest" /\ UNCHANGED <<scheduled, chain, payment>>
        /\ scheduled' \in BOOLEAN /\ CollectionTypeOK /\ RunOK(r) /\ RecordOK(e)
    BY DEF IngestRow, Stands, CollectionInv, CollectionTypeOK
  <1>3. Knows(run[r]) /\ run[r].at \in Placed
    BY <1>2 DEF RunOK, Placed
  <1>4. CASE Dies(r) /\ UNCHANGED record
    BY <1>2, <1>4, DieStep
  <1>5. CASE /\ record[e].input \in {NoInput, run[r].input}
             /\ record' = [record EXCEPT ![e].input = run[r].input]
             /\ run' = [run EXCEPT ![r].at = "freeze", ![r].input = NoInput]
    <2>1. PICK old \in RunStates : old = run[r]
      BY <1>2 DEF CollectionTypeOK
    <2>2. PICK it : it = [old EXCEPT !.at = "freeze", !.input = NoInput]
      OBVIOUS
    <2>3. it \in RunStates /\ it.at = "freeze" /\ it.existing = e /\ it.cursor = old.cursor
      BY <1>1, <2>1, <2>2, NotRunningType DEF RunStates, Places, Placed
    <2>4. run' = [run EXCEPT ![r] = it] /\ run'[r] = it
      BY <1>2, <1>5, <2>1, <2>2 DEF CollectionTypeOK
    <2>5. PICK was \in RecordStates : was = record[e]
      BY <1>2 DEF CollectionTypeOK
    <2>6. PICK rec : rec = [was EXCEPT !.input = old.input]
      OBVIOUS
    <2>7. rec \in RecordStates /\ rec.input = old.input /\ rec.label = was.label
      BY <2>6 DEF RecordStates, RunStates
    <2>8. record' = [record EXCEPT ![e] = rec] /\ record'[e] = rec
          /\ \A x \in Records : x # e => record'[x] = record[x]
      BY <1>2, <1>5, <2>1, <2>5, <2>6 DEF CollectionTypeOK
    <2>9. /\ old.cursor = Base /\ Held(old.input, e) /\ OpenedFor(e) \subseteq chain.accounts
      BY <1>1, <1>2, <1>3, <2>1 DEF Knows
    <2>10. rec.input # NoInput
      BY <2>7, <2>9, BaseFact DEF Held, NoInput
    <2>11. rec.input.cursor = Base /\ rec.input.accounts = OpenedFor(e)
      <3>1. CASE Frozen(e)
        BY <1>2, <1>5, <2>1, <2>7, <3>1 DEF Frozen, RecordOK
      <3>2. CASE ~Frozen(e)
        BY <1>2, <2>7, <2>9, <3>2 DEF RecordOK, Held
      <3>3. QED
        BY <3>1, <3>2
    <2>12. Base' = Base /\ OpenedFor(e)' = OpenedFor(e)
      BY <1>2 DEF Base, OpenedFor
    <2>13. Frozen(e)' /\ Labelled(e)' = Labelled(e) /\ record'[e].label = record[e].label
      BY <2>5, <2>7, <2>8, <2>10 DEF Frozen, Labelled
    <2>14. RecordOK(e)'
      BY <1>2, <2>7, <2>8, <2>9, <2>11, <2>12, <2>13 DEF RecordOK
    <2>15. \A x \in Records : Labelled(x) => Labelled(x)'
      BY <2>5, <2>7, <2>8 DEF Labelled
    <2>16. RunOK(r)'
      BY <1>1, <1>2, <1>3, <2>1, <2>3, <2>4, <2>13, <2>15, WorkFact
    <2>17. Labelled(e) => rec.label # NoLabel
      BY <2>5, <2>7 DEF Labelled
    <2>18. QED
      BY <1>2, <2>3, <2>4, <2>7, <2>8, <2>10, <2>14, <2>16, <2>17, RecordStep
  <1>6. QED
    BY <1>1, <1>4, <1>5 DEF IngestRow, Existing

\* A plan is frozen beside the input, which stays.
LEMMA FreezeStep ==
    ASSUME CollectionInv, NEW r \in Runs, FreezeRow(r)
    PROVE  CollectionInv'
  <1>1. PICK e \in Records : e = run[r].existing
    BY DEF CollectionInv, CollectionTypeOK, RunStates
  <1>2. /\ run[r].at = "freeze" /\ UNCHANGED <<scheduled, chain, payment>>
        /\ CollectionTypeOK /\ RunOK(r) /\ RecordOK(e)
    BY DEF FreezeRow, Stands, CollectionInv
  <1>3. run[r].at \in Placed /\ Frozen(e)
    BY <1>1, <1>2 DEF RunOK, Placed, Knows
  <1>4. PICK was \in RecordStates : was = record[e]
    BY <1>2 DEF CollectionTypeOK
  <1>5. PICK rec : rec = [was EXCEPT !.planned = TRUE]
    OBVIOUS
  <1>6. rec \in RecordStates /\ rec.input = was.input /\ rec.label = was.label
    BY <1>5 DEF RecordStates
  <1>7. record' = [record EXCEPT ![e] = rec] /\ record'[e] = rec
        /\ \A x \in Records : x # e => record'[x] = record[x]
    BY <1>1, <1>2, <1>4, <1>5 DEF FreezeRow, Existing, CollectionTypeOK
  <1>8. Base' = Base /\ OpenedFor(e)' = OpenedFor(e)
    BY <1>2 DEF Base, OpenedFor
  <1>9. /\ Frozen(e)' /\ record'[e].input = record[e].input /\ record'[e].label = record[e].label
        /\ \A x \in Records : Labelled(x) => Labelled(x)'
    BY <1>3, <1>4, <1>6, <1>7 DEF Frozen, Labelled
  <1>10. RecordOK(e)'
    BY <1>2, <1>8, <1>9 DEF RecordOK, Frozen, Labelled
  <1>11. (Frozen(e) => rec.input # NoInput) /\ (Labelled(e) => rec.label # NoLabel)
    BY <1>4, <1>6 DEF Frozen, Labelled
  <1>12. CASE Dies(r)
    <2>1. run' = [run EXCEPT ![r] = Over] /\ RunOK(r)'
      BY <1>2, <1>12, DeadFact
    <2>2. QED
      BY <1>2, <1>6, <1>7, <1>10, <1>11, <2>1, NotRunningType, RecordStep
  <1>13. CASE run' = [run EXCEPT ![r].at = "execute", ![r].found = FALSE]
    <2>1. PICK old \in RunStates : old = run[r]
      BY <1>2 DEF CollectionTypeOK
    <2>2. PICK it : it = [old EXCEPT !.at = "execute", !.found = FALSE]
      OBVIOUS
    <2>3. it \in RunStates /\ it.at = "execute" /\ it.existing = e /\ it.cursor = old.cursor
      BY <1>1, <2>1, <2>2 DEF RunStates, Places, Placed
    <2>4. run' = [run EXCEPT ![r] = it] /\ run'[r] = it
      BY <1>2, <1>13, <2>1, <2>2 DEF CollectionTypeOK
    <2>5. RunOK(r)'
      BY <1>1, <1>2, <1>3, <1>9, <2>1, <2>3, <2>4, WorkFact
    <2>6. QED
      BY <1>2, <1>6, <1>7, <1>10, <1>11, <2>3, <2>4, <2>5, RecordStep
  <1>14. QED
    BY <1>12, <1>13 DEF FreezeRow

\* The simulation measures in the state the chain is in, and only at the cursor of
\* the message, which is Base.
LEMMA ExecuteStep ==
    ASSUME CollectionInv, NEW r \in Runs, ExecuteRow(r)
    PROVE  CollectionInv'
  <1>1. PICK e \in Records : e = run[r].existing
    BY DEF CollectionInv, CollectionTypeOK, RunStates
  <1>2. /\ run[r].at = "execute" /\ UNCHANGED <<scheduled, chain, record, payment>>
        /\ scheduled' \in BOOLEAN /\ CollectionTypeOK /\ RunOK(r) /\ RecordOK(e)
        /\ chain \in ChainStates
    BY DEF ExecuteRow, Stands, CollectionInv, CollectionTypeOK
  <1>3. run[r].at \in Placed /\ Frozen(e)
    BY <1>1, <1>2 DEF RunOK, Placed, Knows
  <1>4. /\ record[e].input.cursor = Base /\ record[e].input.accounts = OpenedFor(e)
        /\ OpenedFor(e) \subseteq chain.accounts
    BY <1>2, <1>3 DEF RecordOK
  <1>5. PICK result \in LabelRecords :
            /\ run' = [run EXCEPT ![r].at = "finish", ![r].label = result]
            /\ result.found /\ (result.measured => Held(result, e))
    <2>1. PICK measured \in {FALSE, chain.cursor = Base} :
              run' = [run EXCEPT ![r].at = "finish",
                                 ![r].label = [found |-> TRUE, measured |-> measured,
                                               cursor |-> Batch.cursor, accounts |-> Batch.accounts]]
      BY <1>1, <1>4 DEF ExecuteRow, Existing
    <2>2. PICK state : state = Batch
      OBVIOUS
    <2>3. state.cursor \in Cursors /\ state.accounts \in Accounts
      BY <1>2, <2>2 DEF Batch, ChainStates, Accounts
    <2>4. PICK result : result = [found |-> TRUE, measured |-> measured,
                                  cursor |-> state.cursor, accounts |-> state.accounts]
      OBVIOUS
    <2>5. result \in LabelRecords /\ result.found
      BY <2>3, <2>4 DEF LabelRecords
    <2>6. result.measured => Held(result, e)
      <3>1. result.measured => Held(Batch, e)
        BY <1>4, <2>4, BatchFact
      <3>2. QED
        BY <2>2, <2>4, <3>1 DEF Held
    <2>7. run' = [run EXCEPT ![r].at = "finish", ![r].label = result]
      BY <2>1, <2>2, <2>4
    <2>8. QED
      BY <2>5, <2>6, <2>7
  <1>6. PICK old \in RunStates : old = run[r]
    BY <1>2 DEF CollectionTypeOK
  <1>7. PICK it : it = [old EXCEPT !.at = "finish", !.label = result]
    OBVIOUS
  <1>8. /\ it \in RunStates /\ it.at = "finish" /\ it.existing = e /\ it.cursor = old.cursor
        /\ it.label = result
    BY <1>1, <1>6, <1>7 DEF RunStates, Places, Placed
  <1>9. run' = [run EXCEPT ![r] = it] /\ run'[r] = it
    BY <1>2, <1>5, <1>6, <1>7 DEF CollectionTypeOK
  <1>10. /\ Frozen(e)' /\ \A x \in Records : Labelled(x) => Labelled(x)'
         /\ it.label.measured => Held(it.label, e)'
    BY <1>2, <1>3, <1>5, <1>8 DEF Frozen, Labelled, Held, Base, OpenedFor
  <1>11. RunOK(r)'
    BY <1>1, <1>2, <1>3, <1>5, <1>6, <1>8, <1>9, <1>10, WorkFact
  <1>12. QED
    BY <1>2, <1>8, <1>9, <1>11, RunStep

\* The first label is stored.  Until then nobody has gone on to open further
\* accounts, so it was measured with exactly those of the observation.
LEMMA FinishStep ==
    ASSUME CollectionInv, NEW r \in Runs, FinishRow(r)
    PROVE  CollectionInv'
  <1>1. PICK e \in Records : e = run[r].existing
    BY DEF CollectionInv, CollectionTypeOK, RunStates
  <1>2. /\ run[r].at = "finish" /\ UNCHANGED <<scheduled, chain, payment>>
        /\ scheduled' \in BOOLEAN /\ CollectionTypeOK /\ RunOK(r) /\ RecordOK(e)
        /\ chain' \in ChainStates /\ chain.cursor \in Int
    BY DEF FinishRow, Stands, CollectionInv, CollectionTypeOK, ChainStates, Cursors
  <1>3. PICK taken \in LabelRecords : taken = run[r].label
    BY <1>2 DEF CollectionTypeOK, RunStates
  <1>4. /\ run[r].at \in Opening \cup Placed /\ Frozen(e)
        /\ taken.found /\ (taken.measured => Held(taken, e))
    BY <1>1, <1>2, <1>3 DEF RunOK, Placed, Knows
  <1>5. CASE Dies(r) /\ UNCHANGED record
    BY <1>2, <1>5, DieStep
  <1>6. CASE ~Labelled(e) /\ NextRecord(r) /\ record' = [record EXCEPT ![e].label = taken]
    <2>1. PICK was \in RecordStates : was = record[e]
      BY <1>2 DEF CollectionTypeOK
    <2>2. PICK rec : rec = [was EXCEPT !.label = taken]
      OBVIOUS
    <2>3. rec \in RecordStates /\ rec.input = was.input /\ rec.label = taken
      BY <2>2 DEF RecordStates
    <2>4. record' = [record EXCEPT ![e] = rec] /\ record'[e] = rec
          /\ \A x \in Records : x # e => record'[x] = record[x]
      BY <1>2, <1>6, <2>1, <2>2 DEF CollectionTypeOK
    <2>5. rec.label # NoLabel /\ rec.input # NoInput
      BY <1>4, <2>1, <2>3 DEF NoLabel, Frozen
    <2>6. Base' = Base /\ OpenedFor(e)' = OpenedFor(e) /\ Frozen(e)' /\ Labelled(e)'
      BY <1>2, <2>4, <2>5 DEF Base, OpenedFor, Frozen, Labelled
    <2>7. taken.measured => taken.cursor = Base /\ taken.accounts = OpenedFor(e)
      BY <1>4, <1>6 DEF Held
    <2>8. RecordOK(e)'
      BY <1>2, <1>4, <2>1, <2>3, <2>4, <2>6, <2>7 DEF RecordOK
    <2>9. Grows
      BY <1>2, <2>4, <2>5 DEF Grows, Frozen, Labelled
    <2>10. CASE Dies(r)
      <3>1. run' = [run EXCEPT ![r] = Over] /\ RunOK(r)'
        BY <1>2, <2>10, DeadFact
      <3>2. QED
        BY <1>2, <2>3, <2>4, <2>5, <2>8, <3>1, NotRunningType, RecordStep
    <2>11. ASSUME NEW it \in RunStates, run' = [run EXCEPT ![r] = it], run'[r] = it,
                  it.at = "look", it.cursor = run[r].cursor, it.existing = run[r].existing + 1
           PROVE  CollectionInv'
      <3>1. RunOK(r)'
        BY <1>1, <1>2, <1>4, <2>6, <2>9, <2>11, NextKnows
      <3>2. QED
        BY <1>2, <2>3, <2>4, <2>5, <2>8, <2>11, <3>1, RecordStep
    <2>12. QED
      BY <1>2, <1>6, <2>10, <2>11, NextFact
  <1>7. QED
    BY <1>1, <1>3, <1>5, <1>6 DEF FinishRow, Existing, Labelled

\* At first nothing is open, frozen, labelled or paid.
LEMMA CollectionInitInv == CollectionInit => CollectionInv
  <1> SUFFICES ASSUME CollectionInit PROVE CollectionInv
    OBVIOUS
  <1>1. \A e \in Records : record[e] = EmptyRecord
    BY DEF CollectionInit
  <1>2. \A r \in Runs : run[r] = NotRunning
    BY DEF CollectionInit
  <1>3. \A r \in Runs : payment[r] = NoPayment
    BY DEF CollectionInit
  <1>4. chain.accounts = {} /\ chain.cursor = 0 /\ chain \in ChainStates
    <2>0. 0 \in Cursors /\ {} \in Accounts
      BY BaseFact DEF Cursors, Accounts
    <2>1. chain \in [created : {FALSE}, cursor : {0}, accounts : {{}}, warmed : BOOLEAN]
      BY DEF CollectionInit
    <2>2. chain.accounts = {} /\ chain.cursor = 0 /\ chain.created \in BOOLEAN /\ chain.warmed \in BOOLEAN
      BY <2>1
    <2>3. chain = [created |-> chain.created, cursor |-> chain.cursor,
                   accounts |-> chain.accounts, warmed |-> chain.warmed]
      BY <2>1
    <2>4. chain \in ChainStates
      BY <2>0, <2>2, <2>3 DEF ChainStates
    <2>5. QED
      BY <2>2, <2>4
  <1>5. CollectionTypeOK
    <2>1. EmptyRecord \in RecordStates /\ NoPayment \in Payments
      BY NotRunningType, BaseFact DEF EmptyRecord, RecordStates, NoPayment, Payments, Cursors
    <2>2. QED
      BY <1>4, <2>1, NotRunningType DEF CollectionInit, CollectionTypeOK
  <1>6. PaysIfWarmed
    BY <1>3, <1>4 DEF PaysIfWarmed, NoPayment
  <1>7. Bounded
    BY <1>4 DEF Bounded
  <1>8. \A e \in Records : RecordOK(e)
    BY <1>1 DEF RecordOK, Frozen, Labelled, EmptyRecord
  <1>9. \A r \in Runs : RunOK(r)
    BY <1>2 DEF RunOK, NotRunning, Opening, Placed, Paying
  <1>10. QED
    BY <1>5, <1>6, <1>7, <1>8, <1>9 DEF CollectionInv

\* Every step of a run keeps the invariant.
LEMMA CollectionNextInv == CollectionInv /\ [CollectionNext]_collectionVars => CollectionInv'
  <1> SUFFICES ASSUME CollectionInv, [CollectionNext]_collectionVars PROVE CollectionInv'
    OBVIOUS
  <1>1. ASSUME NEW r \in Runs, Interrupt(r) PROVE CollectionInv'
    BY <1>1, DieStep DEF Interrupt, CollectionInv, CollectionTypeOK
  <1>2. CASE UNCHANGED collectionVars
    <2>1. UNCHANGED <<scheduled, chain, record, payment, run>>
      BY <1>2 DEF collectionVars
    <2>2. CollectionTypeOK' /\ PaysIfWarmed'
      BY <2>1 DEF CollectionInv, CollectionTypeOK, PaysIfWarmed
    <2>3. Grows /\ chain' \in ChainStates
      <3>1. chain \in ChainStates /\ chain.cursor \in Int
        BY DEF CollectionInv, CollectionTypeOK, ChainStates, Cursors
      <3>2. QED
        BY <2>1, <3>1 DEF Grows, Frozen, Labelled
    <2>4. Bounded'
      BY <2>1, <2>3, BoundedKeeps DEF CollectionInv
    <2>5. ASSUME NEW e \in Records PROVE RecordOK(e)'
      BY <2>1, <2>3, RecordKeeps DEF CollectionInv
    <2>6. ASSUME NEW r \in Runs PROVE RunOK(r)'
      BY <2>1, <2>3, OthersKeep DEF CollectionInv
    <2>7. QED
      BY <2>2, <2>4, <2>5, <2>6 DEF CollectionInv
  <1>3. QED
    BY <1>1, <1>2, EarlyStep, CreateStep, ReadStep, PayingStep, PaidStep, LookStep, OpenStep,
       SnapshotStep, IngestStep, FreezeStep, ExecuteStep, FinishStep DEF CollectionNext

\* The demand of a training row was measured in the state the row describes, although
\* overlapping runs may pay more than the one payment made first
\* (Application.collect, app.py 362-493).
THEOREM RowsCorrect == CollectionSpec => []RowsDescribeTheirLabels
  <1>1. CollectionInv => RowsDescribeTheirLabels
    <2> SUFFICES ASSUME CollectionInv, NEW e \in Records, Labelled(e)
                 PROVE  /\ record[e].input.cursor = Base
                        /\ record[e].input.accounts = Base..(Base + e - 1)
                        /\ record[e].label.measured =>
                              /\ record[e].label.accounts = record[e].input.accounts
                              /\ record[e].label.cursor = record[e].input.cursor
      BY DEF RowsDescribeTheirLabels, WrittenRows, Labelled
    <2>1. RecordOK(e)
      BY DEF CollectionInv
    <2>2. QED
      BY <2>1 DEF RecordOK, OpenedFor
  <1>2. QED
    BY <1>1, CollectionInitInv, CollectionNextInv, PTL DEF CollectionSpec

-----------------------------------------------------------------------------
(* ProfileTraining, for any rows, groups, queues and labels.  The argument *)
(* is in the split: blocks are the chains of families whose windows        *)
(* overlap, so two blocks never interleave; their ranks are then a         *)
(* numbering from zero without gaps, and the three parts of it are neither *)
(* empty nor out of order.  First, facts about extremes, classes, rows.    *)

(* The extremes of finite sets of integers.                                *)

LEMMA MaxExists ==
    ASSUME NEW S \in SUBSET Int, IsFiniteSet(S), S # {}
    PROVE  \E x \in S : \A y \in S : x >= y
<1> DEFINE Above(x) == {y \in S : y > x}
<1>1. PICK T : T = {Above(x) : x \in S}
    OBVIOUS
<1>2. T \subseteq FiniteSubsetsOf(S) /\ T # {}
    <2>1. \A x \in S : Above(x) \in SUBSET S
        OBVIOUS
    <2>2. \A U \in SUBSET S : IsFiniteSet(U)
        BY FS_Subset
    <2> QED BY <1>1, <2>1, <2>2, Zenon DEF FiniteSubsetsOf
<1>3. PICK U \in T : \A V \in T : ~(<<V, U>> \in StrictSubsetOrdering(S))
    BY <1>2, FS_StrictSubsetOrderingWellFounded, WFMin, Zenon
<1>4. PICK x \in S : U = Above(x)
    BY <1>1
<1>5. ASSUME NEW y \in S, y > x
      PROVE  FALSE
    <2>1. Above(y) \in T
        BY <1>1
    <2>2. Above(y) \subseteq Above(x) /\ y \in Above(x) /\ y \notin Above(y)
        <3>1. x \in Int /\ y \in Int /\ \A z \in S : z \in Int
            OBVIOUS
        <3>2. \A z \in S : z > y => z > x
            BY <1>5, <3>1
        <3>3. Above(y) \subseteq Above(x)
            BY <3>2
        <3>4. y \in Above(x)
            BY <1>5
        <3>5. y \notin Above(y)
            BY <3>1
        <3> QED BY <3>3, <3>4, <3>5
    <2>3. <<Above(y), U>> \in StrictSubsetOrdering(S)
        BY <1>4, <2>2 DEF StrictSubsetOrdering
    <2> QED BY <1>3, <2>1, <2>3
<1> QED BY <1>5

LEMMA MinExists ==
    ASSUME NEW S \in SUBSET Int, IsFiniteSet(S), S # {}
    PROVE  \E x \in S : \A y \in S : x <= y
<1> DEFINE Below(x) == {y \in S : y < x}
<1>1. PICK T : T = {Below(x) : x \in S}
    OBVIOUS
<1>2. T \subseteq FiniteSubsetsOf(S) /\ T # {}
    <2>1. \A x \in S : Below(x) \in SUBSET S
        OBVIOUS
    <2>2. \A U \in SUBSET S : IsFiniteSet(U)
        BY FS_Subset
    <2> QED BY <1>1, <2>1, <2>2, Zenon DEF FiniteSubsetsOf
<1>3. PICK U \in T : \A V \in T : ~(<<V, U>> \in StrictSubsetOrdering(S))
    BY <1>2, FS_StrictSubsetOrderingWellFounded, WFMin, Zenon
<1>4. PICK x \in S : U = Below(x)
    BY <1>1
<1>5. ASSUME NEW y \in S, y < x
      PROVE  FALSE
    <2>1. Below(y) \in T
        BY <1>1
    <2>2. Below(y) \subseteq Below(x) /\ y \in Below(x) /\ y \notin Below(y)
        <3>1. x \in Int /\ y \in Int /\ \A z \in S : z \in Int
            OBVIOUS
        <3>2. \A z \in S : z < y => z < x
            BY <1>5, <3>1
        <3>3. Below(y) \subseteq Below(x)
            BY <3>2
        <3>4. y \in Below(x)
            BY <1>5
        <3>5. y \notin Below(y)
            BY <3>1
        <3> QED BY <3>3, <3>4, <3>5
    <2>3. <<Below(y), U>> \in StrictSubsetOrdering(S)
        BY <1>4, <2>2 DEF StrictSubsetOrdering
    <2> QED BY <1>3, <2>1, <2>3
<1> QED BY <1>5

LEMMA MaxFact ==
    ASSUME NEW S \in SUBSET Int, IsFiniteSet(S), S # {}
    PROVE  Max(S) \in S /\ Max(S) \in Int /\ \A y \in S : Max(S) >= y
<1>1. \E x \in S : \A y \in S : x >= y
    BY MaxExists
<1> QED BY <1>1 DEF Max

LEMMA MinFact ==
    ASSUME NEW S \in SUBSET Int, IsFiniteSet(S), S # {}
    PROVE  Min(S) \in S /\ Min(S) \in Int /\ \A y \in S : Min(S) <= y
<1>1. \E x \in S : \A y \in S : x <= y
    BY MinExists
<1> QED BY <1>1 DEF Min

LEMMA OfTwo ==
    ASSUME NEW a \in Int, NEW b \in Int
    PROVE  /\ Max({a, b}) = IF a >= b THEN a ELSE b
           /\ Min({a, b}) = IF a <= b THEN a ELSE b
<1>1. IsFiniteSet({a, b})
    <2>1. IsFiniteSet({a}) /\ {a, b} = {a} \cup {b}
        BY FS_Singleton
    <2> QED BY <2>1, FS_AddElement
<1>2. Max({a, b}) \in {a, b} /\ \A y \in {a, b} : Max({a, b}) >= y
    BY <1>1, MaxFact
<1>3. Min({a, b}) \in {a, b} /\ \A y \in {a, b} : Min({a, b}) <= y
    BY <1>1, MinFact
<1> QED BY <1>2, <1>3

-----------------------------------------------------------------------------
(* The classes of a symmetric relation.                                    *)

\* They cover the set, no two share a member, related members share a class,
\* and a class has no closed part but itself.
LEMMA ClassesFact ==
    ASSUME NEW S, NEW relation, \A x, y \in S : <<x, y>> \in relation => <<y, x>> \in relation,
           NEW classes, classes = Classes(relation, S)
    PROVE  /\ UNION classes = S /\ {} \notin classes /\ classes \subseteq SUBSET S
           /\ \A c, d \in classes : c \cap d # {} => c = d
           /\ \A x, y \in S : <<x, y>> \in relation => \A c \in classes : x \in c => y \in c
           /\ \A c \in classes : \A d \in SUBSET c :
                  (d # {} /\ \A x \in d : \A y \in c : <<x, y>> \in relation => y \in d) => d = c
<1> DEFINE closed == {c \in SUBSET S : Closed(c, relation, S)}
           Reached(x) == {y \in S : \A c \in closed : x \in c => y \in c}
<1>1. classes = {Reached(x) : x \in S}
    BY DEF Classes
<1>2. \A x \in S : x \in Reached(x)
    OBVIOUS
<1>3. ASSUME NEW x \in S, NEW y \in Reached(x), NEW z \in S, <<y, z>> \in relation
      PROVE  z \in Reached(x)
    BY <1>3 DEF Closed
<1>4. \A x \in S : Reached(x) \in closed
    BY <1>3 DEF Closed
<1>5. ASSUME NEW x \in S, NEW y \in Reached(x)
      PROVE  Reached(y) = Reached(x)
    <2>1. Reached(y) \subseteq Reached(x)
        BY <1>5
    <2>2. x \in Reached(y)
        <3> SUFFICES ASSUME x \notin Reached(y)
                     PROVE  FALSE
            OBVIOUS
        <3>1. y \in S
            BY <1>5
        <3>2. S \ Reached(y) \in closed
            <4>1. Reached(y) \in SUBSET S /\ Closed(Reached(y), relation, S)
                BY <1>4, <3>1
            <4> HIDE DEF Reached
            <4>2. Closed(S \ Reached(y), relation, S)
                BY <4>1 DEF Closed
            <4> QED BY <4>2
        <3> QED BY <1>2, <1>5, <3>1, <3>2
    <2> QED BY <1>5, <2>1, <2>2
<1> HIDE DEF Reached
<1>6. \A x \in S : Reached(x) \subseteq S
    BY DEF Reached
<1>7. UNION classes = S /\ {} \notin classes /\ classes \subseteq SUBSET S
    BY <1>1, <1>2, <1>6
<1>8. \A c, d \in classes : c \cap d # {} => c = d
    BY <1>1, <1>5
<1>9. \A x, y \in S : <<x, y>> \in relation => \A c \in classes : x \in c => y \in c
    BY <1>1, <1>3
<1>10. ASSUME NEW c \in classes, NEW d \in SUBSET c, d # {},
              \A x \in d : \A y \in c : <<x, y>> \in relation => y \in d
       PROVE  d = c
    <2>1. PICK x \in d : x \in S
        BY <1>7, <1>10
    <2>2. Reached(x) = c
        BY <1>1, <1>5, <2>1
    <2>3. d \in closed
        BY <1>7, <1>9, <1>10 DEF Closed
    <2>4. c \subseteq d
        BY <2>1, <2>2, <2>3 DEF Reached
    <2> QED BY <2>4
<1> QED BY <1>7, <1>8, <1>9, <1>10

-----------------------------------------------------------------------------
(* Rows, their slots and their windows.                                    *)

RowsOK == /\ rows \in Seq([slot : Nat, group : Groups])
          /\ \A i, j \in DOMAIN rows : i <= j => SlotOf(i) <= SlotOf(j)

LEMMA WindowFact ==
    ASSUME NEW a \in Nat, NEW b \in Nat
    PROVE  /\ WindowOf(a) \in Nat
           /\ a <= b => WindowOf(a) <= WindowOf(b)
<1>1. PICK w : w = Window
    OBVIOUS
<1>2. w \in Nat /\ w > 0
    BY <1>1, WindowAssumption
<1>3. a \div w \in Nat /\ b \div w \in Nat
    BY <1>2
<1>4. a <= b => a \div w <= b \div w
    BY <1>2
<1> QED BY <1>1, <1>3, <1>4 DEF WindowOf

LEMMA SlotsFact ==
    ASSUME RowsOK
    PROVE  /\ IsFiniteSet(DOMAIN rows) /\ DOMAIN rows = 1..Len(rows) /\ Len(rows) \in Nat
           /\ \A i \in DOMAIN rows : SlotOf(i) \in Nat /\ WindowOf(SlotOf(i)) \in Nat
           /\ \A i, j \in DOMAIN rows : SlotOf(i) <= SlotOf(j) =>
                                            WindowOf(SlotOf(i)) <= WindowOf(SlotOf(j))
<1>1. DOMAIN rows = 1..Len(rows) /\ Len(rows) \in Nat
    BY DEF RowsOK
<1>2. IsFiniteSet(DOMAIN rows)
    BY <1>1, FS_Interval
<1>3. \A i \in DOMAIN rows : SlotOf(i) \in Nat
    <2>1. PICK Row : Row = [slot : Nat, group : Groups]
        OBVIOUS
    <2>2. rows \in Seq(Row)
        BY <2>1 DEF RowsOK
    <2>3. \A i \in DOMAIN rows : rows[i] \in Row
        BY <2>2
    <2> QED BY <2>1, <2>3 DEF SlotOf
<1> QED BY <1>1, <1>2, <1>3, WindowFact

\* First, Last and their like for the windows.
LEMMA ExtremesFact ==
    ASSUME RowsOK, NEW ids \in SUBSET DOMAIN rows, ids # {}
    PROVE  /\ First(ids) \in Nat /\ (\E i \in ids : SlotOf(i) = First(ids))
           /\ \A i \in ids : First(ids) <= SlotOf(i)
           /\ Last(ids) \in Nat /\ (\E i \in ids : SlotOf(i) = Last(ids))
           /\ \A i \in ids : SlotOf(i) <= Last(ids)
           /\ Min(Windows(ids)) \in Nat /\ (\E i \in ids : WindowOf(SlotOf(i)) = Min(Windows(ids)))
           /\ \A i \in ids : Min(Windows(ids)) <= WindowOf(SlotOf(i))
           /\ Max(Windows(ids)) \in Nat /\ (\E i \in ids : WindowOf(SlotOf(i)) = Max(Windows(ids)))
           /\ \A i \in ids : WindowOf(SlotOf(i)) <= Max(Windows(ids))
           /\ IsFiniteSet(ids) /\ IsFiniteSet(Windows(ids)) /\ Windows(ids) # {}
<1>1. PICK S : S = {SlotOf(i) : i \in ids}
    OBVIOUS
<1>2. PICK W : W = Windows(ids)
    OBVIOUS
<1>3. IsFiniteSet(ids)
    BY SlotsFact, FS_Subset
<1>4. S \subseteq Nat /\ S # {} /\ W \subseteq Nat /\ W # {}
    BY <1>1, <1>2, SlotsFact DEF Windows
<1>5. PICK slots : slots = [i \in ids |-> SlotOf(i)]
    OBVIOUS
<1>6. PICK windows : windows = [i \in ids |-> WindowOf(SlotOf(i))]
    OBVIOUS
<1>7. S = {slots[i] : i \in ids} /\ W = {windows[i] : i \in ids}
    BY <1>1, <1>2, <1>5, <1>6 DEF Windows
<1>8. IsFiniteSet(S) /\ IsFiniteSet(W)
    <2>1. slots \in [ids -> S] /\ windows \in [ids -> W]
        BY <1>1, <1>2, <1>5, <1>6 DEF Windows
    <2>2. slots \in Surjection(ids, S) /\ windows \in Surjection(ids, W)
        BY <1>7, <2>1 DEF Surjection
    <2> QED BY <1>3, <2>2, FS_Surjection
<1>9. /\ Min(S) \in S /\ (\A y \in S : Min(S) <= y) /\ Max(S) \in S /\ (\A y \in S : Max(S) >= y)
      /\ Min(W) \in W /\ (\A y \in W : Min(W) <= y) /\ Max(W) \in W /\ (\A y \in W : Max(W) >= y)
    <2>1. S \in SUBSET Int /\ W \in SUBSET Int
        BY <1>4
    <2> QED BY <1>4, <1>8, <2>1, MinFact, MaxFact
<1>10. First(ids) = Min(S) /\ Last(ids) = Max(S)
    BY <1>1 DEF First, Last
<1>11. \A i \in ids : SlotOf(i) \in S /\ WindowOf(SlotOf(i)) \in W
    BY <1>1, <1>2 DEF Windows
<1>12. /\ \A y \in S : \E i \in ids : y = SlotOf(i)
       /\ \A y \in W : \E i \in ids : y = WindowOf(SlotOf(i))
    BY <1>1, <1>2 DEF Windows
<1>13. \A y \in S : y \in Nat
    BY <1>4
<1>14. \A y \in W : y \in Nat
    BY <1>4
<1>15. /\ First(ids) \in Nat /\ (\E i \in ids : SlotOf(i) = First(ids))
       /\ \A i \in ids : First(ids) <= SlotOf(i)
       /\ Last(ids) \in Nat /\ (\E i \in ids : SlotOf(i) = Last(ids))
       /\ \A i \in ids : SlotOf(i) <= Last(ids)
    BY <1>9, <1>10, <1>11, <1>12, <1>13
<1>16. /\ Min(W) \in Nat /\ (\E i \in ids : WindowOf(SlotOf(i)) = Min(W))
       /\ \A i \in ids : Min(W) <= WindowOf(SlotOf(i))
       /\ Max(W) \in Nat /\ (\E i \in ids : WindowOf(SlotOf(i)) = Max(W))
       /\ \A i \in ids : WindowOf(SlotOf(i)) <= Max(W)
    BY <1>9, <1>11, <1>12, <1>14
<1> QED BY <1>2, <1>3, <1>4, <1>8, <1>15, <1>16

-----------------------------------------------------------------------------
(* Families and blocks.                                                    *)

LEMMA FamiliesFact ==
    ASSUME RowsOK
    PROVE  /\ UNION Families = DOMAIN rows /\ {} \notin Families
           /\ Families \subseteq SUBSET DOMAIN rows
           /\ \A f, g \in Families : f \cap g # {} => f = g
           /\ \A i, j \in DOMAIN rows : <<i, j>> \in Related => \A f \in Families : i \in f => j \in f
<1>1. \A i, j \in DOMAIN rows : <<i, j>> \in Related => <<j, i>> \in Related
    BY DEF Related
<1>2. PICK relation, S, classes : relation = Related /\ S = DOMAIN rows /\ classes = Families
    OBVIOUS
<1>3. classes = Classes(relation, S)
    BY <1>2 DEF Families
<1>4. \A x, y \in S : <<x, y>> \in relation => <<y, x>> \in relation
    BY <1>1, <1>2
<1>5. /\ UNION classes = S /\ {} \notin classes /\ classes \subseteq SUBSET S
      /\ \A c, d \in classes : c \cap d # {} => c = d
      /\ \A x, y \in S : <<x, y>> \in relation => \A c \in classes : x \in c => y \in c
    BY <1>3, <1>4, ClassesFact
<1> QED BY <1>2, <1>5

Before(f, g) == \A i \in f, j \in g : WindowOf(SlotOf(i)) < WindowOf(SlotOf(j))

\* Families that do not overlap lie one before the other.
LEMMA Apart ==
    ASSUME RowsOK, NEW f \in Families, NEW g \in Families
    PROVE  /\ <<f, g>> \in Overlaps <=> ~(Before(f, g) \/ Before(g, f))
           /\ ~(Before(f, g) /\ Before(g, f))
<1>1. /\ f \subseteq DOMAIN rows /\ f # {} /\ g \subseteq DOMAIN rows /\ g # {}
    BY FamiliesFact
<1>2. \A i \in f \cup g : WindowOf(SlotOf(i)) \in Nat
    BY <1>1, SlotsFact
<1>3. /\ Before(f, g) <=> Max(Windows(f)) < Min(Windows(g))
      /\ Before(g, f) <=> Max(Windows(g)) < Min(Windows(f))
    <2>1. ASSUME NEW a \in Families, NEW b \in Families
          PROVE  Before(a, b) <=> Max(Windows(a)) < Min(Windows(b))
        <3>1. a \in SUBSET DOMAIN rows /\ a # {} /\ b \in SUBSET DOMAIN rows /\ b # {}
            BY FamiliesFact
        <3>2. PICK m \in Nat : /\ m = Max(Windows(a)) /\ (\E i \in a : WindowOf(SlotOf(i)) = m)
                               /\ \A i \in a : WindowOf(SlotOf(i)) <= m
            BY <3>1, ExtremesFact
        <3>3. PICK n \in Nat : /\ n = Min(Windows(b)) /\ (\E j \in b : WindowOf(SlotOf(j)) = n)
                               /\ \A j \in b : n <= WindowOf(SlotOf(j))
            BY <3>1, ExtremesFact
        <3>4. \A i \in a \cup b : WindowOf(SlotOf(i)) \in Nat
            BY <3>1, SlotsFact
        <3>5. ASSUME m < n
              PROVE  Before(a, b)
            BY <3>2, <3>3, <3>4, <3>5 DEF Before
        <3>6. ASSUME Before(a, b)
              PROVE  m < n
            BY <3>2, <3>3, <3>6 DEF Before
        <3> QED BY <3>2, <3>3, <3>5, <3>6
    <2> QED BY <2>1
<1>4. /\ Max(Windows(f)) \in Nat /\ Min(Windows(f)) \in Nat /\ Min(Windows(f)) <= Max(Windows(f))
      /\ Max(Windows(g)) \in Nat /\ Min(Windows(g)) \in Nat /\ Min(Windows(g)) <= Max(Windows(g))
    <2>1. ASSUME NEW a \in Families
          PROVE  Max(Windows(a)) \in Nat /\ Min(Windows(a)) \in Nat /\ Min(Windows(a)) <= Max(Windows(a))
        <3>1. a \in SUBSET DOMAIN rows /\ a # {}
            BY FamiliesFact
        <3>2. PICK i \in a : WindowOf(SlotOf(i)) = Max(Windows(a))
            BY <3>1, ExtremesFact
        <3> QED BY <3>1, <3>2, ExtremesFact
    <2> QED BY <2>1
<1>5. <<f, g>> \in Overlaps <=> /\ Min(Windows(f)) <= Max(Windows(g))
                                /\ Min(Windows(g)) <= Max(Windows(f))
    BY DEF Overlaps
<1> QED BY <1>3, <1>4, <1>5

Chains == Classes(Overlaps, Families)

LEMMA ChainsFact ==
    ASSUME RowsOK
    PROVE  /\ UNION Chains = Families /\ {} \notin Chains /\ Chains \subseteq SUBSET Families
           /\ \A c, d \in Chains : c \cap d # {} => c = d
           /\ \A f, g \in Families : <<f, g>> \in Overlaps => \A c \in Chains : f \in c => g \in c
           /\ \A c \in Chains : \A d \in SUBSET c :
                  (d # {} /\ \A f \in d : \A g \in c : <<f, g>> \in Overlaps => g \in d) => d = c
<1>1. \A f, g \in Families : <<f, g>> \in Overlaps => <<g, f>> \in Overlaps
    BY DEF Overlaps
<1>2. PICK relation, S, classes : relation = Overlaps /\ S = Families /\ classes = Chains
    OBVIOUS
<1>3. classes = Classes(relation, S)
    BY <1>2 DEF Chains
<1>4. \A x, y \in S : <<x, y>> \in relation => <<y, x>> \in relation
    BY <1>1, <1>2
<1>5. /\ UNION classes = S /\ {} \notin classes /\ classes \subseteq SUBSET S
      /\ \A c, d \in classes : c \cap d # {} => c = d
      /\ \A x, y \in S : <<x, y>> \in relation => \A c \in classes : x \in c => y \in c
      /\ \A c \in classes : \A d \in SUBSET c :
             (d # {} /\ \A x \in d : \A y \in c : <<x, y>> \in relation => y \in d) => d = c
    BY <1>3, <1>4, ClassesFact
<1> QED BY <1>2, <1>5

\* A chain lies on one side of each family outside it.
LEMMA OneSide ==
    ASSUME RowsOK, NEW c \in Chains, NEW g \in Families, g \notin c
    PROVE  (\A f \in c : Before(f, g)) \/ (\A f \in c : Before(g, f))
<1>1. c \subseteq Families
    BY ChainsFact
<1>2. \A f \in c : <<f, g>> \notin Overlaps
    BY <1>1, ChainsFact
<1>3. \A f \in c : Before(f, g) \/ Before(g, f)
    BY <1>1, <1>2, Apart
<1>4. ASSUME NEW f \in c, NEW h \in c, Before(f, g), Before(g, h)
      PROVE  <<f, h>> \notin Overlaps
    <2>1. PICK j \in g : j \in DOMAIN rows
        <3>1. g # {} /\ g \subseteq DOMAIN rows
            BY FamiliesFact
        <3> QED BY <3>1
    <2>2. \A i \in f \cup g \cup h : WindowOf(SlotOf(i)) \in Nat
        BY <1>1, FamiliesFact, SlotsFact
    <2>3. \A i \in f, k \in h : WindowOf(SlotOf(i)) < WindowOf(SlotOf(j))
                                /\ WindowOf(SlotOf(j)) < WindowOf(SlotOf(k))
        BY <1>4, <2>1 DEF Before
    <2>4. Before(f, h)
        BY <2>1, <2>2, <2>3 DEF Before
    <2> QED BY <1>1, <2>4, Apart
<1>5. PICK left : left = {f \in c : Before(f, g)}
    OBVIOUS
<1>6. \A f \in left : \A h \in c : <<f, h>> \in Overlaps => h \in left
    BY <1>3, <1>4, <1>5
<1>7. left = {} \/ left = c
    BY <1>5, <1>6, ChainsFact
<1> QED BY <1>3, <1>5, <1>7

\* Hence one of two chains lies before the other.
LEMMA ChainsApart ==
    ASSUME RowsOK, NEW c \in Chains, NEW d \in Chains, c # d
    PROVE  Before(UNION c, UNION d) \/ Before(UNION d, UNION c)
<1>1. c \subseteq Families /\ d \subseteq Families /\ c # {} /\ d # {} /\ c \cap d = {}
    BY ChainsFact
<1>2. \A g \in d : (\A f \in c : Before(f, g)) \/ (\A f \in c : Before(g, f))
    BY <1>1, OneSide
<1>3. \A f \in c : (\A g \in d : Before(g, f)) \/ (\A g \in d : Before(f, g))
    BY <1>1, OneSide
<1>4. \A f \in c, g \in d : ~(Before(f, g) /\ Before(g, f))
    BY <1>1, Apart
<1>5. (\A f \in c, g \in d : Before(f, g)) \/ (\A f \in c, g \in d : Before(g, f))
    <2>1. PICK f0 \in c, g0 \in d : TRUE
        BY <1>1
    <2>2. CASE Before(f0, g0)
        <3>1. \A g \in d : Before(f0, g)
            BY <1>3, <1>4, <2>1, <2>2
        <3> QED BY <1>2, <1>4, <2>1, <3>1
    <2>3. CASE Before(g0, f0)
        <3>1. \A g \in d : Before(g, f0)
            BY <1>3, <1>4, <2>1, <2>3
        <3> QED BY <1>2, <1>4, <2>1, <3>1
    <2> QED BY <1>2, <2>1, <2>2, <2>3
<1> QED BY <1>5 DEF Before

\* grouped_split's blocks: they part the rows, keep what is related together,
\* and of two blocks all windows of one are before those of the other.
LEMMA BlocksFact ==
    ASSUME RowsOK
    PROVE  /\ UNION Blocks = DOMAIN rows /\ {} \notin Blocks /\ Blocks \subseteq SUBSET DOMAIN rows
           /\ \A a, b \in Blocks : a # b => a \cap b = {} /\ (Before(a, b) \/ Before(b, a))
           /\ \A i, j \in DOMAIN rows : <<i, j>> \in Related => \A b \in Blocks : i \in b => j \in b
           /\ IsFiniteSet(Blocks)
<1>1. Blocks = {UNION c : c \in Chains}
    BY DEF Blocks, Chains
<1>2. \A c \in Chains : UNION c \subseteq DOMAIN rows /\ UNION c # {}
    <2> SUFFICES ASSUME NEW c \in Chains
                 PROVE  UNION c \subseteq DOMAIN rows /\ UNION c # {}
        OBVIOUS
    <2>1. c \subseteq Families /\ c # {}
        BY ChainsFact
    <2>2. \A f \in c : f \subseteq DOMAIN rows /\ f # {}
        BY <2>1, FamiliesFact
    <2> QED BY <2>1, <2>2
<1>3. UNION Blocks = DOMAIN rows
    <2>1. ASSUME NEW i \in DOMAIN rows
          PROVE  i \in UNION Blocks
        <3>1. PICK f \in Families : i \in f
            BY FamiliesFact
        <3>2. PICK c \in Chains : f \in c
            BY ChainsFact
        <3> QED BY <1>1, <3>1, <3>2
    <2>2. UNION Blocks \subseteq DOMAIN rows
        BY <1>1, <1>2
    <2> QED BY <2>1, <2>2
<1>4. {} \notin Blocks /\ Blocks \subseteq SUBSET DOMAIN rows
    BY <1>1, <1>2
<1>5. ASSUME NEW a \in Blocks, NEW b \in Blocks, a # b
      PROVE  a \cap b = {} /\ (Before(a, b) \/ Before(b, a))
    <2>1. PICK c \in Chains, d \in Chains : a = UNION c /\ b = UNION d
        BY <1>1
    <2>2. Before(a, b) \/ Before(b, a)
        BY <1>5, <2>1, ChainsApart
    <2>3. \A i \in a \cup b : WindowOf(SlotOf(i)) \in Nat
        BY <1>4, SlotsFact
    <2>4. \A i \in a \cup b : ~(WindowOf(SlotOf(i)) < WindowOf(SlotOf(i)))
        BY <2>3
    <2> QED BY <2>2, <2>4 DEF Before
<1>6. ASSUME NEW i \in DOMAIN rows, NEW j \in DOMAIN rows, <<i, j>> \in Related,
             NEW b \in Blocks, i \in b
      PROVE  j \in b
    <2>1. PICK c \in Chains : b = UNION c
        BY <1>1
    <2>2. PICK f \in c : i \in f
        BY <1>6, <2>1
    <2>3. f \in Families
        BY ChainsFact
    <2>4. j \in f
        BY <1>6, <2>2, <2>3, FamiliesFact
    <2> QED BY <2>1, <2>4
<1>7. IsFiniteSet(Blocks)
    <2>1. IsFiniteSet(SUBSET DOMAIN rows)
        BY SlotsFact, FS_SUBSET
    <2> QED BY <1>4, <2>1, FS_Subset
<1> QED BY <1>3, <1>4, <1>5, <1>6, <1>7

\* The order of the blocks by their first slots is that of their windows.
LEMMA BlockOrder ==
    ASSUME RowsOK, NEW a \in Blocks, NEW b \in Blocks
    PROVE  /\ First(a) \in Nat /\ First(b) \in Nat
           /\ First(a) < First(b) => Before(a, b)
           /\ a # b => First(a) # First(b)
<1>1. a \in SUBSET DOMAIN rows /\ a # {} /\ b \in SUBSET DOMAIN rows /\ b # {}
    BY BlocksFact
<1>2. PICK i \in a : First(a) = SlotOf(i)
    BY <1>1, ExtremesFact
<1>3. PICK j \in b : First(b) = SlotOf(j)
    BY <1>1, ExtremesFact
<1>4. i \in DOMAIN rows /\ j \in DOMAIN rows
    BY <1>1
<1>5. /\ SlotOf(i) \in Nat /\ SlotOf(j) \in Nat
      /\ WindowOf(SlotOf(i)) \in Nat /\ WindowOf(SlotOf(j)) \in Nat
    BY <1>4, SlotsFact
<1>6. /\ SlotOf(i) <= SlotOf(j) => WindowOf(SlotOf(i)) <= WindowOf(SlotOf(j))
      /\ SlotOf(j) <= SlotOf(i) => WindowOf(SlotOf(j)) <= WindowOf(SlotOf(i))
    BY <1>4, SlotsFact
<1>7. /\ Before(a, b) => WindowOf(SlotOf(i)) < WindowOf(SlotOf(j))
      /\ Before(b, a) => WindowOf(SlotOf(j)) < WindowOf(SlotOf(i))
    BY DEF Before
<1>8. a # b => Before(a, b) \/ Before(b, a)
    BY BlocksFact
<1> QED BY <1>2, <1>3, <1>5, <1>6, <1>7, <1>8

LEMMA RankFact ==
    ASSUME RowsOK, NEW a \in Blocks, NEW b \in Blocks
    PROVE  /\ Rank(a, Blocks) \in Nat /\ Rank(a, Blocks) < Cardinality(Blocks)
           /\ Rank(a, Blocks) < Rank(b, Blocks) <=> First(a) < First(b)
<1> DEFINE Lower(c) == {o \in Blocks : First(o) < First(c)}
<1>1. \A c \in Blocks : IsFiniteSet(Lower(c)) /\ Rank(c, Blocks) = Cardinality(Lower(c))
                        /\ Rank(c, Blocks) \in Nat
    <2>1. \A c \in Blocks : Lower(c) \in SUBSET Blocks /\ Rank(c, Blocks) = Cardinality(Lower(c))
        BY DEF Rank
    <2> HIDE DEF Lower
    <2> QED BY <2>1, BlocksFact, FS_Subset, FS_CardinalityType
<1>2. \A c \in Blocks : First(c) \in Nat
    BY BlockOrder
<1>3. Rank(a, Blocks) < Cardinality(Blocks)
    <2>1. Lower(a) \subseteq Blocks /\ a \notin Lower(a)
        BY <1>2
    <2>2. Lower(a) # Blocks
        BY <2>1
    <2> HIDE DEF Lower
    <2>3. Cardinality(Lower(a)) <= Cardinality(Blocks) /\ Cardinality(Lower(a)) # Cardinality(Blocks)
        BY <2>1, <2>2, BlocksFact, FS_Subset
    <2>4. Cardinality(Blocks) \in Nat
        BY BlocksFact, FS_CardinalityType
    <2> QED BY <1>1, <2>3, <2>4
<1>4. ASSUME NEW c \in Blocks, NEW d \in Blocks, First(c) <= First(d)
      PROVE  Rank(c, Blocks) <= Rank(d, Blocks)
    <2>1. Lower(c) \subseteq Lower(d)
        <3>1. \A o \in Blocks : First(o) < First(c) => First(o) < First(d)
            BY <1>2, <1>4
        <3> QED BY <3>1
    <2> HIDE DEF Lower
    <2> QED BY <1>1, <2>1, FS_Subset
<1>5. ASSUME First(a) < First(b)
      PROVE  Rank(a, Blocks) < Rank(b, Blocks)
    <2>1. a \in Lower(b) /\ a \notin Lower(a)
        BY <1>2, <1>5
    <2>2. First(a) <= First(b)
        BY <1>2, <1>5
    <2>3. Lower(a) \subseteq Lower(b)
        <3>1. \A o \in Blocks : First(o) < First(a) => First(o) < First(b)
            BY <1>2, <1>5
        <3> QED BY <3>1
    <2> HIDE DEF Lower
    <2>4. Lower(a) # Lower(b)
        BY <2>1
    <2>5. Cardinality(Lower(a)) <= Cardinality(Lower(b)) /\ Cardinality(Lower(a)) # Cardinality(Lower(b))
        BY <1>1, <2>3, <2>4, FS_Subset
    <2> QED BY <1>1, <2>5
<1>6. ASSUME Rank(a, Blocks) < Rank(b, Blocks)
      PROVE  First(a) < First(b)
    <2>1. First(a) \in Nat /\ First(b) \in Nat /\ Rank(a, Blocks) \in Nat /\ Rank(b, Blocks) \in Nat
        BY <1>1, <1>2
    <2>2. First(b) <= First(a) => Rank(b, Blocks) <= Rank(a, Blocks)
        BY <1>4
    <2> QED BY <1>6, <2>1, <2>2
<1> QED BY <1>1, <1>3, <1>5, <1>6

\* The rows of y share nothing with those of x and come after them.
Follow(x, y) == \A i \in x, j \in y : /\ <<i, j>> \notin Related
                                       /\ WindowOf(SlotOf(i)) < WindowOf(SlotOf(j))
                                       /\ SlotOf(i) < SlotOf(j)

\* Parts of the order that do not meet share nothing.
LEMMA PartsApart ==
    ASSUME RowsOK, NEW p \in Int, NEW q \in Int, NEW r \in Int, NEW s \in Int, q <= r,
           NEW i \in Part(Blocks, p, q), NEW j \in Part(Blocks, r, s)
    PROVE  /\ i \in DOMAIN rows /\ j \in DOMAIN rows
           /\ <<i, j>> \notin Related
           /\ WindowOf(SlotOf(i)) < WindowOf(SlotOf(j))
           /\ SlotOf(i) < SlotOf(j)
<1>1. PICK a \in Blocks : i \in a /\ Rank(a, Blocks) < q
    BY DEF Part
<1>2. PICK b \in Blocks : j \in b /\ r <= Rank(b, Blocks)
    BY DEF Part
<1>3. Rank(a, Blocks) \in Nat /\ Rank(b, Blocks) \in Nat
    BY RankFact
<1>4. First(a) < First(b)
    BY <1>1, <1>2, <1>3, RankFact
<1>5. Before(a, b)
    BY <1>4, BlockOrder
<1>6. i \in DOMAIN rows /\ j \in DOMAIN rows
    BY <1>1, <1>2, BlocksFact
<1>7. WindowOf(SlotOf(i)) < WindowOf(SlotOf(j))
    BY <1>1, <1>2, <1>5 DEF Before
<1>8. a # b
    <2>1. First(a) \in Nat
        BY BlockOrder
    <2> QED BY <1>4, <2>1
<1>9. <<i, j>> \notin Related
    <2>1. <<i, j>> \in Related => j \in a
        BY <1>1, <1>6, BlocksFact
    <2>2. a \cap b = {}
        BY <1>8, BlocksFact
    <2> QED BY <1>2, <2>1, <2>2
<1>10. SlotOf(i) < SlotOf(j)
    <2>1. /\ SlotOf(i) \in Nat /\ SlotOf(j) \in Nat
          /\ WindowOf(SlotOf(i)) \in Nat /\ WindowOf(SlotOf(j)) \in Nat
          /\ SlotOf(j) <= SlotOf(i) => WindowOf(SlotOf(j)) <= WindowOf(SlotOf(i))
        BY <1>6, SlotsFact
    <2> QED BY <1>7, <2>1
<1> QED BY <1>6, <1>7, <1>9, <1>10

\* Every place in the order is taken.
LEMMA PartFact ==
    ASSUME RowsOK, NEW p \in Nat, NEW q \in Nat, p < q, p < Cardinality(Blocks)
    PROVE  Part(Blocks, p, q) # {} /\ Part(Blocks, p, q) \in SUBSET DOMAIN rows
<1>1. Cardinality(Blocks) \in Nat /\ IsFiniteSet(Blocks)
    BY BlocksFact, FS_CardinalityType
<1>2. PICK n \in Nat : n = Cardinality(Blocks)
    BY <1>1
<1>3. PICK b \in Blocks : Rank(b, Blocks) = p
    <2> SUFFICES ASSUME \A b \in Blocks : Rank(b, Blocks) # p
                 PROVE  FALSE
        OBVIOUS
    <2>1. PICK T : T = (0..(n - 1)) \ {p}
        OBVIOUS
    <2>2. IsFiniteSet(T) /\ Cardinality(T) = n - 1
        <3>1. IsFiniteSet(0..(n - 1)) /\ Cardinality(0..(n - 1)) = n
            <4>1. PICK m \in Int : m = n - 1 /\ m >= 0
                BY <1>2
            <4>2. IsFiniteSet(0..m) /\ Cardinality(0..m) = IF 0 > m THEN 0 ELSE m - 0 + 1
                BY FS_Interval
            <4> QED BY <4>1, <4>2
        <3>2. p \in 0..(n - 1)
            BY <1>2
        <3>3. PICK U : U = 0..(n - 1)
            OBVIOUS
        <3>4. IsFiniteSet(U \ {p}) /\ Cardinality(U \ {p}) = IF p \in U THEN Cardinality(U) - 1 ELSE Cardinality(U)
            BY <3>1, <3>3, FS_RemoveElement
        <3> QED BY <2>1, <3>1, <3>2, <3>3, <3>4
    <2>3. PICK f : f = [b \in Blocks |-> Rank(b, Blocks)]
        OBVIOUS
    <2>4. \A b \in Blocks : Rank(b, Blocks) \in 0..(n - 1)
        BY <1>2, RankFact
    <2>5. f \in [Blocks -> T]
        BY <2>1, <2>3, <2>4
    <2>6. Cardinality(Blocks) > Cardinality(T)
        BY <1>2, <2>2
    <2>7. PICK a \in Blocks, c \in Blocks : a # c /\ f[a] = f[c]
        BY <1>1, <2>2, <2>5, <2>6, FS_PigeonHole
    <2>8. First(a) # First(c) /\ First(a) \in Nat /\ First(c) \in Nat
        BY <2>7, BlockOrder
    <2>9. Rank(a, Blocks) = Rank(c, Blocks) /\ Rank(a, Blocks) \in Nat
        BY <2>3, <2>7, RankFact
    <2>10. ~(First(a) < First(c)) /\ ~(First(c) < First(a))
        BY <2>9, RankFact
    <2> QED BY <2>8, <2>10
<1>4. b # {} /\ b \subseteq Part(Blocks, p, q)
    <2>1. b # {}
        BY BlocksFact
    <2> QED BY <1>3, <2>1 DEF Part
<1>5. Part(Blocks, p, q) \subseteq DOMAIN rows
    <2>1. \A c \in Blocks : c \subseteq DOMAIN rows
        BY BlocksFact
    <2> QED BY <2>1 DEF Part
<1> QED BY <1>4, <1>5

-----------------------------------------------------------------------------
(* The split, and what training finds.                                     *)

SplitOK == split = Unsplit \/ (Cardinality(Blocks) >= 3 /\ split = Split(Blocks))
LabelOK == label = <<>> \/ (split.frozen /\ label \in [Development -> Labels])
BundleOK == bundle = Untrained \/ (label # <<>> /\ FittedRows # {} /\ bundle = Trained)

TrainInv == RowsOK /\ SplitOK /\ LabelOK /\ BundleOK

LEMMA EndsFact ==
    ASSUME NEW n \in Nat, n >= 3
    PROVE  /\ FitEnd(n) \in Nat /\ CalibrationEnd(n) \in Nat
           /\ 0 < FitEnd(n) /\ FitEnd(n) < CalibrationEnd(n) /\ CalibrationEnd(n) < n
<1>1. PICK five \in Int : five = (5 * n) \div 10
    OBVIOUS
<1>2. PICK eight \in Int : eight = (8 * n) \div 10
    OBVIOUS
<1>3. n - 2 \in Int /\ n - 1 \in Int /\ n - 2 >= 1
    OBVIOUS
<1>4. PICK low \in Int : low = Min({n - 2, five}) /\ low <= n - 2
    BY <1>3, OfTwo
<1>5. FitEnd(n) = Max({1, low})
    BY <1>1, <1>4 DEF FitEnd, Clamp
<1>6. FitEnd(n) \in Nat /\ 0 < FitEnd(n) /\ FitEnd(n) <= n - 2
    BY <1>3, <1>4, <1>5, OfTwo
<1>7. PICK high \in Int : high = Min({n - 1, eight}) /\ high <= n - 1
    <2>1. PICK m \in Int : m = n - 1
        OBVIOUS
    <2>2. Min({m, eight}) = IF m <= eight THEN m ELSE eight
        BY OfTwo
    <2> QED BY <2>1, <2>2
<1>8. CalibrationEnd(n) = Max({FitEnd(n) + 1, high})
    BY <1>2, <1>7 DEF CalibrationEnd
<1>9. CalibrationEnd(n) = IF FitEnd(n) + 1 >= high THEN FitEnd(n) + 1 ELSE high
    BY <1>6, <1>7, <1>8, OfTwo
<1> QED BY <1>6, <1>7, <1>9

\* Three parts that are not empty and follow one another.
LEMMA SplitFact ==
    ASSUME RowsOK, SplitOK, split.frozen
    PROVE  /\ split.fitting # {} /\ split.calibrating # {} /\ split.heldOut # {}
           /\ split.fitting \in SUBSET DOMAIN rows /\ split.calibrating \in SUBSET DOMAIN rows
           /\ split.heldOut \in SUBSET DOMAIN rows
           /\ split.boundary = First(split.calibrating)
           /\ Follow(split.fitting, split.calibrating) /\ Follow(split.calibrating, split.heldOut)
           /\ Follow(split.fitting, split.heldOut)
<1>1. PICK n \in Nat : n = Cardinality(Blocks) /\ n >= 3
    BY BlocksFact, FS_CardinalityType DEF SplitOK, Unsplit
<1>2. PICK a \in Nat, c \in Nat : a = FitEnd(n) /\ c = CalibrationEnd(n) /\ 0 < a /\ a < c /\ c < n
    BY <1>1, EndsFact
<1>3. /\ split.fitting = Part(Blocks, 0, a) /\ split.calibrating = Part(Blocks, a, c)
      /\ split.heldOut = Part(Blocks, c, n) /\ split.boundary = First(split.calibrating)
    BY <1>1, <1>2 DEF SplitOK, Unsplit, Split, BoundarySlot
<1>4. /\ Part(Blocks, 0, a) # {} /\ Part(Blocks, 0, a) \in SUBSET DOMAIN rows
      /\ Part(Blocks, a, c) # {} /\ Part(Blocks, a, c) \in SUBSET DOMAIN rows
      /\ Part(Blocks, c, n) # {} /\ Part(Blocks, c, n) \in SUBSET DOMAIN rows
    BY <1>1, <1>2, PartFact
<1>5. Follow(split.fitting, split.calibrating)
    <2>1. ASSUME NEW i \in Part(Blocks, 0, a), NEW j \in Part(Blocks, a, c)
          PROVE  /\ <<i, j>> \notin Related
                 /\ WindowOf(SlotOf(i)) < WindowOf(SlotOf(j))
                 /\ SlotOf(i) < SlotOf(j)
        BY <1>2, PartsApart
    <2> QED BY <1>3, <2>1 DEF Follow
<1>6. Follow(split.calibrating, split.heldOut)
    <2>1. ASSUME NEW i \in Part(Blocks, a, c), NEW j \in Part(Blocks, c, n)
          PROVE  /\ <<i, j>> \notin Related
                 /\ WindowOf(SlotOf(i)) < WindowOf(SlotOf(j))
                 /\ SlotOf(i) < SlotOf(j)
        BY <1>2, PartsApart
    <2> QED BY <1>3, <2>1 DEF Follow
<1>7. Follow(split.fitting, split.heldOut)
    <2>1. ASSUME NEW i \in Part(Blocks, 0, a), NEW j \in Part(Blocks, c, n)
          PROVE  /\ <<i, j>> \notin Related
                 /\ WindowOf(SlotOf(i)) < WindowOf(SlotOf(j))
                 /\ SlotOf(i) < SlotOf(j)
        BY <1>2, PartsApart
    <2> QED BY <1>3, <2>1 DEF Follow
<1> QED BY <1>3, <1>4, <1>5, <1>6, <1>7

LEMMA LeakProof ==
    ASSUME TrainInv
    PROVE  SplitIsLeakProof
<1> SUFFICES ASSUME split.frozen
             PROVE  \A pair \in {<<split.fitting, split.calibrating>>, <<split.calibrating, split.heldOut>>,
                                 <<split.fitting, split.heldOut>>} :
                        \A i \in pair[1], j \in pair[2] :
                            <<i, j>> \notin Related /\ WindowOf(SlotOf(i)) < WindowOf(SlotOf(j))
    BY DEF SplitIsLeakProof
<1>1. /\ Follow(split.fitting, split.calibrating) /\ Follow(split.calibrating, split.heldOut)
      /\ Follow(split.fitting, split.heldOut)
    BY SplitFact DEF TrainInv
<1>2. ASSUME NEW pair \in {<<split.fitting, split.calibrating>>, <<split.calibrating, split.heldOut>>,
                           <<split.fitting, split.heldOut>>}
      PROVE  Follow(pair[1], pair[2])
    BY <1>1
<1> QED BY <1>2 DEF Follow

\* What training reads: the fitted rows come before the boundary, the rows that
\* calibrate after it, and no window has both.
LEMMA CellFact ==
    ASSUME RowsOK, SplitOK, LabelOK, label # <<>>
    PROVE  /\ split.frozen /\ Cell \in SUBSET DOMAIN rows
           /\ Earlier = Cell \cap split.fitting /\ Later = Cell \cap split.calibrating
           /\ Cell = Earlier \cup Later
           /\ FittedRows = {i \in split.fitting : Usable(i)} /\ FittedRows \subseteq Cell
           /\ \A i \in Development : Usable(i) => i \in Cell
           /\ \A i \in Earlier : SlotOf(i) < split.boundary
           /\ \A i \in Later : split.boundary <= SlotOf(i)
           /\ split.boundary \in Nat /\ \E i \in split.calibrating : SlotOf(i) = split.boundary
           /\ \A i \in Earlier, j \in Later : /\ SlotOf(i) < SlotOf(j)
                                              /\ WindowOf(SlotOf(i)) < WindowOf(SlotOf(j))
<1>1. split.frozen
    BY DEF LabelOK
<1>2. PICK F, C : F = split.fitting /\ C = split.calibrating
    OBVIOUS
<1>3. PICK b : b = split.boundary
    OBVIOUS
<1>4. /\ F \in SUBSET DOMAIN rows /\ C \in SUBSET DOMAIN rows /\ C # {}
      /\ b = First(C)
      /\ \A i \in F, j \in C : WindowOf(SlotOf(i)) < WindowOf(SlotOf(j)) /\ SlotOf(i) < SlotOf(j)
    BY <1>1, <1>2, <1>3, SplitFact DEF Follow
<1>5. b \in Nat /\ (\E i \in C : SlotOf(i) = b) /\ \A i \in C : b <= SlotOf(i)
    BY <1>4, ExtremesFact
<1>6. \A i \in F \cup C : SlotOf(i) \in Nat
    BY <1>4, SlotsFact
<1>7. \A i \in F : SlotOf(i) < b
    BY <1>4, <1>5
<1>8. Development = F \cup C
    BY <1>2 DEF Development
<1>9. \A i \in Cell : i \in F \cup C
    BY <1>8 DEF Cell
<1>10. \A i \in C : ~(SlotOf(i) < b)
    BY <1>5, <1>6
<1>11. \A i \in F : ~(SlotOf(i) >= b)
    BY <1>5, <1>6, <1>7
<1>12. Earlier = Cell \cap F /\ Later = Cell \cap C
    BY <1>3, <1>5, <1>7, <1>9, <1>10, <1>11 DEF Earlier, Later
<1>13. \A i \in Development : Usable(i) => i \in Cell
    <2>1. Unsupported \notin Demands
        <3>1. \A d \in Demands : d.compute \in Nat
            BY DemandsAssumption
        <3>2. Unsupported.compute = -2
            BY DEF Unsupported
        <3> QED BY <3>1, <3>2
    <2> QED BY <2>1 DEF Usable, Cell
<1>14. FittedRows = {i \in F : Usable(i)}
    BY <1>8, <1>12, <1>13 DEF FittedRows
<1>15. FittedRows \subseteq Cell
    BY <1>12 DEF FittedRows
<1>16. Cell = Earlier \cup Later
    BY <1>9, <1>12
<1>17. Cell \in SUBSET DOMAIN rows
    BY <1>4, <1>9
<1> QED BY <1>1, <1>2, <1>3, <1>4, <1>5, <1>7, <1>12, <1>13, <1>14, <1>15, <1>16, <1>17

-----------------------------------------------------------------------------
(* The invariant.                                                          *)

\* The split depends on the rows alone, what training computes on the rows, the
\* split and the labels.
LEMMA SameSplit ==
    ASSUME rows' = rows
    PROVE  Blocks' = Blocks /\ Split(Blocks)' = Split(Blocks)
<1>1. Families' = Families
    BY DEF Families, Classes, Closed, Related
<1>2. Overlaps' = Overlaps
    BY <1>1 DEF Overlaps, Windows, SlotOf, WindowOf
<1>3. Blocks' = Blocks
    BY <1>1, <1>2 DEF Blocks, Classes, Closed
<1> QED BY <1>3 DEF Split, Part, Rank, BoundarySlot, First, SlotOf

LEMMA SameTraining ==
    ASSUME rows' = rows, split' = split, label' = label
    PROVE  Development' = Development /\ FittedRows' = FittedRows /\ Trained' = Trained
<1>1. Development' = Development /\ Cell' = Cell
    BY DEF Development, Cell
<1>2. Earlier' = Earlier /\ Later' = Later
    BY <1>1 DEF Earlier, Later, SlotOf
<1>3. FittedRows' = FittedRows
    BY <1>2 DEF FittedRows, Usable
<1>4. Windows(FittedRows)' = Windows(FittedRows) /\ Last(FittedRows)' = Last(FittedRows)
    BY <1>3 DEF Windows, Last, WindowOf, SlotOf
<1>5. Limits' = Limits
    BY <1>3, <1>4 DEF Limits, Peak, Quantile, WindowOf, SlotOf
<1>6. Eligible(Limits)' = Eligible(Limits)
    BY <1>2, <1>4, <1>5 DEF Eligible, Usable, SlotOf
<1>7. Exceeded(Eligible(Limits), Limits)' = Exceeded(Eligible(Limits), Limits)
    BY <1>5, <1>6 DEF Exceeded, Peak, Windows, WindowOf, SlotOf
<1>8. Windows(Eligible(Limits))' = Windows(Eligible(Limits))
    BY <1>6 DEF Windows, WindowOf, SlotOf
<1>9. First(Eligible(Limits))' = First(Eligible(Limits))
    BY <1>6 DEF First, SlotOf
<1>10. Last(FittedRows \cup Eligible(Limits))' = Last(FittedRows \cup Eligible(Limits))
    BY <1>3, <1>6 DEF Last, SlotOf
<1>11. Last(Cell)' = Last(Cell)
    BY <1>1 DEF Last, SlotOf
<1>12. Trained' = Trained
    BY <1>2, <1>4, <1>5, <1>6, <1>7, <1>8, <1>9, <1>10, <1>11 DEF Trained
<1> QED BY <1>1, <1>3, <1>12

LEMMA TrainInit ==
    ASSUME TrainingInit
    PROVE  TrainInv
BY DEF TrainingInit, TrainInv, RowsOK, SplitOK, LabelOK, BundleOK


Row == [slot : Nat, group : Groups]

LEMMA CollectKeepsRows ==
    ASSUME RowsOK, NEW row \in Row, Collect(row)
    PROVE  RowsOK'
<1>1. rows \in Seq(Row)
    BY DEF RowsOK, Row
<1>2. rows' = Append(rows, row)
    BY DEF Collect
<1>3. rows' \in Seq(Row)
    BY <1>1, <1>2
<1>4. PICK n \in Nat : n = Len(rows)
    BY <1>1
<1>5. /\ DOMAIN rows = 1..n /\ DOMAIN rows' = 1..(n + 1) /\ rows'[n + 1] = row
      /\ \A i \in 1..n : rows'[i] = rows[i]
    BY <1>1, <1>2, <1>4
<1>6. \A i \in 1..n : rows[i].slot \in Nat
    <2>1. \A i \in 1..n : rows[i] \in Row
        BY <1>1, <1>4
    <2> QED BY <2>1 DEF Row
<1>7. row.slot \in Nat
    BY DEF Row
<1>8. \A i, j \in 1..n : i <= j => rows[i].slot <= rows[j].slot
    BY <1>5 DEF RowsOK, SlotOf
<1>9. ASSUME NEW i \in 1..n
      PROVE  rows[i].slot <= row.slot
    <2>1. n \in 1..n /\ i <= n /\ rows # <<>>
        BY <1>4, <1>9
    <2>2. row.slot - rows[n].slot \in Nat
        BY <1>4, <2>1, GapsAssumption DEF Collect
    <2>3. rows[i].slot <= rows[n].slot
        BY <1>8, <2>1
    <2> QED BY <1>6, <1>7, <2>1, <2>2, <2>3
<1>10. ASSUME NEW i \in 1..(n + 1), NEW j \in 1..(n + 1), i <= j
       PROVE  rows'[i].slot <= rows'[j].slot
    <2>1. CASE j \in 1..n
        <3>1. i \in 1..n
            BY <1>10, <2>1
        <3> QED BY <1>5, <1>8, <1>10, <2>1, <3>1
    <2>2. CASE j = n + 1 /\ i \in 1..n
        BY <1>5, <1>9, <2>2
    <2>3. CASE j = n + 1 /\ i = n + 1
        BY <1>5, <1>7, <2>3
    <2> QED BY <2>1, <2>2, <2>3
<1> QED BY <1>3, <1>5, <1>10 DEF RowsOK, SlotOf, Row

LEMMA TrainStep ==
    ASSUME TrainInv, [TrainingNext(Row)]_tvars
    PROVE  TrainInv'
<1>1. ASSUME NEW row \in Row, Collect(row)
      PROVE  TrainInv'
    <2>1. split = Unsplit /\ label = <<>> /\ bundle = Untrained
        <3>1. ~split.frozen
            BY <1>1 DEF Collect
        <3>2. split = Unsplit
            BY <3>1 DEF TrainInv, SplitOK, Split
        <3>3. label = <<>>
            BY <3>1 DEF TrainInv, LabelOK
        <3> QED BY <3>2, <3>3 DEF TrainInv, BundleOK
    <2>2. RowsOK'
        BY <1>1, CollectKeepsRows DEF TrainInv
    <2>3. split' = Unsplit /\ label' = <<>> /\ bundle' = Untrained
        BY <1>1, <2>1 DEF Collect
    <2> QED BY <2>2, <2>3 DEF TrainInv, SplitOK, LabelOK, BundleOK
<1>2. ASSUME Freeze
      PROVE  TrainInv'
    <2>1. rows' = rows /\ label' = label /\ bundle' = bundle
        BY <1>2 DEF Freeze
    <2>2. label = <<>> /\ bundle = Untrained
        BY <1>2 DEF Freeze, TrainInv, LabelOK, BundleOK
    <2>3. Cardinality(Blocks) >= 3 /\ split' = Split(Blocks)
        BY <1>2 DEF Freeze
    <2>4. Blocks' = Blocks /\ Split(Blocks)' = Split(Blocks)
        BY <2>1, SameSplit
    <2>5. SplitOK'
        BY <2>3, <2>4 DEF SplitOK
    <2>6. RowsOK'
        BY <2>1 DEF TrainInv, RowsOK, SlotOf
    <2> QED BY <2>1, <2>2, <2>5, <2>6 DEF TrainInv, LabelOK, BundleOK
<1>3. ASSUME split.frozen, NEW labels \in [Development -> Labels], Read(labels)
      PROVE  TrainInv'
    <2>1. rows' = rows /\ split' = split /\ bundle' = bundle /\ label' = labels /\ label = <<>>
        BY <1>3 DEF Read
    <2>2. bundle = Untrained
        BY <2>1 DEF TrainInv, BundleOK
    <2>3. RowsOK' /\ SplitOK'
        BY <2>1, SameSplit DEF TrainInv, RowsOK, SlotOf, SplitOK
    <2>4. Development' = Development
        BY <2>1 DEF Development
    <2>5. LabelOK'
        BY <1>3, <2>1, <2>4 DEF LabelOK, Labels, Failed, Unsupported
    <2> QED BY <2>1, <2>2, <2>3, <2>5 DEF TrainInv, BundleOK
<1>4. ASSUME Train
      PROVE  TrainInv'
    <2>1. rows' = rows /\ split' = split /\ label' = label /\ bundle' = Trained /\ label # <<>>
          /\ FittedRows # {}
        BY <1>4 DEF Train
    <2>2. RowsOK' /\ SplitOK'
        BY <2>1, SameSplit DEF TrainInv, RowsOK, SlotOf, SplitOK
    <2>3. Development' = Development /\ FittedRows' = FittedRows /\ Trained' = Trained
        BY <2>1, SameTraining
    <2>4. LabelOK' /\ BundleOK'
        BY <2>1, <2>3 DEF TrainInv, LabelOK, BundleOK, Labels, Failed, Unsupported
    <2> QED BY <2>2, <2>4 DEF TrainInv
<1>5. ASSUME UNCHANGED tvars
      PROVE  TrainInv'
    <2>1. rows' = rows /\ split' = split /\ label' = label /\ bundle' = bundle
        BY <1>5 DEF tvars
    <2>2. RowsOK' /\ SplitOK'
        BY <2>1, SameSplit DEF TrainInv, RowsOK, SlotOf, SplitOK
    <2>3. Development' = Development /\ FittedRows' = FittedRows /\ Trained' = Trained
        BY <2>1, SameTraining
    <2>4. LabelOK' /\ BundleOK'
        BY <2>1, <2>3 DEF TrainInv, LabelOK, BundleOK, Labels, Failed, Unsupported
    <2> QED BY <2>2, <2>4 DEF TrainInv
<1> QED BY <1>1, <1>2, <1>3, <1>4, <1>5 DEF TrainingNext

LEMMA TrainReaches == TrainingSpec => []TrainInv
<1>1. TrainingInit => TrainInv
    BY TrainInit
<1>2. TrainInv /\ [TrainingNext(Row)]_tvars => TrainInv'
    BY TrainStep
<1>3. TrainInv /\ [TrainingNext([slot : Nat, group : Groups])]_tvars => TrainInv'
    BY <1>2 DEF Row
<1> QED BY <1>1, <1>3, PTL DEF TrainingSpec

\* grouped_split leaks nothing: the parts of a frozen split share no group, no queue
\* and no window, and follow one another, however the queues interleave.
THEOREM SplitCorrect == TrainingSpec => []SplitIsLeakProof
<1>1. TrainInv => SplitIsLeakProof
    BY LeakProof
<1> QED BY <1>1, TrainReaches, PTL


\* The trained artifact in terms of its rows.
LEMMA TrainedFact ==
    ASSUME TrainInv, bundle.trained
    PROVE  /\ label # <<>> /\ FittedRows # {} /\ FittedRows \in SUBSET DOMAIN rows
           /\ \E E \in SUBSET Later :
                  /\ bundle.calibrated = Cardinality(Windows(E))
                  /\ bundle.exceeded = Cardinality(Exceeded(E, Limits))
                  /\ bundle.calibrationSlot = IF E = {} THEN {} ELSE {First(E)}
                  /\ bundle.patternSlot = Last(FittedRows \cup E)
                  /\ \A i \in E : SlotOf(i) - Last(FittedRows) <= MaxAge
           /\ bundle.fitSlot = Last(FittedRows)
           /\ bundle.boundary = IF Later = {} THEN {} ELSE {split.boundary}
           /\ bundle.maxSlot = Last(Cell)
<1>1. label # <<>> /\ FittedRows # {} /\ bundle = Trained
    BY DEF TrainInv, BundleOK, Untrained
<1>2. FittedRows \in SUBSET DOMAIN rows
    BY <1>1, CellFact DEF TrainInv
<1>3. PICK E : E = Eligible(Limits)
    OBVIOUS
<1>4. E \in SUBSET Later /\ \A i \in E : SlotOf(i) - Last(FittedRows) <= MaxAge
    BY <1>3 DEF Eligible
<1>5. /\ bundle.calibrated = Cardinality(Windows(E))
      /\ bundle.exceeded = Cardinality(Exceeded(E, Limits))
      /\ bundle.calibrationSlot = IF E = {} THEN {} ELSE {First(E)}
      /\ bundle.patternSlot = Last(FittedRows \cup E)
      /\ bundle.fitSlot = Last(FittedRows)
      /\ bundle.boundary = IF Later = {} THEN {} ELSE {split.boundary}
      /\ bundle.maxSlot = Last(Cell)
    BY <1>1, <1>3 DEF Trained
<1> QED BY <1>1, <1>2, <1>4, <1>5

\* A later part of the windows only raises the last slot.
LEMMA LastGrows ==
    ASSUME RowsOK, NEW ids \in SUBSET DOMAIN rows, NEW more \in SUBSET DOMAIN rows,
           ids # {}, ids \subseteq more
    PROVE  Last(ids) \in Nat /\ Last(more) \in Nat /\ Last(ids) <= Last(more)
<1>1. more # {}
    OBVIOUS
<1>2. PICK i \in ids : SlotOf(i) = Last(ids)
    BY ExtremesFact
<1>3. Last(ids) \in Nat /\ Last(more) \in Nat
    BY <1>1, ExtremesFact
<1>4. SlotOf(i) <= Last(more)
    BY <1>1, ExtremesFact
<1> QED BY <1>2, <1>3, <1>4

LEMMA AcceptedFact ==
    ASSUME TrainInv
    PROVE  TrainingIsAccepted
<1>1. ASSUME label # <<>>
      PROVE  ~Divided
    <2>1. /\ \A i \in Earlier, j \in Later : WindowOf(SlotOf(i)) < WindowOf(SlotOf(j))
          /\ Earlier \subseteq DOMAIN rows
        BY <1>1, CellFact DEF TrainInv
    <2>2. \A i \in Earlier : WindowOf(SlotOf(i)) \in Nat
        BY <2>1, SlotsFact DEF TrainInv
    <2>3. \A i \in Earlier, j \in Later : WindowOf(SlotOf(i)) # WindowOf(SlotOf(j))
        BY <2>1, <2>2
    <2> QED BY <2>3 DEF Divided, Windows
<1>2. ASSUME bundle.trained
      PROVE  ValidStats /\ ValidArtifact /\ ValidBundle
    <2> DEFINE F == FittedRows
    <2>1. label # <<>> /\ F # {} /\ F \in SUBSET DOMAIN rows
        BY <1>2, TrainedFact
    <2>2. PICK E \in SUBSET Later :
              /\ bundle.calibrated = Cardinality(Windows(E))
              /\ bundle.exceeded = Cardinality(Exceeded(E, Limits))
              /\ bundle.calibrationSlot = IF E = {} THEN {} ELSE {First(E)}
              /\ bundle.patternSlot = Last(F \cup E)
        BY <1>2, TrainedFact
    <2>3. /\ bundle.fitSlot = Last(F)
          /\ bundle.boundary = IF Later = {} THEN {} ELSE {split.boundary}
          /\ bundle.maxSlot = Last(Cell)
        BY <1>2, TrainedFact
    <2>4. /\ RowsOK /\ split.frozen /\ Cell \in SUBSET DOMAIN rows
          /\ Earlier \subseteq split.fitting /\ Later \subseteq split.calibrating
          /\ Earlier \subseteq Cell /\ Later \subseteq Cell /\ F \subseteq Earlier
          /\ Cell \subseteq split.fitting \cup split.calibrating
          /\ \A i \in Earlier : SlotOf(i) < split.boundary
          /\ \A i \in Later : split.boundary <= SlotOf(i)
          /\ split.boundary \in Nat
          /\ \A i \in Earlier, j \in Later : /\ SlotOf(i) < SlotOf(j)
                                             /\ WindowOf(SlotOf(i)) < WindowOf(SlotOf(j))
        BY <2>1, CellFact DEF TrainInv, FittedRows
    <2>5. PICK last \in F : Last(F) = SlotOf(last)
        BY <2>1, <2>4, ExtremesFact
    <2>6. last \in Earlier /\ SlotOf(last) \in Nat
        BY <2>1, <2>4, <2>5, SlotsFact
    <2> HIDE DEF F
    <2>7. F \cup E \in SUBSET DOMAIN rows /\ F \cup E # {} /\ F \cup E \subseteq Cell
          /\ E \in SUBSET DOMAIN rows
        BY <2>1, <2>2, <2>4
    <2>8. Last(F) \in Nat /\ Last(F \cup E) \in Nat /\ Last(Cell) \in Nat
          /\ Last(F) <= Last(F \cup E) /\ Last(F \cup E) <= Last(Cell)
        BY <2>1, <2>4, <2>7, LastGrows
    <2>9. \A i \in E : SlotOf(i) <= Last(F \cup E)
        BY <2>4, <2>7, ExtremesFact
    <2>10. ASSUME E # {}
           PROVE  \E j \in E : First(E) = SlotOf(j)
        BY <2>4, <2>7, <2>10, ExtremesFact
    <2>11. IsFiniteSet(Windows(E)) /\ (E = {} <=> Cardinality(Windows(E)) = 0)
        <3>1. CASE E = {}
            <4>1. Windows(E) = {}
                BY <3>1 DEF Windows
            <4> QED BY <3>1, <4>1, FS_EmptySet
        <3>2. CASE E # {}
            <4>1. IsFiniteSet(Windows(E)) /\ Windows(E) # {}
                BY <2>4, <2>7, <3>2, ExtremesFact
            <4> QED BY <3>2, <4>1, FS_EmptySet
        <3> QED BY <3>1, <3>2
    <2>12. Cardinality(Exceeded(E, Limits)) <= Cardinality(Windows(E))
        <3>1. Exceeded(E, Limits) \subseteq Windows(E)
            BY DEF Exceeded
        <3> QED BY <2>11, <3>1, FS_Subset
    <2>13. ValidStats
        <3>1. ASSUME NEW c \in bundle.calibrationSlot
              PROVE  bundle.fitSlot < c /\ c <= bundle.patternSlot
            <4>1. PICK j \in E : c = SlotOf(j)
                BY <2>2, <2>10, <3>1
            <4>2. SlotOf(last) < SlotOf(j)
                BY <2>2, <2>4, <2>6, <4>1
            <4> QED BY <2>2, <2>3, <2>5, <2>9, <4>1, <4>2
        <3>2. (bundle.calibrationSlot = {}) = (bundle.calibrated = 0)
            BY <2>2, <2>11
        <3>3. bundle.fitSlot <= bundle.patternSlot /\ bundle.exceeded <= bundle.calibrated
            BY <2>2, <2>3, <2>8, <2>12
        <3> QED BY <3>1, <3>2, <3>3 DEF ValidStats
    <2>14. ValidArtifact
        <3>1. ASSUME NEW b \in bundle.boundary
              PROVE  bundle.fitSlot < b /\ b <= bundle.maxSlot
            <4>1. b = split.boundary /\ Later # {}
                BY <2>3, <3>1
            <4>2. PICK j \in Later : split.boundary <= SlotOf(j)
                BY <2>4, <4>1
            <4>3. j \in Cell /\ SlotOf(j) \in Nat
                BY <2>4, SlotsFact
            <4>4. SlotOf(j) <= Last(Cell)
                BY <2>4, <4>3, ExtremesFact
            <4>5. SlotOf(last) < split.boundary
                BY <2>4, <2>6
            <4> QED BY <2>3, <2>4, <2>5, <2>8, <4>1, <4>2, <4>3, <4>4, <4>5
        <3>2. ASSUME NEW c \in bundle.calibrationSlot
              PROVE  /\ \E b \in bundle.boundary : b <= c
                     /\ WindowOf(bundle.fitSlot) < WindowOf(c)
            <4>1. PICK j \in E : c = SlotOf(j)
                BY <2>2, <2>10, <3>2
            <4>2. j \in Later
                BY <2>2
            <4>3. bundle.boundary = {split.boundary}
                BY <2>3, <4>2
            <4>4. split.boundary <= c
                BY <2>4, <4>1, <4>2
            <4>5. WindowOf(SlotOf(last)) < WindowOf(SlotOf(j))
                BY <2>4, <2>6, <4>2
            <4> QED BY <2>3, <2>5, <4>1, <4>3, <4>4, <4>5
        <3>3. bundle.patternSlot <= bundle.maxSlot
            BY <2>2, <2>3, <2>8
        <3> QED BY <3>1, <3>2, <3>3 DEF ValidArtifact
    <2>15. ValidBundle
        <3>1. /\ split.heldOut # {} /\ split.heldOut \in SUBSET DOMAIN rows
              /\ split.fitting \in SUBSET DOMAIN rows /\ split.calibrating \in SUBSET DOMAIN rows
              /\ \A i \in split.fitting \cup split.calibrating, k \in split.heldOut : SlotOf(i) < SlotOf(k)
            BY <2>4, SplitFact DEF TrainInv, Follow
        <3>2. PICK k \in split.heldOut : First(split.heldOut) = SlotOf(k)
            BY <2>4, <3>1, ExtremesFact
        <3>3. \E i \in split.calibrating : SlotOf(i) = split.boundary
            BY <2>1, CellFact DEF TrainInv
        <3>4. split.boundary < First(split.heldOut)
            BY <3>1, <3>2, <3>3
        <3>5. Cell # {} /\ last \in Cell
            BY <2>4, <2>6
        <3>6. First(Cell) <= SlotOf(last)
            BY <2>4, <3>5, ExtremesFact
        <3>7. PICK i \in Cell : SlotOf(i) = Last(Cell)
            BY <2>4, <3>5, ExtremesFact
        <3>8. Last(Cell) < First(split.heldOut)
            BY <2>4, <3>1, <3>2, <3>7
        <3>9. SlotOf(last) < split.boundary
            BY <2>4, <2>6
        <3> QED BY <2>3, <2>5, <3>4, <3>6, <3>8, <3>9 DEF ValidBundle
    <2> QED BY <2>13, <2>14, <2>15
<1> QED BY <1>1, <1>2 DEF TrainingIsAccepted

LEMMA AnchoredFact ==
    ASSUME TrainInv
    PROVE  PredictionsAreAnchored
<1> SUFFICES ASSUME bundle.trained, NEW slot \in 0..(2 * MaxAge + SlotOf(Len(rows)) + 1),
                    Predicts(slot)
             PROVE  /\ slot - Last({i \in split.fitting : Usable(i)}) <= 2 * MaxAge
                    /\ \A i \in Development : Usable(i) => SlotOf(i) <= slot
    BY DEF PredictionsAreAnchored
<1> DEFINE F == FittedRows
<1>1. label # <<>> /\ F # {} /\ F \in SUBSET DOMAIN rows
    BY TrainedFact
<1>2. PICK E \in SUBSET Later :
          /\ bundle.patternSlot = Last(F \cup E)
          /\ \A i \in E : SlotOf(i) - Last(F) <= MaxAge
    BY TrainedFact
<1>3. bundle.maxSlot = Last(Cell)
    BY TrainedFact
<1>4. /\ RowsOK /\ Cell \in SUBSET DOMAIN rows /\ Later \subseteq Cell
      /\ F = {i \in split.fitting : Usable(i)} /\ F \subseteq Cell
      /\ \A i \in Development : Usable(i) => i \in Cell
    BY <1>1, CellFact DEF TrainInv
<1> HIDE DEF F
<1>5. F \cup E \in SUBSET DOMAIN rows /\ F \cup E # {}
    BY <1>1, <1>2, <1>4
<1>6. PICK i \in F \cup E : SlotOf(i) = Last(F \cup E)
    BY <1>4, <1>5, ExtremesFact
<1>7. Last(F) \in Nat /\ Last(Cell) \in Nat /\ SlotOf(i) \in Nat
    <2>1. Cell # {}
        BY <1>1, <1>4
    <2> QED BY <1>1, <1>4, <1>5, <2>1, ExtremesFact, SlotsFact
<1>8. SlotOf(i) - Last(F) <= MaxAge
    <2>1. CASE i \in E
        BY <1>2, <2>1
    <2>2. CASE i \in F
        <3>1. SlotOf(i) <= Last(F)
            BY <1>1, <1>4, <2>2, ExtremesFact
        <3> QED BY <1>7, <3>1, MaxAgeAssumption
    <2> QED BY <2>1, <2>2
<1>9. slot \in Int /\ slot >= Last(Cell) /\ slot - SlotOf(i) <= MaxAge
    BY <1>2, <1>3, <1>6 DEF Predicts
<1>10. slot - Last(F) <= 2 * MaxAge
    BY <1>7, <1>8, <1>9, MaxAgeAssumption
<1>11. ASSUME NEW j \in Development, Usable(j)
       PROVE  SlotOf(j) <= slot
    <2>1. j \in Cell
        BY <1>4, <1>11
    <2>2. SlotOf(j) <= Last(Cell) /\ SlotOf(j) \in Nat
        BY <1>4, <2>1, ExtremesFact, SlotsFact
    <2> QED BY <1>7, <1>9, <2>2
<1> QED BY <1>4, <1>10, <1>11

\* What fit_bundle trains passes every validator of the artifact and the bundle, and
\* the boundary of the split never divides a window, whatever the labels.
THEOREM TrainingCorrect == TrainingSpec => []TrainingIsAccepted
<1>1. TrainInv => TrainingIsAccepted
    BY AcceptedFact
<1> QED BY <1>1, TrainReaches, PTL

\* ResourceEstimator.predict never serves limits beyond two ages of their last fitted
\* row, nor for a slot before evidence of the cell.
THEOREM AnchorCorrect == TrainingSpec => []PredictionsAreAnchored
<1>1. TrainInv => PredictionsAreAnchored
    BY AnchoredFact
<1> QED BY <1>1, TrainReaches, PTL

-----------------------------------------------------------------------------
(* What a fitted limit covers.                                             *)

LEMMA RoundedFact ==
    ASSUME NEW amount \in Nat, NEW step \in {100, 1024}
    PROVE  Rounded(amount, step) \in Nat /\ amount <= Rounded(amount, step)
<1>1. PICK paged \in Int :
          paged = ((amount * 11000 + 10000 * step - 1) \div (10000 * step)) * step
    OBVIOUS
<1>2. amount <= paged
    <2>1. CASE step = 100
        <3>1. PICK q \in Int : q = (amount * 11000 + 999999) \div 1000000
            OBVIOUS
        <3>2. paged = q * 100
            BY <1>1, <2>1, <3>1, SMT
        <3>3. amount * 11000 + 999999 < 1000000 * (q + 1)
            BY <3>1, SMT
        <3> QED BY <3>2, <3>3, SMT
    <2>2. CASE step = 1024
        <3>1. PICK q \in Int : q = (amount * 11000 + 10239999) \div 10240000
            OBVIOUS
        <3>2. paged = q * 1024
            BY <1>1, <2>2, <3>1, SMT
        <3>3. amount * 11000 + 10239999 < 10240000 * (q + 1)
            BY <3>1, SMT
        <3> QED BY <3>2, <3>3, SMT
    <2> QED BY <2>1, <2>2
<1>3. Rounded(amount, step) = IF step >= paged THEN step ELSE paged
    BY <1>1, OfTwo DEF Rounded
<1> QED BY <1>2, <1>3

\* The nearest rank leaves at most one in a hundred above it.
LEMMA QuantileFact ==
    ASSUME NEW ws, IsFiniteSet(ws), ws # {}, NEW demand \in [ws -> Nat],
           NEW q, q = Quantile(demand, ws)
    PROVE  /\ q \in Nat
           /\ 100 * Cardinality({u \in ws : demand[u] <= q}) >= 99 * Cardinality(ws)
<1> DEFINE Under(d) == {u \in ws : demand[u] <= d}
<1>1. PICK n \in Nat : n = Cardinality(ws)
    BY FS_CardinalityType
<1>2. PICK R : R = {demand[u] : u \in ws}
    OBVIOUS
<1>3. R \subseteq Nat /\ R # {} /\ IsFiniteSet(R)
    <2>1. R \subseteq Nat /\ R # {}
        BY <1>2
    <2>2. demand \in Surjection(ws, R)
        BY <1>2 DEF Surjection
    <2> QED BY <2>1, <2>2, FS_Surjection
<1>4. PICK top \in ws : \A u \in ws : demand[u] <= demand[top]
    <2>1. R \in SUBSET Int
        BY <1>3
    <2>2. PICK m \in R : \A y \in R : m >= y
        BY <1>3, <2>1, MaxExists
    <2>3. PICK t \in ws : m = demand[t]
        BY <1>2, <2>2
    <2>4. \A u \in ws : demand[u] \in R
        BY <1>2
    <2>5. \A u \in ws : demand[u] \in Nat
        OBVIOUS
    <2> QED BY <2>2, <2>3, <2>4, <2>5
<1>5. PICK V : V = {v \in ws : 100 * Cardinality(Under(demand[v])) >= 99 * Cardinality(ws)}
    OBVIOUS
<1>6. top \in V
    <2>1. Under(demand[top]) = ws
        BY <1>4
    <2> QED BY <1>1, <1>5, <2>1
<1>7. PICK D : D = {demand[v] : v \in V}
    OBVIOUS
<1>8. D \subseteq R /\ D # {}
    <2>1. V \subseteq ws
        BY <1>5
    <2> QED BY <1>2, <1>6, <1>7, <2>1
<1>9. IsFiniteSet(D) /\ D \in SUBSET Int
    <2>1. IsFiniteSet(D)
        BY <1>3, <1>8, FS_Subset
    <2> QED BY <1>3, <1>8, <2>1
<1>10. Min(D) \in D
    BY <1>8, <1>9, MinFact
<1>11. q = Min(D)
    BY <1>5, <1>7 DEF Quantile
<1>12. PICK v \in V : q = demand[v]
    BY <1>7, <1>10, <1>11
<1>13. v \in ws /\ 100 * Cardinality(Under(demand[v])) >= 99 * Cardinality(ws)
    BY <1>5
<1> QED BY <1>12, <1>13

\* Of a finite set nearly all of which is within a limit, hardly any is beyond it.
LEMMA Complement ==
    ASSUME NEW ws, IsFiniteSet(ws), NEW within \in SUBSET ws, NEW beyond \in SUBSET ws,
           within \cap beyond = {}, 100 * Cardinality(within) >= 99 * Cardinality(ws)
    PROVE  100 * Cardinality(beyond) <= Cardinality(ws)
<1>1. IsFiniteSet(within) /\ IsFiniteSet(beyond)
    BY FS_Subset
<1>2. within \cup beyond \subseteq ws
    OBVIOUS
<1>3. IsFiniteSet(within \cup beyond) /\ Cardinality(within \cup beyond) <= Cardinality(ws)
    BY <1>2, FS_Subset
<1>4. Cardinality(within \cup beyond) = Cardinality(within) + Cardinality(beyond)
                                        - Cardinality(within \cap beyond)
    BY <1>1, FS_Union
<1>5. Cardinality(within \cap beyond) = 0
    BY FS_EmptySet
<1>6. Cardinality(ws) \in Nat /\ Cardinality(within) \in Nat /\ Cardinality(beyond) \in Nat
    BY <1>1, FS_CardinalityType
<1> QED BY <1>3, <1>4, <1>5, <1>6

LEMMA PeakFact ==
    ASSUME RowsOK, NEW ids \in SUBSET DOMAIN rows, \A i \in ids : label[i] \in Demands,
           NEW w \in Windows(ids)
    PROVE  /\ Peak(ids, w).compute \in Nat /\ Peak(ids, w).data \in Nat
           /\ \A i \in ids : WindowOf(SlotOf(i)) = w => /\ label[i].compute <= Peak(ids, w).compute
                                                        /\ label[i].data <= Peak(ids, w).data
<1>1. PICK within : within = {i \in ids : WindowOf(SlotOf(i)) = w}
    OBVIOUS
<1>2. within # {} /\ within \subseteq ids /\ IsFiniteSet(within)
    <2>1. within # {} /\ within \subseteq ids /\ within \subseteq DOMAIN rows
        BY <1>1 DEF Windows
    <2> QED BY <2>1, SlotsFact, FS_Subset
<1>3. \A i \in ids : label[i].compute \in Nat /\ label[i].data \in Nat
    BY DemandsAssumption
<1>4. PICK computes : computes = {label[i].compute : i \in within}
    OBVIOUS
<1>5. PICK datas : datas = {label[i].data : i \in within}
    OBVIOUS
<1>6. computes \subseteq Nat /\ computes # {} /\ IsFiniteSet(computes)
    <2>1. computes \subseteq Nat /\ computes # {}
        BY <1>2, <1>3, <1>4
    <2>2. PICK f : f = [i \in within |-> label[i].compute]
        OBVIOUS
    <2>3. f \in Surjection(within, computes)
        BY <1>4, <2>2 DEF Surjection
    <2> QED BY <1>2, <2>1, <2>3, FS_Surjection
<1>7. datas \subseteq Nat /\ datas # {} /\ IsFiniteSet(datas)
    <2>1. datas \subseteq Nat /\ datas # {}
        BY <1>2, <1>3, <1>5
    <2>2. PICK f : f = [i \in within |-> label[i].data]
        OBVIOUS
    <2>3. f \in Surjection(within, datas)
        BY <1>5, <2>2 DEF Surjection
    <2> QED BY <1>2, <2>1, <2>3, FS_Surjection
<1>8. /\ Max(computes) \in computes /\ \A y \in computes : Max(computes) >= y
      /\ Max(datas) \in datas /\ \A y \in datas : Max(datas) >= y
    <2>1. computes \in SUBSET Int /\ datas \in SUBSET Int
        BY <1>6, <1>7
    <2> QED BY <1>6, <1>7, <2>1, MaxFact
<1>9. Peak(ids, w).compute = Max(computes) /\ Peak(ids, w).data = Max(datas)
    BY <1>1, <1>4, <1>5 DEF Peak
<1>10. Max(computes) \in Nat /\ Max(datas) \in Nat
    BY <1>6, <1>7, <1>8
<1>11. \A i \in ids : WindowOf(SlotOf(i)) = w => label[i].compute \in computes /\ label[i].data \in datas
    BY <1>1, <1>4, <1>5
<1>12. \A i \in ids : WindowOf(SlotOf(i)) = w => /\ label[i].compute <= Max(computes)
                                                 /\ label[i].data <= Max(datas)
    BY <1>3, <1>8, <1>10, <1>11
<1> QED BY <1>9, <1>10, <1>12

LEMMA CoverFact ==
    ASSUME TrainInv
    PROVE  LimitsCoverFitted
<1> SUFFICES ASSUME bundle.trained
             PROVE  \A resource \in {"compute", "data"} :
                        LET above == {i \in FittedRows : label[i][resource] > bundle.limits[resource]}
                        IN  100 * Cardinality(Windows(above)) <= Cardinality(Windows(FittedRows))
    BY DEF LimitsCoverFitted
<1>1. PICK F : F = FittedRows
    OBVIOUS
<1>2. RowsOK /\ F # {} /\ F \in SUBSET DOMAIN rows
    BY <1>1, TrainedFact DEF TrainInv
<1>3. \A i \in F : label[i] \in Demands
    BY <1>1 DEF FittedRows, Usable
<1>4. PICK ws : ws = Windows(F)
    OBVIOUS
<1>5. IsFiniteSet(ws) /\ ws # {}
    BY <1>2, <1>4, ExtremesFact
<1>6. PICK compute, data : /\ compute = [w \in ws |-> Peak(F, w).compute]
                           /\ data = [w \in ws |-> Peak(F, w).data]
    OBVIOUS
<1>7. /\ \A w \in ws : Peak(F, w).compute \in Nat /\ Peak(F, w).data \in Nat
      /\ \A i \in F : /\ label[i].compute <= Peak(F, WindowOf(SlotOf(i))).compute
                      /\ label[i].data <= Peak(F, WindowOf(SlotOf(i))).data
      /\ \A i \in F : WindowOf(SlotOf(i)) \in ws
    <2>1. \A i \in F : WindowOf(SlotOf(i)) \in ws
        BY <1>4 DEF Windows
    <2>2. ASSUME NEW w \in ws
          PROVE  /\ Peak(F, w).compute \in Nat /\ Peak(F, w).data \in Nat
                 /\ \A i \in F : WindowOf(SlotOf(i)) = w => /\ label[i].compute <= Peak(F, w).compute
                                                            /\ label[i].data <= Peak(F, w).data
        BY <1>2, <1>3, <1>4, PeakFact
    <2> QED BY <2>1, <2>2
<1>8. compute \in [ws -> Nat] /\ data \in [ws -> Nat]
    BY <1>6, <1>7
<1>9. PICK qc, qd : qc = Quantile(compute, ws) /\ qd = Quantile(data, ws)
    OBVIOUS
<1>10. /\ qc \in Nat /\ 100 * Cardinality({u \in ws : compute[u] <= qc}) >= 99 * Cardinality(ws)
       /\ qd \in Nat /\ 100 * Cardinality({u \in ws : data[u] <= qd}) >= 99 * Cardinality(ws)
    BY <1>5, <1>8, <1>9, QuantileFact
<1>11. PICK lc, ld : lc = Rounded(qc, 100) /\ ld = Rounded(qd, 1024)
    OBVIOUS
<1>12. lc \in Nat /\ ld \in Nat /\ qc <= lc /\ qd <= ld
    BY <1>10, <1>11, RoundedFact
<1>13. bundle.limits.compute = lc /\ bundle.limits.data = ld
    <2>1. bundle = Trained
        BY DEF TrainInv, BundleOK, Untrained
    <2>2. Limits.compute = lc /\ Limits.data = ld
        BY <1>1, <1>4, <1>6, <1>9, <1>11 DEF Limits
    <2> QED BY <2>1, <2>2 DEF Trained
<1>14. \A i \in F : label[i].compute \in Nat /\ label[i].data \in Nat
    BY <1>3, DemandsAssumption
<1>15. 100 * Cardinality(Windows({i \in F : label[i].compute > lc})) <= Cardinality(ws)
    <2>1. PICK within : within = {u \in ws : compute[u] <= qc}
        OBVIOUS
    <2>2. PICK beyond : beyond = Windows({i \in F : label[i].compute > lc})
        OBVIOUS
    <2>3. within \in SUBSET ws /\ beyond \in SUBSET ws
        BY <1>7, <2>1, <2>2 DEF Windows
    <2>4. ASSUME NEW w \in beyond
          PROVE  w \notin within
        <3>1. PICK i \in F : label[i].compute > lc /\ w = WindowOf(SlotOf(i))
            BY <2>2, <2>4 DEF Windows
        <3>2. w \in ws /\ compute[w] = Peak(F, w).compute
            BY <1>6, <1>7, <3>1
        <3>3. label[i].compute <= compute[w] /\ compute[w] \in Nat /\ label[i].compute \in Nat
            BY <1>7, <1>14, <3>1, <3>2
        <3>4. compute[w] > qc
            BY <1>10, <1>12, <3>1, <3>3
        <3> QED BY <1>10, <2>1, <3>3, <3>4
    <2>5. within \cap beyond = {}
        BY <2>4
    <2> QED BY <1>5, <1>10, <2>1, <2>2, <2>3, <2>5, Complement
<1>16. 100 * Cardinality(Windows({i \in F : label[i].data > ld})) <= Cardinality(ws)
    <2>1. PICK within : within = {u \in ws : data[u] <= qd}
        OBVIOUS
    <2>2. PICK beyond : beyond = Windows({i \in F : label[i].data > ld})
        OBVIOUS
    <2>3. within \in SUBSET ws /\ beyond \in SUBSET ws
        BY <1>7, <2>1, <2>2 DEF Windows
    <2>4. ASSUME NEW w \in beyond
          PROVE  w \notin within
        <3>1. PICK i \in F : label[i].data > ld /\ w = WindowOf(SlotOf(i))
            BY <2>2, <2>4 DEF Windows
        <3>2. w \in ws /\ data[w] = Peak(F, w).data
            BY <1>6, <1>7, <3>1
        <3>3. label[i].data <= data[w] /\ data[w] \in Nat /\ label[i].data \in Nat
            BY <1>7, <1>14, <3>1, <3>2
        <3>4. data[w] > qd
            BY <1>10, <1>12, <3>1, <3>3
        <3> QED BY <1>10, <2>1, <3>3, <3>4
    <2>5. within \cap beyond = {}
        BY <2>4
    <2> QED BY <1>5, <1>10, <2>1, <2>2, <2>3, <2>5, Complement
<1> QED BY <1>1, <1>4, <1>13, <1>15, <1>16

\* Of a hundred fitted windows one at most has a row above the limit that
\* ResourceEstimator.fit took by rank from the peaks of the windows and rounded.
THEOREM CoverCorrect == TrainingSpec => []LimitsCoverFitted
<1>1. TrainInv => LimitsCoverFitted
    BY CoverFact
<1> QED BY <1>1, TrainReaches, PTL
===============================================================================
