----------------------------- MODULE PayoutServer -----------------------------
(***************************************************************************)
(* The payout demo's control service (examples/payouts/server.py): request *)
(* handlers on threads of their own, one background worker that steps a    *)
(* queue a bounded number of times, a lock around the worker record and a  *)
(* stop event that is set outside it.  A step takes AdaptiveSelection's    *)
(* decision, or needs none (a recovered signature, a paused or finished    *)
(* queue, an error before planning); signing and sending are               *)
(* PayoutExecutor's.                                                       *)
(***************************************************************************)
EXTENDS AdaptiveSelection

CONSTANTS
    Handlers,       \* threads that serve requests; each may start one worker thread
    MaxSteps        \* steps of one run of the worker

ASSUME MaxStepsAssumption == MaxSteps \in Nat \ {0}

VARIABLES
    running,        \* worker["running"]
    stopping,       \* the stop event
    handler,        \* where each handler stands
    worker,         \* the worker thread each handler started: its place and its count of steps
    stopped         \* history: a stop was asked for since the last start or step

serverVars == <<running, stopping, handler, worker, stopped>>
Planning == UNCHANGED <<rpc, selVars>>

Absent == [at |-> "none", steps |-> 0]

ServerInit == /\ running = FALSE
              /\ stopping = FALSE
              /\ handler = [h \in Handlers |-> "idle"]
              /\ worker = [h \in Handlers |-> Absent]
              /\ stopped = FALSE
              /\ RpcInit
              /\ SelInit

Move(h, place) == handler' = [handler EXCEPT ![h] = place]
Go(w, place) == worker' = [worker EXCEPT ![w].at = place]

\* /api/start and /api/step take the worker record under the lock and clear the
\* stop event there; a second one is refused.
Claim(h, place) == /\ handler[h] = "idle"
                   /\ ~running
                   /\ running' = TRUE
                   /\ stopping' = FALSE
                   /\ stopped' = FALSE
                   /\ Move(h, place)

StartRequest(h) == Claim(h, "start") /\ UNCHANGED worker /\ Planning

\* Mutant: the event is cleared when the thread starts, outside the lock.
SpawnClears(h) == /\ handler[h] = "start"
                  /\ Move(h, "idle")
                  /\ worker' = [worker EXCEPT ![h] = [at |-> "check", steps |-> 0]]
                  /\ stopping' = FALSE
                  /\ UNCHANGED <<running, stopped>>
                  /\ Planning

\* The thread starts after the lock is released, then the handler replies.
Spawn(h) == /\ handler[h] = "start"
            /\ Move(h, "idle")
            /\ worker' = [worker EXCEPT ![h] = [at |-> "check", steps |-> 0]]
            /\ UNCHANGED <<running, stopping, stopped>>
            /\ Planning

StopRequest(h) == /\ handler[h] = "idle"
                  /\ stopping' = TRUE
                  /\ stopped' = TRUE
                  /\ UNCHANGED <<running, handler, worker>>
                  /\ Planning

\* Mutant: a step is not refused while the worker runs.
StepUnguarded(h) == /\ handler[h] = "idle"
                    /\ running' = TRUE
                    /\ Move(h, "step")
                    /\ UNCHANGED <<stopping, stopped, worker>>
                    /\ Planning

StepRequest(h) == Claim(h, "step") /\ UNCHANGED worker /\ Planning

(***************************************************************************)
(* A step of the application, in whichever thread.                         *)
(***************************************************************************)
\* How a step that plans nothing ends, and how one that has planned does: a
\* selection that stopped raises.
Outcomes == {"more", "done", "raised"}
Ends(outcome) == sel.phase = "over" /\ (sel.status = "stopped" => outcome = "raised")

HandlerPlans(h) == /\ handler[h] = "step"
                   /\ Move(h, "select")
                   /\ Begin
                   /\ UNCHANGED <<running, stopping, worker, stopped>>

HandlerEnds(h) == /\ \/ handler[h] = "step"
                     \/ handler[h] = "select" /\ sel.phase = "over"
                  /\ Move(h, "close")
                  /\ UNCHANGED <<running, stopping, worker, stopped>>
                  /\ UNCHANGED <<rpc, learned>>
                  /\ sel' = NoSelection

\* finally: the application is closed, then the record is released.
HandlerCloses(h) == /\ handler[h] = "close"
                    /\ running' = FALSE
                    /\ Move(h, "idle")
                    /\ UNCHANGED <<stopping, worker, stopped>>
                    /\ Planning

\* run_worker looks at the event before each of its steps.
WorkerChecks(w) == /\ worker[w].at = "check"
                   /\ IF stopping \/ worker[w].steps = MaxSteps
                      THEN Go(w, "close")
                      ELSE worker' = [worker EXCEPT ![w] = [at |-> "step", steps |-> @.steps + 1]]
                   /\ UNCHANGED <<running, stopping, handler, stopped>>
                   /\ Planning

WorkerPlans(w) == /\ worker[w].at = "step"
                  /\ Go(w, "select")
                  /\ Begin
                  /\ UNCHANGED <<running, stopping, handler, stopped>>

\* Mutant: a step that raises ends the thread without the finally.
WorkerDies(w, outcome) == /\ \/ worker[w].at = "step"
                             \/ worker[w].at = "select" /\ Ends(outcome)
                          /\ Go(w, CASE outcome = "more" -> "check" [] outcome = "done" -> "close"
                                     [] OTHER -> "none")
                          /\ UNCHANGED <<running, stopping, handler, stopped>>
                          /\ UNCHANGED <<rpc, learned>>
                          /\ sel' = NoSelection

WorkerEnds(w, outcome) == /\ \/ worker[w].at = "step"
                             \/ worker[w].at = "select" /\ Ends(outcome)
                          /\ Go(w, IF outcome = "more" THEN "check" ELSE "close")
                          /\ UNCHANGED <<running, stopping, handler, stopped>>
                          /\ UNCHANGED <<rpc, learned>>
                          /\ sel' = NoSelection

WorkerCloses(w) == /\ worker[w].at = "close"
                   /\ running' = FALSE
                   /\ worker' = [worker EXCEPT ![w] = Absent]
                   /\ UNCHANGED <<stopping, handler, stopped>>
                   /\ Planning

\* serve's finally ends the process with every thread of it; a new process
\* starts with a fresh record, event and application.
Restart == /\ running' = FALSE
           /\ stopping' = FALSE
           /\ stopped' = FALSE
           /\ handler' = [h \in Handlers |-> "idle"]
           /\ worker' = [h \in Handlers |-> Absent]
           /\ rpc' = Quiet
           /\ sel' = NoSelection /\ learned' = Nothing

\* The batch of the step in progress is being selected.
Selecting == SelStep /\ UNCHANGED serverVars

HandlerWorks(h) == Spawn(h) \/ HandlerPlans(h) \/ HandlerEnds(h) \/ HandlerCloses(h)
WorkerWorks(w) == \/ WorkerChecks(w) \/ WorkerPlans(w) \/ WorkerCloses(w)
                  \/ \E outcome \in Outcomes : WorkerEnds(w, outcome)

ServerNext == \/ \E h \in Handlers : \/ StartRequest(h) \/ StopRequest(h) \/ StepRequest(h)
                                     \/ HandlerWorks(h) \/ WorkerWorks(h)
              \/ Selecting
              \/ Restart

ServerSpec == ServerInit /\ [][ServerNext]_<<serverVars, rpc, selVars>>

\* Threads are scheduled, requests to the node time out, and a process that is
\* restarted again and again may finish nothing.
ServerFairness == /\ \A h \in Handlers : /\ WF_serverVars(HandlerWorks(h))
                                         /\ WF_serverVars(WorkerWorks(h))
                  /\ WF_<<rpc, selVars>>(Selecting)

(***************************************************************************)
(* Properties.                                                             *)
(***************************************************************************)
InStep(place) == place \in {"step", "select"}

\* At most one thread of the process is inside a step, whether a handler's or a
\* worker's: two would sign two batches of one cursor.
OneStepper ==
    /\ \A h, w \in Handlers : ~(InStep(handler[h]) /\ InStep(worker[w].at))
    /\ \A h, other \in Handlers : h # other =>
          /\ ~(InStep(handler[h]) /\ InStep(handler[other]))
          /\ ~(InStep(worker[h].at) /\ InStep(worker[other].at))

\* Once a stop has been asked for, the worker begins no further step until a new
\* start or step has been accepted, although the event is set outside the lock.
StopIsHonoured ==
    [][\A w \in Handlers :
          worker[w].at = "check" /\ InStep(worker'[w].at) => ~stopped]_<<serverVars, rpc, selVars>>

\* A run ends: the record that refuses further requests is released, whatever
\* the node answers and without anyone asking for a stop.
RunsEnd == running ~> ~running
==============================================================================
