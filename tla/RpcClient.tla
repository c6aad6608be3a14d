------------------------------ MODULE RpcClient ------------------------------
(***************************************************************************)
(* RpcClient (src/cu_pilot/rpc.py) as one thread uses it: a call is a      *)
(* bounded loop of posted requests.  Congestion statuses, timeouts and     *)
(* lost connections, and the node's two busy codes are tried again; every  *)
(* other refusal ends the call.  simulate turns a measurement into padded, *)
(* paged limits or a refusal that keeps the evidence.  The pauses between  *)
(* attempts take time and decide nothing, so they are left out; so is the  *)
(* cancellation event, which no caller in the application passes.          *)
(***************************************************************************)
EXTENDS Resources

CONSTANTS
    Attempts,       \* requests one call may post
    Measurements    \* [units, data] pairs a successful simulation may report

ASSUME AttemptsAssumption == Attempts \in 1..5
ASSUME MeasurementsAssumption == Measurements \subseteq [units : Nat, data : Nat]

VARIABLE rpc        \* the call in progress

Page == 32768

Quiet == [method |-> "none", attempt |-> 0, phase |-> "quiet"]

RpcInit == rpc = Quiet

Issue(method) == rpc' = [method |-> method, attempt |-> 0, phase |-> "ready"]

Post == /\ rpc.phase = "ready"
        /\ rpc' = [rpc EXCEPT !.phase = "waiting"]

\* 429, 502, 503, 504, a timeout, a network error, -32005 or -32016.
Busy == /\ rpc.phase = "waiting"
        /\ rpc' = IF rpc.attempt + 1 < Attempts
                  THEN [rpc EXCEPT !.phase = "ready", !.attempt = @ + 1]
                  ELSE [rpc EXCEPT !.phase = "failed"]

\* Any other status, a malformed envelope, or an error of the method.
Refuse == /\ rpc.phase = "waiting"
          /\ rpc' = [rpc EXCEPT !.phase = "failed"]

Answer == /\ rpc.phase = "waiting"
          /\ rpc' = [rpc EXCEPT !.phase = "answered"]

RpcStep == Post \/ Busy \/ Refuse \/ Answer

(***************************************************************************)
(* simulate: the limits of a measurement at the default margin of a tenth. *)
(***************************************************************************)
\* Mutant: the margin is rounded down.
PaddedDown(amount) == (amount * 11) \div 10
Padded(amount) == (amount * 11 + 9) \div 10
AtLeast(floor, amount) == IF amount > floor THEN amount ELSE floor

MeasuredLimits(m) ==
    [compute |-> AtLeast(1, Padded(m.units)),
     data |-> AtLeast(Page, ((Padded(m.data) + Page - 1) \div Page) * Page)]
ExceedsRuntime(limits) == limits.compute > MaxComputeUnits \/ limits.data > MaxLoadedBytes
==============================================================================
