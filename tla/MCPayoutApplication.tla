-------------------------- MODULE MCPayoutApplication --------------------------
(***************************************************************************)
(* Two parts of the payout application that share no state while they run: *)
(* the control service, with the steps it takes, and the trainer of the    *)
(* profiles those steps use.  One run checks both.                         *)
(***************************************************************************)
EXTENDS PayoutServer, ProfileTraining

VARIABLE process    \* which of them this behaviour is of

allVars == <<process, serverVars, rpc, selVars, tvars>>

\* Demands that fit exactly or miss by one unit or one byte, at both ceilings.
MCMeasurements == {[units |-> 90909, data |-> 953250], [units |-> 90910, data |-> 0],
                   [units |-> 0, data |-> 953251], [units |-> 1272728, data |-> 0]}
MCFitted == {[compute |-> 100000, data |-> 1048576], [compute |-> 100100, data |-> 1048576]}

\* Groups 2 and 3 share a queue.
MCQueueOf == <<1, 2, 2, 3>>
MCDemands == {[compute |-> 1000, data |-> 10000], [compute |-> 1000, data |-> 20000]}
MCGaps == {0, 1, 3}
\* The Wilson bounds of at most 0.8.
MCAcceptable == {<<0, 1>>, <<0, 2>>, <<0, 3>>, <<1, 3>>}
MCRows == {row \in [slot : 0..13, group : Groups] : rows = <<>> => row.slot \in {0, 1}}

MCInit == process \in {"server", "trainer"} /\ ServerInit /\ TrainingInit

Serves == ServerNext /\ UNCHANGED tvars
Trains == TrainingNext(MCRows) /\ UNCHANGED <<serverVars, rpc, selVars>>

MCNext == /\ UNCHANGED process
          /\ \/ process = "server" /\ Serves
             \/ process = "trainer" /\ Trains

MCSpec == MCInit /\ [][MCNext]_allVars /\ ServerFairness
==============================================================================
