-------------------------- MODULE MCObservationStore --------------------------
(***************************************************************************)
(* Collectors over an empty store, two of them at once or one after the    *)
(* other, with a restart; or a store whose observation "p" has been        *)
(* collected, and reconcilers of the transactions sent for it.             *)
(***************************************************************************)
EXTENDS OutcomeReconciliation, TLC

CONSTANTS alice, bob, early, late, sent, resent

Alike == Permutations(Collectors) \cup Permutations(Reconcilers) \cup Permutations(Signatures)

Of(i, x) == [id |-> i, input |-> x]
MCStreams == {<<Of("p", "x"), Of("q", "x")>>, <<Of("q", "y")>>}
Found(status, excess) == [status |-> status, excess |-> excess]
MCBodies == {Found("unavailable", FALSE), Found("confirmed", TRUE), Found("finalized", FALSE)}

Plan == [serial |-> 1, draw |-> "selected"]
Label == [serial |-> 2, plan |-> Plan]
Collected ==
    /\ row = [i \in Ids |-> IF i = "p" THEN [input |-> "x", plan |-> Plan, result |-> Label,
                                            phase |-> "complete", trace |-> 1] ELSE Empty]
    /\ checkpoint = [x \in Streams |-> IF x[1].id = "p" THEN 1 ELSE 0]
    /\ control = [i \in Ids |-> IF i = "p" THEN [draw |-> "selected", outcome |-> Label]
                                ELSE [draw |-> "none", outcome |-> NoResult]]
    /\ collector = [c \in Collectors |-> Resting]
    /\ serial = 2 /\ runs = MaxRuns
    /\ NothingSent
    /\ calls = 0
Collecting == Init /\ NothingSent /\ calls = MaxCalls
MCInit == Collected \/ Collecting
MCSpec == MCInit /\ [][RNext]_<<vars, rvars>>
==============================================================================
